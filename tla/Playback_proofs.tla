---------------------------- MODULE Playback_proofs ----------------------------
(***************************************************************************)
(* The player as a whole: types, the pause, and the agreement of player    *)
(* and engine, for every list, length, ring, quantum and command set.      *)
(*                                                                         *)
(* The state is one record s, and every handler of the code maps it to     *)
(* another; so the invariants are stated of s, and proved of each handler  *)
(* as it is called, in the order in which the handlers are composed.       *)
(*                                                                         *)
(* Good(s): the parts are well formed and, where the user paused, nothing  *)
(* decodes.  Ready(s): a lane in the mixer is primed, and there is none if *)
(* no fade is configured.  Linked(s): there is no fade and the engine      *)
(* plays what the player shows (Calm), or both sides wait for the same     *)
(* fade (Fading).  Within a callback, a fade may be over with its result   *)
(* still to be fed back (Faded, Taken).                                    *)
(*                                                                         *)
(* Sure(s): the cursor is on the entry that is heard and the album clock is*)
(* not ahead of it, where tracks are cut and played in their order.        *)
(*                                                                         *)
(* A handler that a running fade survives is a step (Steps: keeps Good,    *)
(* Ready and Linked); one that may cancel the fade in the engine is a move *)
(* (Moves: keeps Good, Ready and Calm), and a move that begins without a   *)
(* fade is a step.                                                         *)
(***************************************************************************)
EXTENDS Playback, Queue_proofs

-----------------------------------------------------------------------------
(***************************************************************************)
(* The album clock: the sums that lay the queue end to end exist, and they *)
(* are natural numbers.                                                    *)
(***************************************************************************)
LEMMA SumsExist ==
  ASSUME NEW f
  PROVE  \A n \in Nat : \E g : g = [k \in 0..n |-> IF k = 0 THEN 0 ELSE g[k - 1] + f[k - 1]]
<1> DEFINE S == {n \in Nat :
                   \E g : g = [k \in 0..n |-> IF k = 0 THEN 0 ELSE g[k - 1] + f[k - 1]]}
<1>1. 0 \in S
  <2> DEFINE g == [k \in 0..0 |-> 0]
  <2>1. g = [k \in 0..0 |-> IF k = 0 THEN 0 ELSE g[k - 1] + f[k - 1]]
    OBVIOUS
  <2> QED
    BY <2>1
<1>2. ASSUME NEW n \in Nat, n \in S PROVE n + 1 \in S
  <2>1. PICK g : g = [k \in 0..n |-> IF k = 0 THEN 0 ELSE g[k - 1] + f[k - 1]]
    BY <1>2
  <2> DEFINE h == [k \in 0..(n + 1) |-> IF k = n + 1 THEN g[n] + f[n] ELSE g[k]]
  <2>2. \A k \in 0..n : g[k] = IF k = 0 THEN 0 ELSE g[k - 1] + f[k - 1]
    BY <2>1
  <2>3. ASSUME NEW k \in 0..(n + 1) PROVE h[k] = IF k = 0 THEN 0 ELSE h[k - 1] + f[k - 1]
    <3>1. CASE k = n + 1
      BY <3>1
    <3>2. CASE k \in 0..n
      BY <3>2, <2>2
    <3> QED
      BY <3>1, <3>2
  <2> HIDE DEF h
  <2>4. h = [k \in 0..(n + 1) |-> h[k]]
    BY DEF h
  <2>5. h = [k \in 0..(n + 1) |-> IF k = 0 THEN 0 ELSE h[k - 1] + f[k - 1]]
    BY <2>3, <2>4
  <2> QED
    BY <2>5
<1> HIDE DEF S
<1>3. Nat \subseteq S
  BY <1>1, <1>2, SuccessorsSuffice
<1> QED
  BY <1>3 DEF S

(* Such sums of natural numbers are natural numbers. *)
LEMMA SumsAreNat ==
  ASSUME NEW n \in Nat, NEW f \in [0..n -> Nat],
         NEW g, g = [k \in 0..n |-> IF k = 0 THEN 0 ELSE g[k - 1] + f[k - 1]]
  PROVE  \A k \in 0..n : g[k] \in Nat
<1> DEFINE S == {k \in Nat : k <= n => g[k] \in Nat}
<1>1. \A k \in 0..n : g[k] = IF k = 0 THEN 0 ELSE g[k - 1] + f[k - 1]
  OBVIOUS
<1>2. 0 \in S
  BY <1>1
<1>3. ASSUME NEW k \in Nat, k \in S PROVE k + 1 \in S
  BY <1>1, <1>3
<1> HIDE DEF S
<1>4. Nat \subseteq S
  BY <1>2, <1>3, SuccessorsSuffice
<1>5. ASSUME NEW k \in 0..n PROVE g[k] \in Nat
  <2>1. k \in S /\ k <= n
    BY <1>4
  <2> QED
    BY <2>1 DEF S
<1> QED
  BY <1>5

LengthsOK(l) == l \in [Entries -> Nat \cup {Unknown}]

(* A position holds an entry, or nothing. *)
LEMMA AtEntry ==
  ASSUME NEW q, QueueOK(q), NEW i
  PROVE  at(q, i) \in Maybe /\ Length(q) \in Nat
  BY DEF at, QueueOK, Sketch, Length, Maybe

(* The length of an item, learnt or hinted, is a number. *)
LEMMA ItemLengthNat ==
  ASSUME NEW p, LengthsOK(p.lengths), NEW item \in Maybe
  PROVE  LengthOfItem(p, item) \in Nat
  BY HintAssumption DEF LengthOfItem, LengthsOK, Unknown, Maybe

(* ... so is the length of a position of the list, *)
LEMMA LengthNat ==
  ASSUME NEW s, QueueOK(s.q), LengthsOK(s.p.lengths), NEW i
  PROVE  length_of(s, i) \in Nat
  BY AtEntry, ItemLengthNat DEF length_of

(* ... so is where that position starts in the album, *)
LEMMA OffsetNat ==
  ASSUME NEW s, QueueOK(s.q), LengthsOK(s.p.lengths), NEW i
  PROVE  offset(s, i) \in Nat
<1> DEFINE n == Length(s.q)
           F(g) == [k \in 0..n |-> IF k = 0 THEN 0 ELSE g[k - 1] + length_of(s, k - 1)]
           f == [k \in 0..n |-> length_of(s, k)]
           G(g) == [k \in 0..n |-> IF k = 0 THEN 0 ELSE g[k - 1] + f[k - 1]]
           acc == CHOOSE g : g = F(g)
<1>1. n \in Nat /\ f \in [0..n -> Nat]
  BY AtEntry, LengthNat
<1>2. \A g : F(g) = G(g)
  BY <1>1
<1>3. \E g : g = F(g)
  <2> HIDE DEF n, f
  <2>1. PICK g : g = [k \in 0..n |-> IF k = 0 THEN 0 ELSE g[k - 1] + f[k - 1]]
    BY <1>1, SumsExist
  <2>2. g = G(g)
    BY <2>1
  <2> HIDE DEF F, G
  <2> QED
    BY <2>2, <1>2
<1>4. acc = F(acc)
  BY <1>3
<1>5. offset(s, i) = IF i \in 0..(n - 1) THEN acc[i] ELSE 0
  BY DEF offset
<1> HIDE DEF n, f, acc
<1>6. \A k \in 0..n : acc[k] \in Nat
  BY <1>1, <1>2, <1>4, SumsAreNat
<1> QED
  BY <1>1, <1>5, <1>6

(* ... and so is the position the album clock falls on. *)
LEMMA IndexAtNat ==
  ASSUME NEW s, QueueOK(s.q), LengthsOK(s.p.lengths), NEW pos \in Nat
  PROVE  /\ current_index_at(s, pos) \in Nat
         /\ Length(s.q) > 0 => current_index_at(s, pos) \in 0..(Length(s.q) - 1)
<1> DEFINE started == {i \in 0..(Length(s.q) - 1) : pos >= offset(s, i)}
<1>1. Length(s.q) \in Nat
  BY AtEntry
<1>2. CASE started = {}
  BY <1>1, <1>2 DEF current_index_at
<1>3. CASE started # {}
  <2>1. \E i \in started : \A j \in started : j <= i
    <3>1. Length(s.q) - 1 \in Nat /\ started \subseteq 0..(Length(s.q) - 1)
      BY <1>1, <1>3
    <3> HIDE DEF started
    <3> QED
      BY <1>3, <3>1, GreatestExists
  <2>2. current_index_at(s, pos) \in started
    BY <1>3, <2>1 DEF current_index_at
  <2> QED
    BY <2>2, <1>1
<1> QED
  BY <1>2, <1>3

(* The first occurrence of an item that occurs is a position. *)
LEMMA FirstOccurrence ==
  ASSUME NEW q, QueueOK(q), NEW item, Occurrences(q, item) # {}
  PROVE  (CHOOSE i \in Occurrences(q, item) : \A j \in Occurrences(q, item) : i <= j)
           \in 0..(Length(q) - 1)
<1>1. Occurrences(q, item) \subseteq Nat
  BY DEF Occurrences
<1>2. \E i \in Occurrences(q, item) : \A j \in Occurrences(q, item) : i <= j
  BY <1>1, SmallestExists
<1> QED
  BY <1>2 DEF Occurrences

-----------------------------------------------------------------------------
(***************************************************************************)
(* The decoder engine.  A session has read no more than it decoded, and    *)
(* decoded no more than its track, all of it if it is at the end of the    *)
(* stream; a fade mixes no more than its window.                           *)
(***************************************************************************)
SessionOK(x) ==
  /\ x \in SessionType
  /\ x.read <= x.write
  /\ x.item # NoEntry => /\ x.from + x.write <= TrackLen[x.item]
                         /\ x.eos => x.from + x.write = TrackLen[x.item]

EngineOK(e) ==
  /\ e \in EngineType
  /\ SessionOK(e.current) /\ SessionOK(e.standby) /\ SessionOK(e.xfade.incoming)
  /\ e.xfade.mixed <= e.xfade.fade

\* What is left of the window, or of what a ring can hold of it, is in the lane, unless
\* its track is shorter.
Primed(f) ==
  \/ available_frames(f.incoming) >= Least(f.fade, RingCapacity) - f.mixed
  \/ Undecoded(f.incoming) = 0

(* The arithmetic of the clock stays within the natural numbers. *)
LEMMA LeastMinus ==
  ASSUME NEW x \in Nat, NEW y \in Nat
  PROVE  /\ Least(x, y) \in Nat /\ Least(x, y) <= x /\ Least(x, y) <= y
         /\ Least(x, y) = x \/ Least(x, y) = y
         /\ Minus(x, y) \in Nat /\ Minus(x, y) <= x /\ Minus(x, y) >= x - y
         /\ Minus(x, y) = 0 \/ Minus(x, y) = x - y
  BY DEF Least, Minus

(* A session that is opened is at its start; no session is one that has nothing. *)
LEMMA OpenedOK ==
  /\ SessionOK(NoSession)
  /\ \A item \in Entries : SessionOK(open_session(item))
  BY TrackLenAssumption, EntriesAssumption
     DEF SessionOK, SessionType, NoSession, open_session, Session, Maybe

(* Reading takes frames out of the ring. *)
LEMMA ReadOK ==
  ASSUME NEW x, SessionOK(x), NEW n \in Nat
  PROVE  /\ SessionOK(read_frames(x, n))
         /\ read_frames(x, n).item = x.item
         /\ Undecoded(read_frames(x, n)) = Undecoded(x)
         /\ available_frames(read_frames(x, n)) >= available_frames(x) - n
<1>1. available_frames(x) \in Nat
  BY DEF SessionOK, SessionType, available_frames
<1>2. PICK k \in Nat : k = Least(n, available_frames(x)) /\ k <= n /\ k <= available_frames(x)
  BY <1>1, LeastMinus
<1>3. read_frames(x, n) = [x EXCEPT !.read = @ + k]
  BY <1>2 DEF read_frames
<1> QED
  BY <1>2, <1>3 DEF SessionOK, SessionType, available_frames, Undecoded

(* Pumping decodes up to the level, or all of the track. *)
LEMMA PumpOK ==
  ASSUME NEW x, SessionOK(x), x.item # NoEntry, NEW level \in Nat
  PROVE  /\ SessionOK(PumpTo(x, level))
         /\ PumpTo(x, level).item = x.item
         /\ available_frames(PumpTo(x, level)) >= level \/ Undecoded(PumpTo(x, level)) = 0
<1>1. /\ available_frames(x) \in Nat /\ TrackLen[x.item] \in Nat /\ Undecoded(x) \in Nat
  BY TrackLenAssumption DEF SessionOK, SessionType, available_frames, Undecoded, Maybe
<1>2. PICK k \in Nat : /\ k = Least(Minus(level, available_frames(x)), Undecoded(x))
                       /\ k <= Undecoded(x)
                       /\ k = Undecoded(x) \/ k >= level - available_frames(x)
  <2>1. PICK m \in Nat : m = Minus(level, available_frames(x)) /\ m >= level - available_frames(x)
    BY <1>1, LeastMinus
  <2>2. /\ Least(m, Undecoded(x)) \in Nat /\ Least(m, Undecoded(x)) <= Undecoded(x)
        /\ Least(m, Undecoded(x)) = m \/ Least(m, Undecoded(x)) = Undecoded(x)
    BY <1>1, LeastMinus
  <2> QED
    BY <2>1, <2>2
<1>3. PumpTo(x, level) = [x EXCEPT !.write = @ + k]
  BY <1>2 DEF PumpTo
<1>4. /\ x \in SessionType /\ x.from + x.write <= TrackLen[x.item]
      /\ k <= TrackLen[x.item] - x.from - x.write
      /\ x.eos => x.from + x.write = TrackLen[x.item]
  BY <1>2 DEF SessionOK, Undecoded
<1>5. SessionOK([x EXCEPT !.write = @ + k])
  BY <1>1, <1>2, <1>4 DEF SessionOK, SessionType
<1>6. /\ [x EXCEPT !.write = @ + k].item = x.item
      /\ available_frames([x EXCEPT !.write = @ + k]) = available_frames(x) + k
      /\ Undecoded([x EXCEPT !.write = @ + k]) = Undecoded(x) - k
  BY <1>1, <1>2, <1>4 DEF SessionType, available_frames, Undecoded
<1> QED
  BY <1>1, <1>2, <1>3, <1>5, <1>6

(***************************************************************************)
(* Edits of an engine, field by field.                                     *)
(***************************************************************************)
LEMMA EngineEdits ==
  ASSUME NEW e, EngineOK(e)
  PROVE  /\ \A x : SessionOK(x) => EngineOK([e EXCEPT !.current = x])
         /\ \A x : SessionOK(x) => EngineOK([e EXCEPT !.standby = x])
         /\ \A on \in BOOLEAN : EngineOK([e EXCEPT !.pumping = on])
         /\ \A on \in BOOLEAN : EngineOK([e EXCEPT !.error = on])
         /\ EngineOK([e EXCEPT !.result = NoResult])
         /\ EngineOK(cancel_crossfade(e))
<1>1. /\ \A x : SessionOK(x) => x \in SessionType
      /\ SessionOK(NoSession)
  BY OpenedOK DEF SessionOK
<1>2. /\ \A x : SessionOK(x) => EngineOK([e EXCEPT !.current = x])
      /\ \A x : SessionOK(x) => EngineOK([e EXCEPT !.standby = x])
  BY <1>1 DEF EngineOK, EngineType
<1>3. /\ \A on \in BOOLEAN : EngineOK([e EXCEPT !.pumping = on])
      /\ \A on \in BOOLEAN : EngineOK([e EXCEPT !.error = on])
      /\ EngineOK([e EXCEPT !.result = NoResult])
  BY <1>1 DEF EngineOK, EngineType
<1>4. EngineOK([e EXCEPT !.xfade = NoFade, !.result = NoResult])
  <2>1. /\ NoFade \in [incoming : SessionType, fade : Nat, mixed : Nat, start : Nat]
        /\ SessionOK(NoFade.incoming) /\ NoFade.mixed <= NoFade.fade
    BY <1>1 DEF NoFade
  <2> QED
    BY <2>1 DEF EngineOK, EngineType
<1> QED
  BY <1>2, <1>3, <1>4 DEF cancel_crossfade

(***************************************************************************)
(* fill_current keeps the engine's session and its lanes.                  *)
(***************************************************************************)
LEMMA FillOK ==
  ASSUME NEW e, EngineOK(e)
  PROVE  /\ EngineOK(fill_current(e))
         /\ fill_current(e).current.item = e.current.item
         /\ fill_current(e).xfade = e.xfade /\ fill_current(e).result = e.result
         /\ fill_current(e).pumping = e.pumping
<1> DEFINE filled == PumpTo(e.current, HighWater)
           atEnd  == available_frames(filled) < HighWater /\ ~e.current.eos
           failed == atEnd /\ e.current.item \in Truncated
           x == [filled EXCEPT !.eos = @ \/ (atEnd /\ ~failed)]
<1>1. CASE ~e.pumping \/ ~HasSession(e) \/ exhausted(e.current)
  BY <1>1 DEF fill_current
<1>2. CASE ~(~e.pumping \/ ~HasSession(e) \/ exhausted(e.current))
  <2>1. /\ SessionOK(filled) /\ filled.item = e.current.item
        /\ available_frames(filled) >= HighWater \/ Undecoded(filled) = 0
    BY <1>2, PumpOK, RingAssumption DEF EngineOK, HasSession
  <2>2. fill_current(e) = [e EXCEPT !.current = x, !.error = @ \/ failed]
    BY <1>2 DEF fill_current
  <2> HIDE DEF filled
  <2>3. filled.eos \in BOOLEAN /\ e.error \in BOOLEAN
    BY <2>1 DEF SessionOK, SessionType, EngineOK, EngineType
  <2>4. SessionOK(x) /\ x.item = e.current.item
    <3>1. filled.item # NoEntry /\ atEnd
          => /\ filled.from + filled.write = TrackLen[filled.item]
      <4>1. filled.item # NoEntry => TrackLen[filled.item] \in Nat
        BY <2>1, TrackLenAssumption DEF SessionOK, SessionType, Maybe
      <4>2. filled \in SessionType /\ available_frames(filled) \in Int
        BY <2>1 DEF SessionOK, SessionType, available_frames
      <4>3. atEnd => Undecoded(filled) = 0
        BY <2>1, <4>2, RingAssumption
      <4> QED
        BY <4>1, <4>2, <4>3 DEF Undecoded, SessionType
    <3> HIDE DEF atEnd, failed
    <3>2. (filled.eos \/ (atEnd /\ ~failed)) \in BOOLEAN
      OBVIOUS
    <3> QED
      BY <2>1, <2>3, <3>1, <3>2 DEF SessionOK, SessionType
  <2> HIDE DEF x, failed
  <2>5. EngineOK([e EXCEPT !.current = x])
    BY <2>4, EngineEdits
  <2>6. (e.error \/ failed) \in BOOLEAN
    OBVIOUS
  <2>7. [e EXCEPT !.current = x, !.error = @ \/ failed]
        = [[e EXCEPT !.current = x] EXCEPT !.error = e.error \/ failed]
    BY DEF EngineOK, EngineType
  <2>8. EngineOK(fill_current(e))
    BY <2>2, <2>5, <2>6, <2>7, EngineEdits
  <2> QED
    BY <2>2, <2>4, <2>8 DEF EngineOK, EngineType
<1> QED
  BY <1>1, <1>2

(* Filling and reading the current session. *)
LEMMA ReadCurrentOK ==
  ASSUME NEW e, EngineOK(e), NEW n \in Nat
  PROVE  /\ EngineOK(ReadCurrent(e, n))
         /\ ReadCurrent(e, n).current.item = e.current.item
         /\ ReadCurrent(e, n).xfade = e.xfade /\ ReadCurrent(e, n).result = e.result
         /\ ReadCurrent(e, n).pumping = e.pumping
<1> DEFINE f == fill_current(e)
<1>1. EngineOK(f) /\ f.current.item = e.current.item /\ f.xfade = e.xfade
      /\ f.result = e.result /\ f.pumping = e.pumping
  BY FillOK
<1>2. ReadCurrent(e, n)
      = IF HasSession(f) THEN [f EXCEPT !.current = read_frames(f.current, n)] ELSE f
  BY DEF ReadCurrent
<1> HIDE DEF f
<1>3. SessionOK(read_frames(f.current, n)) /\ read_frames(f.current, n).item = f.current.item
  BY <1>1, ReadOK DEF EngineOK
<1>4. EngineOK([f EXCEPT !.current = read_frames(f.current, n)])
  BY <1>1, <1>3, EngineEdits
<1> QED
  BY <1>1, <1>2, <1>3, <1>4 DEF EngineOK, EngineType

(***************************************************************************)
(* Mixing reads the same number of frames from both lanes.                 *)
(***************************************************************************)
LEMMA MixOK ==
  ASSUME NEW e, EngineOK(e), NEW m \in Nat, m <= e.xfade.fade - e.xfade.mixed
  PROVE  /\ EngineOK(Mix(e, m))
         /\ Mix(e, m).current.item = e.current.item
         /\ Mix(e, m).xfade.incoming.item = e.xfade.incoming.item
         /\ Mix(e, m).result = e.result /\ Mix(e, m).pumping = e.pumping
         /\ Primed(e.xfade) => Primed(Mix(e, m).xfade)
<1> DEFINE x == read_frames(e.current, m)
           y == read_frames(e.xfade.incoming, m)
<1>1. /\ SessionOK(x) /\ x.item = e.current.item
      /\ SessionOK(y) /\ y.item = e.xfade.incoming.item
      /\ Undecoded(y) = Undecoded(e.xfade.incoming)
      /\ available_frames(y) >= available_frames(e.xfade.incoming) - m
  BY ReadOK DEF EngineOK
<1>2. Mix(e, m) = [e EXCEPT !.current = x, !.xfade.incoming = y, !.xfade.mixed = @ + m]
  BY DEF Mix
<1> HIDE DEF x, y
<1>3. /\ e \in EngineType /\ x \in SessionType /\ y \in SessionType
      /\ available_frames(y) \in Int /\ available_frames(e.xfade.incoming) \in Int
  BY <1>1 DEF EngineOK, SessionOK, SessionType, available_frames
<1>4. /\ Mix(e, m) \in EngineType
      /\ Mix(e, m).current = x /\ Mix(e, m).standby = e.standby
      /\ Mix(e, m).xfade.incoming = y /\ Mix(e, m).xfade.fade = e.xfade.fade
      /\ Mix(e, m).xfade.mixed = e.xfade.mixed + m
      /\ Mix(e, m).result = e.result /\ Mix(e, m).pumping = e.pumping
  <2> DEFINE f == [e.xfade EXCEPT !.incoming = y, !.mixed = @ + m]
  <2>1. e.xfade \in [incoming : SessionType, fade : Nat, mixed : Nat, start : Nat]
    BY <1>3 DEF EngineType
  <2>2. /\ f \in [incoming : SessionType, fade : Nat, mixed : Nat, start : Nat]
        /\ f.incoming = y /\ f.fade = e.xfade.fade /\ f.mixed = e.xfade.mixed + m
    <3>1. y \in SessionType /\ e.xfade.mixed + m \in Nat
      BY <1>3, <2>1
    <3> QED
      BY <2>1, <3>1
  <2>3. Mix(e, m) = [e EXCEPT !.current = x, !.xfade = f]
    BY <1>2, <1>3 DEF EngineType
  <2> HIDE DEF f
  <2> QED
    BY <1>3, <2>2, <2>3 DEF EngineType
<1>5. EngineOK(Mix(e, m))
  BY <1>1, <1>3, <1>4 DEF EngineOK, EngineType
<1>6. Primed(e.xfade) => Primed(Mix(e, m).xfade)
  <2>1. /\ Least(e.xfade.fade, RingCapacity) \in Nat /\ e.xfade.mixed \in Nat
        /\ Mix(e, m).xfade.fade = e.xfade.fade
    BY <1>3, <1>4, LeastMinus, RingAssumption DEF EngineType
  <2> QED
    BY <1>1, <1>3, <1>4, <2>1 DEF Primed
<1> QED
  BY <1>1, <1>4, <1>5, <1>6

(***************************************************************************)
(* The end of a fade: the incoming session takes over, and its overlap,    *)
(* whatever it is, is a number of frames.                                  *)
(***************************************************************************)
LEMMA SwapOK ==
  ASSUME NEW e, EngineOK(e)
  PROVE  /\ EngineOK(finish_crossfade_swap(e))
         /\ finish_crossfade_swap(e).current.item = e.xfade.incoming.item
         /\ finish_crossfade_swap(e).xfade = NoFade
         /\ finish_crossfade_swap(e).result \in Nat
         /\ finish_crossfade_swap(e).pumping = e.pumping
<1> DEFINE incoming == e.xfade.incoming
           delta == Minus(e.xfade.start, rendered_frames(incoming))
           x == [incoming EXCEPT !.base = @ + delta]
           overlap == Minus(rendered_frames(e.current), e.xfade.start)
<1>1. /\ e.xfade.start \in Nat /\ rendered_frames(incoming) \in Nat
      /\ rendered_frames(e.current) \in Nat
  BY DEF EngineOK, EngineType, SessionType, rendered_frames
<1>2. delta \in Nat /\ overlap \in Nat
  BY <1>1, LeastMinus
<1>3. SessionOK(x) /\ x.item = incoming.item
  <2> HIDE DEF delta
  <2> QED
    BY <1>2 DEF EngineOK, SessionOK, SessionType
<1>4. finish_crossfade_swap(e)
      = [e EXCEPT !.current = x, !.result = overlap, !.xfade = NoFade, !.standby = NoSession]
  BY DEF finish_crossfade_swap
<1> HIDE DEF x, overlap
<1>5. /\ x \in SessionType /\ SessionOK(NoSession) /\ NoSession \in SessionType
      /\ NoFade \in [incoming : SessionType, fade : Nat, mixed : Nat, start : Nat]
      /\ NoFade.incoming = NoSession /\ NoFade.mixed = 0 /\ NoFade.fade = 0
  BY <1>3, OpenedOK DEF SessionOK, NoFade
<1>6. /\ finish_crossfade_swap(e) \in EngineType
      /\ finish_crossfade_swap(e).current = x /\ finish_crossfade_swap(e).xfade = NoFade
      /\ finish_crossfade_swap(e).result = overlap
      /\ finish_crossfade_swap(e).pumping = e.pumping
      /\ finish_crossfade_swap(e).standby = NoSession
  BY <1>2, <1>4, <1>5 DEF EngineOK, EngineType
<1>7. EngineOK(finish_crossfade_swap(e))
  BY <1>3, <1>5, <1>6 DEF EngineOK
<1> QED
  BY <1>2, <1>3, <1>6, <1>7

(* A callback leaves both sessions and their lane as they are, or ends the
   fade: the incoming session is the current one and a result waits. *)
LEMMA ConsumeOK ==
  ASSUME NEW e, EngineOK(e), NEW n \in Nat
  PROVE  /\ EngineOK(consume(e, n)) /\ consume(e, n).pumping = e.pumping
         /\ \/ /\ consume(e, n).current.item = e.current.item
               /\ consume(e, n).xfade.incoming.item = e.xfade.incoming.item
               /\ consume(e, n).result = e.result
               /\ Primed(e.xfade) => Primed(consume(e, n).xfade)
            \/ /\ crossfade_pending(e)
               /\ consume(e, n).current.item = e.xfade.incoming.item
               /\ consume(e, n).xfade = NoFade
               /\ consume(e, n).result \in Nat
<1> DEFINE m == Least(n, e.xfade.fade - e.xfade.mixed)
           f == finish_crossfade_swap(Mix(e, m))
<1>1. m \in Nat /\ m <= n /\ m <= e.xfade.fade - e.xfade.mixed /\ n - m \in Nat
  <2>1. e.xfade.fade - e.xfade.mixed \in Nat
    BY DEF EngineOK, EngineType
  <2> QED
    BY <2>1, LeastMinus
<1>2. consume(e, n) = IF ~crossfade_pending(e) THEN ReadCurrent(e, n)
                      ELSE IF m = n THEN Mix(e, n)
                      ELSE ReadCurrent(f, n - m)
  BY DEF consume
<1>3. CASE ~crossfade_pending(e)
  BY <1>2, <1>3, ReadCurrentOK
<1>4. CASE crossfade_pending(e) /\ m = n
  BY <1>1, <1>2, <1>4, MixOK
<1>5. CASE crossfade_pending(e) /\ m # n
  <2>1. EngineOK(Mix(e, m)) /\ Mix(e, m).pumping = e.pumping
        /\ Mix(e, m).xfade.incoming.item = e.xfade.incoming.item
    BY <1>1, MixOK
  <2>2. /\ EngineOK(f) /\ f.current.item = e.xfade.incoming.item /\ f.xfade = NoFade
        /\ f.result \in Nat /\ f.pumping = e.pumping
    BY <2>1, SwapOK
  <2> HIDE DEF f, m
  <2>3. /\ EngineOK(ReadCurrent(f, n - m))
        /\ ReadCurrent(f, n - m).current.item = f.current.item
        /\ ReadCurrent(f, n - m).xfade = f.xfade /\ ReadCurrent(f, n - m).result = f.result
        /\ ReadCurrent(f, n - m).pumping = f.pumping
    BY <1>1, <2>2, ReadCurrentOK
  <2> QED
    BY <1>2, <1>5, <2>2, <2>3
<1> HIDE DEF m, f
<1> QED
  BY <1>3, <1>4, <1>5

(***************************************************************************)
(* The Engine trait.                                                       *)
(***************************************************************************)
LEMMA OpenOK ==
  ASSUME NEW e, EngineOK(e), NEW item \in Entries
  PROVE  /\ EngineOK(open(e, item))
         /\ open(e, item).xfade = NoFade /\ open(e, item).result = NoResult
         /\ item \in Broken => /\ open(e, item).current.item = NoEntry
                               /\ open(e, item).pumping = e.pumping
         /\ item \notin Broken => /\ open(e, item).current.item = item
                                  /\ open(e, item).pumping = FALSE
<1> DEFINE c == cancel_crossfade(e)
           d == [c EXCEPT !.standby = NoSession]
           f == [d EXCEPT !.current = NoSession]
           g == [f EXCEPT !.error = FALSE]
           h == [g EXCEPT !.current = open_session(item)]
           k == [h EXCEPT !.pumping = FALSE]
<1>0. SessionOK(NoSession) /\ SessionOK(open_session(item))
      /\ NoSession.item = NoEntry /\ open_session(item).item = item
  BY OpenedOK DEF NoSession, open_session, Session
<1>1. EngineOK(c) /\ c.xfade = NoFade /\ c.result = NoResult /\ c.pumping = e.pumping
  BY EngineEdits DEF cancel_crossfade, EngineOK, EngineType
<1>2. open(e, item) = IF item \in Broken THEN g ELSE k
  BY <1>1 DEF open
<1> HIDE DEF c
<1>3. EngineOK(d) /\ d.xfade = NoFade /\ d.result = NoResult /\ d.pumping = e.pumping
  BY <1>0, <1>1, EngineEdits DEF EngineOK, EngineType
<1> HIDE DEF d
<1>4. EngineOK(f) /\ f.xfade = NoFade /\ f.result = NoResult /\ f.pumping = e.pumping
      /\ f.current = NoSession
  BY <1>0, <1>3, EngineEdits DEF EngineOK, EngineType
<1> HIDE DEF f
<1>5. EngineOK(g) /\ g.xfade = NoFade /\ g.result = NoResult /\ g.pumping = e.pumping
      /\ g.current = NoSession
  BY <1>4, EngineEdits DEF EngineOK, EngineType
<1> HIDE DEF g
<1>6. EngineOK(h) /\ h.xfade = NoFade /\ h.result = NoResult /\ h.current = open_session(item)
  BY <1>0, <1>5, EngineEdits DEF EngineOK, EngineType
<1> HIDE DEF h
<1>7. EngineOK(k) /\ k.xfade = NoFade /\ k.result = NoResult /\ k.current = open_session(item)
      /\ k.pumping = FALSE
  BY <1>6, EngineEdits DEF EngineOK, EngineType
<1> QED
  BY <1>0, <1>2, <1>5, <1>7

(* A closed engine is well formed. *)
LEMMA CloseOK ==
  ASSUME NEW e, EngineOK(e)
  PROVE  EngineOK(close(e)) /\ EngineOK(ClosedEngine)
<1>1. /\ SessionOK(NoSession) /\ NoSession \in SessionType
      /\ NoFade \in [incoming : SessionType, fade : Nat, mixed : Nat, start : Nat]
      /\ NoFade.incoming = NoSession /\ NoFade.mixed = 0 /\ NoFade.fade = 0
  BY OpenedOK DEF SessionOK, NoFade
<1>2. EngineOK(ClosedEngine)
  BY <1>1 DEF EngineOK, EngineType, ClosedEngine, NoResult
<1>3. e.error \in BOOLEAN
  BY DEF EngineOK, EngineType
<1> QED
  BY <1>2, <1>3, EngineEdits DEF close

(* A seek keeps the session, and drops a fade or leaves it. *)
LEMMA SeekOK ==
  ASSUME NEW e, EngineOK(e), NEW samples \in Nat
  PROVE  /\ EngineOK(seek(e, samples))
         /\ seek(e, samples).pumping = e.pumping
         /\ seek(e, samples).current.item = e.current.item
         /\ \/ seek(e, samples).xfade = e.xfade /\ seek(e, samples).result = e.result
            \/ seek(e, samples).xfade = NoFade /\ seek(e, samples).result = NoResult
<1> DEFINE len == TrackLen[e.current.item]
           x == Session(e.current.item, Least(samples, len), samples > len)
           c == cancel_crossfade(e)
<1>1. /\ EngineOK(c) /\ c.xfade = NoFade /\ c.result = NoResult /\ c.pumping = e.pumping
      /\ c.current = e.current
  BY EngineEdits DEF cancel_crossfade, EngineOK, EngineType
<1>2. seek(e, samples) = e \/ seek(e, samples) = [c EXCEPT !.error = TRUE]
      \/ (HasSession(e) /\ seek(e, samples) = [c EXCEPT !.current = x])
  <2>1. seek(e, samples)
        = IF ~HasSession(e) \/ IsNoOpSeek(e, samples) THEN e
          ELSE IF e.current.item \in Truncated /\ samples > len THEN [c EXCEPT !.error = TRUE]
          ELSE [c EXCEPT !.current = Session(c.current.item, Least(samples, len), samples > len)]
    BY DEF seek
  <2>2. Session(c.current.item, Least(samples, len), samples > len) = x
    BY <1>1
  <2> HIDE DEF c, x
  <2> QED
    BY <2>1, <2>2
<1>3. EngineOK([c EXCEPT !.error = TRUE])
  BY <1>1, EngineEdits
<1>4. ASSUME HasSession(e) PROVE SessionOK(x) /\ x.item = e.current.item
  <2>1. e.current.item \in Entries /\ len \in Nat
    BY <1>4, TrackLenAssumption DEF HasSession, EngineOK, SessionOK, SessionType, Maybe
  <2>2. Least(samples, len) \in Nat /\ Least(samples, len) <= len
    BY <2>1, LeastMinus
  <2>3. (samples > len) \in BOOLEAN /\ (samples > len => Least(samples, len) = len)
    BY <2>1 DEF Least
  <2>4. \A item \in Entries, from \in Nat, eos \in BOOLEAN :
           from <= TrackLen[item] /\ (eos => from = TrackLen[item])
           => SessionOK(Session(item, from, eos)) /\ Session(item, from, eos).item = item
    BY TrackLenAssumption DEF SessionOK, SessionType, Session, Maybe
  <2> HIDE DEF x
  <2>5. x = Session(e.current.item, Least(samples, len), samples > len)
    BY DEF x
  <2> QED
    BY <2>1, <2>2, <2>3, <2>4, <2>5
<1> HIDE DEF c, x
<1>5. HasSession(e) => EngineOK([c EXCEPT !.current = x])
  BY <1>1, <1>4, EngineEdits
<1> QED
  BY <1>1, <1>2, <1>3, <1>4, <1>5 DEF EngineOK, EngineType

(* A preload touches the standby session only. *)
LEMMA PrepareOK ==
  ASSUME NEW e, EngineOK(e), NEW item \in Entries
  PROVE  /\ EngineOK(prepare_next(e, item))
         /\ prepare_next(e, item).current = e.current
         /\ prepare_next(e, item).xfade = e.xfade /\ prepare_next(e, item).result = e.result
         /\ prepare_next(e, item).pumping = e.pumping
  BY EngineEdits, OpenedOK DEF prepare_next, EngineOK, EngineType

(* A promotion changes the session if it is the expected one. *)
LEMMA AdvanceOK ==
  ASSUME NEW e, EngineOK(e), NEW expected
  PROVE  /\ EngineOK(advance(e, expected))
         /\ advance(e, expected).current.item
              = IF CanAdvance(e, expected) THEN expected ELSE e.current.item
         /\ advance(e, expected).xfade = e.xfade /\ advance(e, expected).result = e.result
         /\ advance(e, expected).pumping = e.pumping
<1> DEFINE f == [e EXCEPT !.current = e.standby]
<1>1. EngineOK(f) /\ f.xfade = e.xfade /\ f.result = e.result /\ f.pumping = e.pumping
      /\ f.current = e.standby
  BY EngineEdits DEF EngineOK, EngineType
<1>2. advance(e, expected) = IF CanAdvance(e, expected) THEN [f EXCEPT !.standby = NoSession] ELSE e
  BY DEF advance
<1> HIDE DEF f
<1>3. EngineOK([f EXCEPT !.standby = NoSession])
  BY <1>1, OpenedOK, EngineEdits
<1> QED
  BY <1>1, <1>2, <1>3 DEF EngineOK, EngineType, CanAdvance

(* A fade that begins mixes the lane it was asked for, primed if it fits the
   ring. *)
LEMMA BeginOK ==
  ASSUME NEW e, EngineOK(e), NEW fade \in Nat, NEW item, CanCrossfade(e, item)
  PROVE  /\ EngineOK(begin_crossfade(e, fade))
         /\ begin_crossfade(e, fade).current = e.current
         /\ begin_crossfade(e, fade).xfade.incoming.item = item
         /\ begin_crossfade(e, fade).result = e.result
         /\ begin_crossfade(e, fade).pumping = e.pumping
         /\ Primed(begin_crossfade(e, fade).xfade)
<1> DEFINE level == Least(fade + CallbackMargin, RingCapacity)
           x == PumpTo(e.standby, level)
           f == [incoming |-> x, fade |-> fade, mixed |-> 0, start |-> rendered_samples(e)]
<1>1. level \in Nat /\ Least(fade, RingCapacity) \in Nat /\ Least(fade, RingCapacity) <= level
  <2>1. RingCapacity \in Nat /\ fade + CallbackMargin \in Nat /\ fade <= fade + CallbackMargin
    BY RingAssumption
  <2>2. /\ level \in Nat /\ (level = fade + CallbackMargin \/ level = RingCapacity)
        /\ Least(fade, RingCapacity) \in Nat
        /\ Least(fade, RingCapacity) <= fade /\ Least(fade, RingCapacity) <= RingCapacity
    BY <2>1, LeastMinus
  <2> HIDE DEF level
  <2> QED
    BY <2>1, <2>2
<1>2. /\ SessionOK(x) /\ x.item = item
      /\ available_frames(x) >= level \/ Undecoded(x) = 0
  BY <1>1, PumpOK DEF CanCrossfade, CanAdvance, EngineOK
<1>3. begin_crossfade(e, fade) = [e EXCEPT !.xfade = f, !.standby = NoSession]
  BY DEF begin_crossfade
<1>4. rendered_samples(e) \in Nat
  BY DEF rendered_samples, rendered_frames, EngineOK, EngineType, SessionType
<1> HIDE DEF x, level
<1>5. /\ f \in [incoming : SessionType, fade : Nat, mixed : Nat, start : Nat]
      /\ SessionOK(NoSession) /\ NoSession \in SessionType /\ available_frames(x) \in Int
  BY <1>2, <1>4, OpenedOK DEF SessionOK, SessionType, available_frames
<1>6. f.incoming = x /\ f.mixed = 0 /\ f.fade = fade
  OBVIOUS
<1> HIDE DEF f
<1>7. /\ begin_crossfade(e, fade) \in EngineType
      /\ begin_crossfade(e, fade).current = e.current /\ begin_crossfade(e, fade).xfade = f
      /\ begin_crossfade(e, fade).standby = NoSession
      /\ begin_crossfade(e, fade).result = e.result
      /\ begin_crossfade(e, fade).pumping = e.pumping
  BY <1>3, <1>5 DEF EngineOK, EngineType
<1>8. EngineOK(begin_crossfade(e, fade))
  BY <1>2, <1>5, <1>6, <1>7 DEF EngineOK
<1>9. Primed(f)
  BY <1>1, <1>2, <1>5, <1>6 DEF Primed
<1> QED
  BY <1>2, <1>6, <1>7, <1>8, <1>9

-----------------------------------------------------------------------------
(***************************************************************************)
(* The system as an operator of the player sees it.  Hushed is what makes  *)
(* a pause stick: nothing decodes while the user wants silence, nor while  *)
(* the player holds no engine.                                             *)
(***************************************************************************)
SystemOK(s) ==
  /\ s = [q |-> s.q, p |-> s.p, e |-> s.e]
  /\ QueueOK(s.q) /\ s.p \in PlayerType /\ EngineOK(s.e)

Hushed(s) ==
  /\ s.p.pause_intent => ~s.e.pumping /\ s.p.state \notin {"buffering", "playing"}
  /\ s.p.state # "loading"
  /\ ~s.p.attached => ~s.e.pumping

\* The length of fades was chosen; a fade that is mixed has a length, and its
\* lane is primed.
Ready(s) ==
  /\ s.p.crossfade \in Fades \cup {0}
  /\ crossfade_pending(s.e) => ~(Fades \subseteq {0}) /\ Primed(s.e.xfade)

\* A list that is not empty has a cursor.
Seated(q) == Length(q) > 0 => q.index >= 0

\* The player waits for no fade.
Still(s) == ~s.p.in_progress /\ s.p.xfade = NoXfade /\ Seated(s.q)

\* No fade anywhere, and the player shows the session that plays.
Calm(s) ==
  /\ ~s.p.in_progress /\ s.p.xfade = NoXfade /\ Seated(s.q)
  /\ ~crossfade_pending(s.e) /\ s.e.result = NoResult
  /\ HasSession(s.e) => s.p.attached /\ s.e.current.item = s.p.current

\* A fade the player waits for, and which it will be able to apply: it is mixed ...
Fading(s) ==
  /\ s.p.in_progress /\ s.p.attached /\ HasSession(s.e) /\ Seated(s.q)
  /\ s.p.xfade.fresh /\ Occurrences(s.q, s.p.xfade.target) # {}
  /\ crossfade_pending(s.e) /\ s.e.result = NoResult
  /\ s.e.xfade.incoming.item = s.p.xfade.target

\* ... or it is over, and its result waits for the next synchronisation.
Faded(s) ==
  /\ s.p.in_progress /\ s.p.attached /\ Seated(s.q)
  /\ s.p.xfade.fresh /\ Occurrences(s.q, s.p.xfade.target) # {}
  /\ ~crossfade_pending(s.e) /\ s.e.result \in Nat
  /\ HasSession(s.e) /\ s.e.current.item = s.p.xfade.target

Linked(s) == Calm(s) \/ Fading(s)

(***************************************************************************)
(* What a handler may make of a system: Moves for one that never runs into *)
(* a fade, Steps for any.                                                  *)
(***************************************************************************)
Good(s) == SystemOK(s) /\ Hushed(s)

Moves(s, t) == Good(t) /\ (Ready(s) => Ready(t)) /\ (Calm(s) => Calm(t))

Steps(s, t) == Good(t) /\ (Ready(s) => Ready(t)) /\ (Linked(s) => Linked(t))

(* A system made of well formed parts is well formed. *)
LEMMA SystemIs ==
  ASSUME NEW x, NEW y, NEW z, QueueOK(x), y \in PlayerType, EngineOK(z)
  PROVE  /\ SystemOK([q |-> x, p |-> y, e |-> z])
         /\ [q |-> x, p |-> y, e |-> z].q = x
         /\ [q |-> x, p |-> y, e |-> z].p = y
         /\ [q |-> x, p |-> y, e |-> z].e = z
  BY DEF SystemOK

(* The parts of a system after an edit of one of them, *)
LEMMA SystemEdits ==
  ASSUME NEW s, s = [q |-> s.q, p |-> s.p, e |-> s.e]
  PROVE  /\ \A x : [s EXCEPT !.q = x] = [q |-> x, p |-> s.p, e |-> s.e]
         /\ \A x : [s EXCEPT !.p = x] = [q |-> s.q, p |-> x, e |-> s.e]
         /\ \A x : [s EXCEPT !.e = x] = [q |-> s.q, p |-> s.p, e |-> x]
  OBVIOUS

(* ... of two of them, *)
LEMMA EditPlayerEngine ==
  ASSUME NEW s, s = [q |-> s.q, p |-> s.p, e |-> s.e], NEW x, NEW y
  PROVE  [s EXCEPT !.p = x, !.e = y] = [q |-> s.q, p |-> x, e |-> y]
<1>1. [s EXCEPT !.p = x, !.e = y] = [[s EXCEPT !.p = x] EXCEPT !.e = y]
  OBVIOUS
<1>2. [s EXCEPT !.p = x] = [q |-> s.q, p |-> x, e |-> s.e]
  OBVIOUS
<1>3. [[q |-> s.q, p |-> x, e |-> s.e] EXCEPT !.e = y] = [q |-> s.q, p |-> x, e |-> y]
  OBVIOUS
<1> QED
  BY <1>1, <1>2, <1>3

(* ... in the other order, *)
LEMMA EditEnginePlayer ==
  ASSUME NEW s, s = [q |-> s.q, p |-> s.p, e |-> s.e], NEW x, NEW y
  PROVE  [s EXCEPT !.e = x, !.p = y] = [q |-> s.q, p |-> y, e |-> x]
<1>1. [s EXCEPT !.e = x, !.p = y] = [[s EXCEPT !.e = x] EXCEPT !.p = y]
  OBVIOUS
<1>2. [s EXCEPT !.e = x] = [q |-> s.q, p |-> s.p, e |-> x]
  OBVIOUS
<1>3. [[q |-> s.q, p |-> s.p, e |-> x] EXCEPT !.p = y] = [q |-> s.q, p |-> y, e |-> x]
  OBVIOUS
<1> QED
  BY <1>1, <1>2, <1>3

(* ... of the queue and the player, *)
LEMMA EditQueuePlayer ==
  ASSUME NEW s, s = [q |-> s.q, p |-> s.p, e |-> s.e], NEW x, NEW y
  PROVE  [s EXCEPT !.q = x, !.p = y] = [q |-> x, p |-> y, e |-> s.e]
<1>1. [s EXCEPT !.q = x, !.p = y] = [[s EXCEPT !.q = x] EXCEPT !.p = y]
  OBVIOUS
<1>2. [s EXCEPT !.q = x] = [q |-> x, p |-> s.p, e |-> s.e]
  OBVIOUS
<1>3. [[q |-> x, p |-> s.p, e |-> s.e] EXCEPT !.p = y] = [q |-> x, p |-> y, e |-> s.e]
  OBVIOUS
<1> QED
  BY <1>1, <1>2, <1>3

(* ... of the queue and the engine. *)
LEMMA EditQueueEngine ==
  ASSUME NEW s, s = [q |-> s.q, p |-> s.p, e |-> s.e], NEW x, NEW y
  PROVE  [s EXCEPT !.q = x, !.e = y] = [q |-> x, p |-> s.p, e |-> y]
<1>1. [s EXCEPT !.q = x, !.e = y] = [[s EXCEPT !.q = x] EXCEPT !.e = y]
  OBVIOUS
<1>2. [s EXCEPT !.q = x] = [q |-> x, p |-> s.p, e |-> s.e]
  OBVIOUS
<1>3. [[q |-> x, p |-> s.p, e |-> s.e] EXCEPT !.e = y] = [q |-> x, p |-> s.p, e |-> y]
  OBVIOUS
<1> QED
  BY <1>1, <1>2, <1>3

(* Learning a length changes the table of lengths only. *)
LEMMA LearnOK ==
  ASSUME NEW p \in PlayerType, NEW item \in Entries
  PROVE  /\ Learn(p, item) \in PlayerType
         /\ Learn(p, item).lengths \in [Entries -> Nat \cup {Unknown}]
         /\ Learn(p, item) = [p EXCEPT !.lengths = Learn(p, item).lengths]
<1>1. [p.lengths EXCEPT ![item] = TrackLen[item]] \in [Entries -> Nat \cup {Unknown}]
  BY TrackLenAssumption DEF PlayerType
<1>2. Learn(p, item) = [p EXCEPT !.lengths = [p.lengths EXCEPT ![item] = TrackLen[item]]]
  BY DEF Learn, PlayerType
<1> DEFINE l == [p.lengths EXCEPT ![item] = TrackLen[item]]
<1> HIDE DEF l
<1> QED
  BY <1>1, <1>2 DEF PlayerType, l

(* A table of lengths can be put into a player. *)
LEMMA LearnEdit ==
  ASSUME NEW p \in PlayerType, NEW l \in [Entries -> Nat \cup {Unknown}]
  PROVE [p EXCEPT !.lengths = l] \in PlayerType
  BY DEF PlayerType

(* Superseding a load or a fade that there is not changes nothing. *)
LEMMA SupersedeOK ==
  ASSUME NEW p \in PlayerType
  PROVE  /\ Supersede(p) \in PlayerType
         /\ \E x \in XfadeType, c \in [idx : Nat \cup {-1}, fresh : BOOLEAN] :
              /\ Supersede(p) = [p EXCEPT !.xfade = x, !.check = c]
              /\ p.xfade = NoXfade => x = NoXfade
<1> DEFINE x == [p.xfade EXCEPT !.fresh = FALSE]
           c == [p.check EXCEPT !.fresh = FALSE]
<1>1. p.xfade \in XfadeType /\ p.check \in [idx : Nat \cup {-1}, fresh : BOOLEAN]
  BY DEF PlayerType
<1>2. x \in XfadeType /\ c \in [idx : Nat \cup {-1}, fresh : BOOLEAN]
  BY <1>1 DEF XfadeType
<1>3. p.xfade = NoXfade => x = NoXfade
  <2>1. p.xfade \in XfadeType /\ NoXfade.fresh = FALSE
    BY <1>1 DEF NoXfade
  <2> QED
    BY <2>1 DEF XfadeType
<1>4. Supersede(p) = [p EXCEPT !.xfade = x, !.check = c]
  BY DEF Supersede, PlayerType
<1> HIDE DEF x, c
<1>5. [p EXCEPT !.xfade = x, !.check = c] \in PlayerType
  BY <1>2 DEF PlayerType
<1> QED
  BY <1>2, <1>3, <1>4, <1>5

(* ... and leaves the rest of the player alone. *)
LEMMA SupersedeKeeps ==
  ASSUME NEW p \in PlayerType
  PROVE  /\ Supersede(p) \in PlayerType
         /\ Supersede(p).state = p.state /\ Supersede(p).current = p.current
         /\ Supersede(p).attached = p.attached /\ Supersede(p).lengths = p.lengths
         /\ Supersede(p).pause_intent = p.pause_intent
         /\ Supersede(p).crossfade = p.crossfade /\ Supersede(p).in_progress = p.in_progress
         /\ p.xfade = NoXfade => Supersede(p).xfade = NoXfade
<1>1. PICK x \in XfadeType, c \in [idx : Nat \cup {-1}, fresh : BOOLEAN] :
        /\ Supersede(p) = [p EXCEPT !.xfade = x, !.check = c]
        /\ p.xfade = NoXfade => x = NoXfade
  BY SupersedeOK
<1> QED
  BY <1>1, SupersedeOK DEF PlayerType

(* Without a lane there is no fade. *)
LEMMA NothingFades ==
  ASSUME NEW e, e.xfade = NoFade
  PROVE  ~crossfade_pending(e)
  BY DEF crossfade_pending, NoFade, NoSession, Session

(* The successor a preload looks for is an entry, if there is one. *)
LEMMA TargetEntry ==
  ASSUME NEW q, QueueOK(q), NEW i
  PROVE  /\ peek_preload_target(q, i) \in Maybe
         /\ peek_preload_target(q, i) # NoEntry
            => Occurrences(q, peek_preload_target(q, i)) # {}
<1>1. \E j : peek_preload_target(q, i) = at(q, j) \/ peek_preload_target(q, i) = NoEntry
  BY DEF peek_preload_target
<1>2. ASSUME NEW j, at(q, j) # NoEntry PROVE Occurrences(q, at(q, j)) # {}
  <2>1. j \in 0..(Length(q) - 1)
    BY <1>2 DEF at
  <2> QED
    BY <2>1 DEF Occurrences
<1> QED
  BY <1>1, <1>2, AtEntry DEF Maybe

(* A preload changes the standby session and the table of lengths only. *)
LEMMA PreloadOK ==
  ASSUME NEW s, SystemOK(s)
  PROVE  /\ SystemOK(Preload(s)) /\ Preload(s).q = s.q
         /\ \E l \in [Entries -> Nat \cup {Unknown}] : Preload(s).p = [s.p EXCEPT !.lengths = l]
         /\ Preload(s).e.current = s.e.current /\ Preload(s).e.xfade = s.e.xfade
         /\ Preload(s).e.result = s.e.result /\ Preload(s).e.pumping = s.e.pumping
<1> DEFINE next_item == peek_preload_target(s.q, s.q.index)
           x == IF next_item \in Broken THEN s.p ELSE Learn(s.p, next_item)
           y == prepare_next(s.e, next_item)
<1>0. /\ s = [q |-> s.q, p |-> s.p, e |-> s.e] /\ QueueOK(s.q) /\ s.p \in PlayerType
      /\ EngineOK(s.e) /\ s.p.lengths \in [Entries -> Nat \cup {Unknown}]
      /\ s.p = [s.p EXCEPT !.lengths = s.p.lengths]
  BY DEF SystemOK, PlayerType
<1>1. CASE next_item = NoEntry \/ ~PreloadNext
  BY <1>0, <1>1 DEF Preload
<1>2. CASE ~(next_item = NoEntry \/ ~PreloadNext)
  <2>1. next_item \in Entries
    BY <1>0, <1>2, TargetEntry DEF Maybe
  <2>2. Preload(s) = [s EXCEPT !.e = y, !.p = x]
    BY <1>2 DEF Preload
  <2>3. /\ x \in PlayerType
        /\ \E l \in [Entries -> Nat \cup {Unknown}] : x = [s.p EXCEPT !.lengths = l]
    <3>1. CASE next_item \in Broken
      BY <1>0, <3>1
    <3>2. CASE next_item \notin Broken
      <4>1. x = Learn(s.p, next_item)
        BY <3>2
      <4>2. /\ x \in PlayerType /\ x.lengths \in [Entries -> Nat \cup {Unknown}]
            /\ x = [s.p EXCEPT !.lengths = x.lengths]
        BY <1>0, <2>1, <4>1, LearnOK
      <4> HIDE DEF x
      <4> QED
        BY <4>2
    <3> QED
      BY <3>1, <3>2
  <2>4. EngineOK(y) /\ y.current = s.e.current /\ y.xfade = s.e.xfade
        /\ y.result = s.e.result /\ y.pumping = s.e.pumping
    BY <1>0, <2>1, PrepareOK
  <2> HIDE DEF x, y
  <2>5. Preload(s) = [q |-> s.q, p |-> x, e |-> y]
    BY <1>0, <2>2, EditEnginePlayer
  <2>6. /\ SystemOK(Preload(s)) /\ Preload(s).q = s.q /\ Preload(s).p = x
        /\ Preload(s).e = y
    BY <1>0, <2>3, <2>4, <2>5, SystemIs
  <2> QED
    BY <2>3, <2>4, <2>6
<1> QED
  BY <1>1, <1>2

(* Switching decoding on and off changes nothing else. *)
LEMMA PumpingOK ==
  ASSUME NEW e, EngineOK(e)
  PROVE  /\ EngineOK(start_pumping(e)) /\ start_pumping(e).pumping = TRUE
         /\ start_pumping(e).current = e.current /\ start_pumping(e).xfade = e.xfade
         /\ start_pumping(e).result = e.result
         /\ EngineOK(pause_pumping(e)) /\ pause_pumping(e).pumping = FALSE
         /\ pause_pumping(e).current = e.current /\ pause_pumping(e).xfade = e.xfade
         /\ pause_pumping(e).result = e.result
<1>1. EngineOK(start_pumping(e)) /\ EngineOK(pause_pumping(e))
  BY EngineEdits DEF start_pumping, pause_pumping
<1> QED
  BY <1>1 DEF start_pumping, pause_pumping, EngineOK, EngineType

(* A reposition of the engine keeps its session; it pumps unless the user
   paused. *)
LEMMA SeekEngineOK ==
  ASSUME NEW s, SystemOK(s), NEW samples \in Nat
  PROVE  /\ SystemOK(SeekEngine(s, samples))
         /\ SeekEngine(s, samples).q = s.q /\ SeekEngine(s, samples).p = s.p
         /\ SeekEngine(s, samples).e.current.item = s.e.current.item
         /\ s.p.pause_intent => SeekEngine(s, samples).e.pumping = s.e.pumping
         /\ \/ /\ SeekEngine(s, samples).e.xfade = s.e.xfade
               /\ SeekEngine(s, samples).e.result = s.e.result
            \/ /\ SeekEngine(s, samples).e.xfade = NoFade
               /\ SeekEngine(s, samples).e.result = NoResult
<1> DEFINE y == seek(s.e, samples)
           z == start_pumping(y)
<1>0. /\ s = [q |-> s.q, p |-> s.p, e |-> s.e] /\ QueueOK(s.q) /\ s.p \in PlayerType
      /\ EngineOK(s.e)
  BY DEF SystemOK
<1>1. /\ EngineOK(y) /\ y.pumping = s.e.pumping /\ y.current.item = s.e.current.item
      /\ (y.xfade = s.e.xfade /\ y.result = s.e.result) \/ (y.xfade = NoFade /\ y.result = NoResult)
  BY <1>0, SeekOK
<1>2. /\ [s EXCEPT !.e = seek(@, samples)] = [q |-> s.q, p |-> s.p, e |-> y]
      /\ [[q |-> s.q, p |-> s.p, e |-> y] EXCEPT !.e = start_pumping(@)]
         = [q |-> s.q, p |-> s.p, e |-> z]
  BY <1>0, SystemEdits
<1>3. SeekEngine(s, samples) = IF s.p.pause_intent THEN [q |-> s.q, p |-> s.p, e |-> y]
                               ELSE [q |-> s.q, p |-> s.p, e |-> z]
  BY <1>2 DEF SeekEngine
<1> HIDE DEF y
<1>4. EngineOK(z) /\ z.current = y.current /\ z.xfade = y.xfade /\ z.result = y.result
  BY <1>1, PumpingOK
<1> HIDE DEF z
<1> QED
  BY <1>0, <1>1, <1>3, <1>4, SystemIs

(* An error stops decoding and shows "error". *)
LEMMA failMoves ==
  ASSUME NEW s, SystemOK(s)
  PROVE  /\ Good(fail(s)) /\ fail(s).q = s.q
         /\ Ready(s) => Ready(fail(s))
         /\ Calm(s) => Calm(fail(s))
         /\ Fading(s) => Fading(fail(s))
<1> DEFINE x == [s.p EXCEPT !.state = "error"]
           y == pause_pumping(s.e)
<1>0. /\ s = [q |-> s.q, p |-> s.p, e |-> s.e] /\ QueueOK(s.q) /\ s.p \in PlayerType
      /\ EngineOK(s.e)
  BY DEF SystemOK
<1>1. fail(s) = [q |-> s.q, p |-> x, e |-> y]
  <2>1. fail(s) = [s EXCEPT !.e = y, !.p = x]
    BY <1>0 DEF fail
  <2> HIDE DEF x, y
  <2> QED
    BY <1>0, <2>1, EditEnginePlayer
<1>2. /\ EngineOK(y) /\ y.pumping = FALSE /\ y.current = s.e.current /\ y.xfade = s.e.xfade
      /\ y.result = s.e.result
  BY <1>0, PumpingOK
<1>3. /\ x \in PlayerType /\ x.state = "error" /\ x.attached = s.p.attached
      /\ x.in_progress = s.p.in_progress /\ x.xfade = s.p.xfade /\ x.crossfade = s.p.crossfade
      /\ x.current = s.p.current
  BY <1>0 DEF PlayerType, States
<1> HIDE DEF x, y
<1>4. SystemOK(fail(s)) /\ fail(s).q = s.q /\ fail(s).p = x /\ fail(s).e = y
  BY <1>0, <1>1, <1>2, <1>3, SystemIs
<1> QED
  BY <1>2, <1>3, <1>4
     DEF Good, Hushed, Ready, Calm, Fading, crossfade_pending, HasSession

(***************************************************************************)
(* Loading the current entry, whatever was playing or fading before.       *)
(***************************************************************************)
LEMMA loadMoves ==
  ASSUME NEW s, Good(s), NEW within \in Nat
  PROVE  /\ Moves(s, load(s, within)) /\ load(s, within).q = s.q
         /\ CanLoad(s) => load(s, within).p.attached
         /\ Still(s) /\ current(s.q) # NoEntry => Calm(load(s, within))
<1> DEFINE item   == current(s.q)
           bp     == [Supersede(s.p) EXCEPT !.pending_ended = FALSE, !.restored = NoPlace,
                                            !.armed = FALSE, !.attached = TRUE,
                                            !.state = "loading"]
           begun  == [s EXCEPT !.p = bp, !.e = open(s.e, item)]
           opened == [begun EXCEPT !.p = Learn(begun.p, item)]
           start  == offset(opened, s.q.index)
           primed == Preload(opened)
           resume == Least(within, Minus(length_of(primed, s.q.index), 1))
           rp     == [primed.p EXCEPT !.track_start = start, !.reset_offset = start + resume,
                                      !.position = start + resume, !.current = item,
                                      !.state = Waiting(s.p)]
           ready  == [primed EXCEPT !.p = rp]
<1>0. /\ s = [q |-> s.q, p |-> s.p, e |-> s.e] /\ QueueOK(s.q) /\ s.p \in PlayerType
      /\ EngineOK(s.e) /\ SystemOK(s)
  BY DEF Good, SystemOK
<1>1. load(s, within) = IF item = NoEntry THEN s
                        ELSE IF item \in Broken THEN fail(begun)
                        ELSE SeekEngine(ready, resume)
  BY DEF load
<1> HIDE DEF item
<1>2. CASE item = NoEntry
  BY <1>1, <1>2 DEF Moves, CanLoad, item
<1>3. /\ bp \in PlayerType /\ bp.attached = TRUE /\ bp.pause_intent = s.p.pause_intent
      /\ bp.crossfade = s.p.crossfade /\ bp.in_progress = s.p.in_progress
      /\ s.p.xfade = NoXfade => bp.xfade = NoXfade
  <2> DEFINE sup == Supersede(s.p)
  <2>1. /\ sup \in PlayerType /\ sup.pause_intent = s.p.pause_intent
        /\ sup.crossfade = s.p.crossfade /\ sup.in_progress = s.p.in_progress
        /\ s.p.xfade = NoXfade => sup.xfade = NoXfade
    BY <1>0, SupersedeKeeps
  <2> HIDE DEF sup
  <2>2. NoPlace \in [idx : Nat \cup {-1}, within : Nat]
    BY DEF NoPlace
  <2> QED
    BY <2>1, <2>2 DEF PlayerType, States, sup
<1> HIDE DEF bp
<1>4. ASSUME item # NoEntry PROVE item \in Entries
  BY <1>0, <1>4, AtEntry DEF item, current, Maybe
<1>5. ASSUME item # NoEntry
      PROVE  /\ EngineOK(begun.e) /\ begun.e.xfade = NoFade /\ begun.e.result = NoResult
             /\ item \in Broken => begun.e.current.item = NoEntry
             /\ item \notin Broken => begun.e.current.item = item /\ begun.e.pumping = FALSE
             /\ begun = [q |-> s.q, p |-> bp, e |-> begun.e] /\ SystemOK(begun)
             /\ begun.q = s.q /\ begun.p = bp
  <2> DEFINE be == open(s.e, item)
  <2>1. EngineOK(be) /\ be.xfade = NoFade /\ be.result = NoResult
        /\ (item \in Broken => be.current.item = NoEntry)
        /\ (item \notin Broken => be.current.item = item /\ be.pumping = FALSE)
    BY <1>0, <1>4, <1>5, OpenOK
  <2> HIDE DEF be
  <2>2. [s EXCEPT !.p = bp, !.e = be] = [q |-> s.q, p |-> bp, e |-> be]
    BY <1>0, EditPlayerEngine
  <2>3. begun = [q |-> s.q, p |-> bp, e |-> be]
    BY <2>2 DEF be
  <2> HIDE DEF begun
  <2>4. SystemOK(begun) /\ begun.q = s.q /\ begun.p = bp /\ begun.e = be
    BY <1>0, <1>3, <2>1, <2>3, SystemIs
  <2> QED
    BY <2>1, <2>3, <2>4
<1>6. CASE item # NoEntry /\ item \in Broken
  <2> HIDE DEF begun
  <2>1. Ready(s) => Ready(begun)
    BY <1>3, <1>5, <1>6, NothingFades DEF Ready
  <2>2. Still(s) => Calm(begun)
    BY <1>3, <1>5, <1>6, NothingFades DEF Still, Calm, HasSession
  <2>3. Calm(s) => Still(s)
    BY DEF Calm, Still
  <2>4. /\ Good(fail(begun)) /\ fail(begun).q = begun.q
        /\ Ready(begun) => Ready(fail(begun))
        /\ Calm(begun) => Calm(fail(begun))
    BY <1>5, <1>6, failMoves
  <2>5. load(s, within) = fail(begun)
    BY <1>1, <1>6
  <2> QED
    BY <1>5, <1>6, <2>1, <2>2, <2>3, <2>4, <2>5 DEF Moves, CanLoad, item
<1>7. CASE item # NoEntry /\ item \notin Broken
  <2>1. /\ SystemOK(opened) /\ opened.q = s.q /\ opened.p = Learn(bp, item)
        /\ opened.e = begun.e
    <3>1. /\ item \in Entries /\ begun.p = bp /\ begun.q = s.q /\ EngineOK(begun.e)
          /\ begun = [q |-> s.q, p |-> bp, e |-> begun.e]
      BY <1>4, <1>5, <1>7
    <3> HIDE DEF begun
    <3>2. [begun EXCEPT !.p = Learn(bp, item)] = [q |-> s.q, p |-> Learn(bp, item), e |-> begun.e]
      BY <3>1, SystemEdits
    <3>3. Learn(bp, item) \in PlayerType
      BY <1>3, <3>1, LearnOK
    <3> QED
      BY <1>0, <3>1, <3>2, <3>3, SystemIs
  <2>2. PICK l \in [Entries -> Nat \cup {Unknown}] :
          Learn(bp, item) = [bp EXCEPT !.lengths = l]
    BY <1>3, <1>4, <1>7, LearnOK
  <2> HIDE DEF opened
  <2>3. PICK m \in [Entries -> Nat \cup {Unknown}] :
          primed.p = [opened.p EXCEPT !.lengths = m]
    BY <2>1, PreloadOK
  <2>4. /\ SystemOK(primed) /\ primed.q = s.q
        /\ primed.e.current = begun.e.current /\ primed.e.xfade = begun.e.xfade
        /\ primed.e.result = begun.e.result /\ primed.e.pumping = begun.e.pumping
    BY <2>1, PreloadOK
  <2> HIDE DEF primed
  <2>5. /\ primed.p.attached = TRUE /\ primed.p.pause_intent = s.p.pause_intent
        /\ primed.p.crossfade = s.p.crossfade /\ primed.p.in_progress = s.p.in_progress
        /\ s.p.xfade = NoXfade => primed.p.xfade = NoXfade
    BY <1>3, <2>1, <2>2, <2>3 DEF PlayerType
  <2>6. start \in Nat /\ resume \in Nat
    <3>1. start \in Nat
      BY <2>1, OffsetNat DEF SystemOK, PlayerType, LengthsOK
    <3>2. length_of(primed, s.q.index) \in Nat
      BY <2>4, LengthNat DEF SystemOK, PlayerType, LengthsOK
    <3>3. Minus(length_of(primed, s.q.index), 1) \in Nat
      BY <3>2, LeastMinus
    <3> QED
      BY <3>1, <3>3, LeastMinus
  <2> HIDE DEF start, resume
  <2>7. /\ rp \in PlayerType /\ rp.attached = TRUE /\ rp.pause_intent = s.p.pause_intent
        /\ rp.crossfade = s.p.crossfade /\ rp.in_progress = s.p.in_progress
        /\ rp.xfade = primed.p.xfade /\ rp.current = item /\ rp.state = Waiting(s.p)
    <3>1. primed.p \in PlayerType /\ start + resume \in Nat
          /\ Waiting(s.p) \in States /\ item \in Maybe
      BY <1>4, <1>7, <2>4, <2>6 DEF SystemOK, Waiting, States, Maybe
    <3> QED
      BY <2>5, <2>6, <3>1 DEF PlayerType
  <2> HIDE DEF rp
  <2>8. /\ SystemOK(ready) /\ ready.q = s.q /\ ready.p = rp /\ ready.e = primed.e
    <3>1. /\ primed = [q |-> primed.q, p |-> primed.p, e |-> primed.e]
          /\ EngineOK(primed.e)
      BY <2>4 DEF SystemOK
    <3>2. ready = [q |-> primed.q, p |-> rp, e |-> primed.e]
      BY <3>1, SystemEdits
    <3> HIDE DEF ready
    <3> QED
      BY <1>0, <2>4, <2>7, <3>1, <3>2, SystemIs
  <2> HIDE DEF ready
  <2> DEFINE t == SeekEngine(ready, resume)
  <2>9. /\ SystemOK(t) /\ t.q = s.q /\ t.p = rp /\ t.e.current.item = item
        /\ t.e.xfade = NoFade /\ t.e.result = NoResult
        /\ s.p.pause_intent => t.e.pumping = FALSE
    <3>1. /\ SystemOK(t) /\ t.q = ready.q /\ t.p = ready.p
          /\ t.e.current.item = ready.e.current.item
          /\ ready.p.pause_intent => t.e.pumping = ready.e.pumping
          /\ \/ t.e.xfade = ready.e.xfade /\ t.e.result = ready.e.result
             \/ t.e.xfade = NoFade /\ t.e.result = NoResult
      BY <2>6, <2>8, SeekEngineOK
    <3> HIDE DEF t
    <3>2. /\ ready.e.current.item = item /\ ready.e.pumping = FALSE
          /\ ready.e.xfade = NoFade /\ ready.e.result = NoResult
      BY <1>5, <1>7, <2>4, <2>8
    <3> QED
      BY <2>7, <2>8, <3>1, <3>2
  <2> HIDE DEF t
  <2>a. Hushed(t)
    BY <2>7, <2>9 DEF Hushed, Waiting
  <2>b. Ready(s) => Ready(t)
    BY <2>7, <2>9, NothingFades DEF Ready
  <2>c. Still(s) => Calm(t)
    BY <2>5, <2>7, <2>9, NothingFades DEF Calm, Still
  <2>d. Calm(s) => Still(s)
    BY DEF Calm, Still
  <2> QED
    BY <1>1, <1>7, <2>7, <2>9, <2>a, <2>b, <2>c, <2>d DEF Moves, Good, t
<1> QED
  BY <1>2, <1>6, <1>7

(***************************************************************************)
(* What the device reports of its buffer.                                  *)
(***************************************************************************)
LEMMA on_primedSteps ==
  ASSUME NEW s, Good(s)
  PROVE  Steps(s, on_primed(s))
<1> DEFINE x == [s.p EXCEPT !.state = IF s.p.pause_intent THEN @ ELSE "playing"]
           y == start_pumping(s.e)
<1>0. /\ s = [q |-> s.q, p |-> s.p, e |-> s.e] /\ QueueOK(s.q) /\ s.p \in PlayerType
      /\ EngineOK(s.e)
  BY DEF Good, SystemOK
<1>1. CASE ~(s.p.state \in {"loading", "buffering"} /\ s.p.attached)
  BY <1>1 DEF on_primed, Steps
<1>2. CASE s.p.state \in {"loading", "buffering"} /\ s.p.attached
  <2>1. on_primed(s) = [s EXCEPT !.e = y, !.p = x]
    BY <1>0, <1>2 DEF on_primed
  <2>2. ~s.p.pause_intent
    BY <1>2 DEF Good, Hushed
  <2>3. EngineOK(y) /\ y.current = s.e.current /\ y.xfade = s.e.xfade /\ y.result = s.e.result
    BY <1>0, PumpingOK
  <2>4. /\ x \in PlayerType /\ x.state = "playing" /\ x.pause_intent = FALSE /\ x.attached = TRUE
        /\ x.in_progress = s.p.in_progress /\ x.xfade = s.p.xfade /\ x.crossfade = s.p.crossfade
        /\ x.current = s.p.current
    BY <1>0, <1>2, <2>2 DEF PlayerType, States
  <2> HIDE DEF x, y
  <2>5. /\ SystemOK(on_primed(s)) /\ on_primed(s).q = s.q /\ on_primed(s).p = x
        /\ on_primed(s).e = y
    <3>1. on_primed(s) = [q |-> s.q, p |-> x, e |-> y]
      BY <1>0, <2>1, EditEnginePlayer
    <3> QED
      BY <1>0, <2>3, <2>4, <3>1, SystemIs
  <2> QED
    BY <1>2, <2>3, <2>4, <2>5
       DEF Steps, Good, Hushed, Ready, Linked, Calm, Fading, crossfade_pending, HasSession
<1> QED
  BY <1>1, <1>2

(* A starved buffer shows "buffering", unless the user paused. *)
LEMMA on_bufferingSteps ==
  ASSUME NEW s, Good(s)
  PROVE  Steps(s, on_buffering(s))
<1> DEFINE x == [s.p EXCEPT !.state = "buffering"]
<1>0. /\ s = [q |-> s.q, p |-> s.p, e |-> s.e] /\ QueueOK(s.q) /\ s.p \in PlayerType
      /\ EngineOK(s.e)
  BY DEF Good, SystemOK
<1>1. CASE s.p.state \notin {"loading", "buffering", "playing"}
  BY <1>1 DEF on_buffering, Steps
<1>2. CASE s.p.state \in {"loading", "buffering", "playing"}
  <2>1. on_buffering(s) = [s EXCEPT !.p = x]
    BY <1>0, <1>2 DEF on_buffering
  <2>2. ~s.p.pause_intent
    BY <1>2 DEF Good, Hushed
  <2>4. /\ x \in PlayerType /\ x.state = "buffering" /\ x.pause_intent = s.p.pause_intent
        /\ x.attached = s.p.attached /\ x.current = s.p.current
        /\ x.in_progress = s.p.in_progress /\ x.xfade = s.p.xfade /\ x.crossfade = s.p.crossfade
    BY <1>0, <1>2, <2>2 DEF PlayerType, States
  <2> HIDE DEF x
  <2>5. /\ SystemOK(on_buffering(s)) /\ on_buffering(s).q = s.q /\ on_buffering(s).p = x
        /\ on_buffering(s).e = s.e
    BY <1>0, <2>1, <2>4, SystemEdits, SystemIs
  <2> QED
    BY <1>2, <2>2, <2>4, <2>5
       DEF Steps, Good, Hushed, Ready, Linked, Calm, Fading, crossfade_pending, HasSession
<1> QED
  BY <1>1, <1>2

-----------------------------------------------------------------------------
(***************************************************************************)
(* The user's commands.                                                    *)
(***************************************************************************)
LEMMA pause_innerSteps ==
  ASSUME NEW s, Good(s)
  PROVE  Steps(s, pause_inner(s)) /\ Moves(s, pause_inner(s))
<1> DEFINE x == [s.p EXCEPT !.pause_intent = TRUE, !.state = "paused"]
           y == IF s.p.attached THEN pause_pumping(s.e) ELSE s.e
<1>0. /\ s = [q |-> s.q, p |-> s.p, e |-> s.e] /\ QueueOK(s.q) /\ s.p \in PlayerType
      /\ EngineOK(s.e)
  BY DEF Good, SystemOK
<1>1. pause_inner(s) = [s EXCEPT !.p = x, !.e = y]
  BY <1>0 DEF pause_inner
<1>2. /\ EngineOK(y) /\ ~y.pumping /\ y.current = s.e.current /\ y.xfade = s.e.xfade
      /\ y.result = s.e.result
  BY <1>0, PumpingOK DEF Good, Hushed
<1>3. /\ x \in PlayerType /\ x.state = "paused" /\ x.attached = s.p.attached
      /\ x.in_progress = s.p.in_progress /\ x.xfade = s.p.xfade /\ x.crossfade = s.p.crossfade
      /\ x.current = s.p.current
  BY <1>0 DEF PlayerType, States
<1> HIDE DEF x, y
<1>4. /\ SystemOK(pause_inner(s)) /\ pause_inner(s).q = s.q /\ pause_inner(s).p = x
      /\ pause_inner(s).e = y
  <2>1. pause_inner(s) = [q |-> s.q, p |-> x, e |-> y]
    BY <1>0, <1>1, EditPlayerEngine
  <2> QED
    BY <1>0, <1>2, <1>3, <2>1, SystemIs
<1> QED
  BY <1>2, <1>3, <1>4
     DEF Steps, Moves, Good, Hushed, Ready, Linked, Calm, Fading, crossfade_pending, HasSession

(* Stop. *)
LEMMA stop_innerMoves ==
  ASSUME NEW s, Good(s)
  PROVE  Moves(s, stop_inner(s))
<1> DEFINE x == [Supersede(s.p) EXCEPT !.pause_intent = TRUE, !.pending_ended = FALSE,
                                       !.state = "idle", !.position = 0]
           y == IF s.p.attached THEN seek(pause_pumping(s.e), 0) ELSE s.e
<1>0. /\ s = [q |-> s.q, p |-> s.p, e |-> s.e] /\ QueueOK(s.q) /\ s.p \in PlayerType
      /\ EngineOK(s.e)
  BY DEF Good, SystemOK
<1>1. stop_inner(s) = [s EXCEPT !.p = x, !.e = y]
  BY <1>0 DEF stop_inner
<1>2. /\ EngineOK(y) /\ ~y.pumping /\ y.current.item = s.e.current.item
      /\ \/ y.xfade = s.e.xfade /\ y.result = s.e.result
         \/ y.xfade = NoFade /\ y.result = NoResult
  <2> DEFINE z == pause_pumping(s.e)
  <2>1. EngineOK(z) /\ z.pumping = FALSE /\ z.current = s.e.current /\ z.xfade = s.e.xfade
        /\ z.result = s.e.result
    BY <1>0, PumpingOK
  <2> HIDE DEF z
  <2>2. /\ EngineOK(seek(z, 0)) /\ seek(z, 0).pumping = FALSE
        /\ seek(z, 0).current.item = z.current.item
        /\ \/ seek(z, 0).xfade = z.xfade /\ seek(z, 0).result = z.result
           \/ seek(z, 0).xfade = NoFade /\ seek(z, 0).result = NoResult
    BY <2>1, SeekOK
  <2>3. y = IF s.p.attached THEN seek(z, 0) ELSE s.e
    BY DEF z
  <2> HIDE DEF y
  <2> QED
    BY <1>0, <2>1, <2>2, <2>3 DEF Good, Hushed
<1>3. /\ x \in PlayerType /\ x.state = "idle" /\ x.attached = s.p.attached
      /\ x.in_progress = s.p.in_progress /\ x.crossfade = s.p.crossfade
      /\ x.current = s.p.current
      /\ s.p.xfade = NoXfade => x.xfade = NoXfade
  <2> DEFINE sup == Supersede(s.p)
  <2>1. /\ sup \in PlayerType /\ sup.attached = s.p.attached /\ sup.current = s.p.current
        /\ sup.crossfade = s.p.crossfade /\ sup.in_progress = s.p.in_progress
        /\ s.p.xfade = NoXfade => sup.xfade = NoXfade
    BY <1>0, SupersedeKeeps
  <2> HIDE DEF sup
  <2> QED
    BY <2>1 DEF PlayerType, States, sup
<1> HIDE DEF x, y
<1>4. /\ SystemOK(stop_inner(s)) /\ stop_inner(s).q = s.q /\ stop_inner(s).p = x
      /\ stop_inner(s).e = y
  <2>1. stop_inner(s) = [q |-> s.q, p |-> x, e |-> y]
    BY <1>0, <1>1, EditPlayerEngine
  <2> QED
    BY <1>0, <1>2, <1>3, <2>1, SystemIs
<1>5. Hushed(stop_inner(s))
  BY <1>2, <1>3, <1>4 DEF Hushed
<1>6. crossfade_pending(y) => y.xfade = s.e.xfade /\ crossfade_pending(s.e)
  BY <1>2, NothingFades DEF crossfade_pending
<1>7. Ready(s) => Ready(stop_inner(s))
  BY <1>3, <1>4, <1>6 DEF Ready
<1>8. Calm(s) => Calm(stop_inner(s))
  BY <1>2, <1>3, <1>4, <1>6 DEF Calm, HasSession
<1> QED
  BY <1>4, <1>5, <1>7, <1>8 DEF Moves, Good

(* Two moves are a move. *)
LEMMA MovesOn ==
  ASSUME NEW s, NEW t, NEW u, Moves(s, t), Moves(t, u)
  PROVE  Moves(s, u)
  BY DEF Moves

(* Nothing the player or the engine agree on depends on the list. *)
LEMMA QueueMoves ==
  ASSUME NEW s, Good(s), NEW q, QueueOK(q), Seated(s.q) => Seated(q)
  PROVE  Moves(s, [s EXCEPT !.q = q]) /\ [s EXCEPT !.q = q].q = q
         /\ [s EXCEPT !.q = q].p = s.p /\ [s EXCEPT !.q = q].e = s.e
<1>0. /\ s = [q |-> s.q, p |-> s.p, e |-> s.e] /\ s.p \in PlayerType /\ EngineOK(s.e)
  BY DEF Good, SystemOK
<1> DEFINE t == [s EXCEPT !.q = q]
<1>1. t = [q |-> q, p |-> s.p, e |-> s.e]
  BY <1>0, SystemEdits
<1> HIDE DEF t
<1>2. SystemOK(t) /\ t.q = q /\ t.p = s.p /\ t.e = s.e
  BY <1>0, <1>1, SystemIs
<1>3. Moves(s, t)
  BY <1>2 DEF Moves, Good, Hushed, Ready, Calm
<1> QED
  BY <1>2, <1>3 DEF t

(* A newer load makes a fade stale, and changes nothing that shows. *)
LEMMA SupersedeMoves ==
  ASSUME NEW s, Good(s)
  PROVE  /\ Moves(s, [s EXCEPT !.p = Supersede(@)])
         /\ [s EXCEPT !.p = Supersede(@)].q = s.q
         /\ [s EXCEPT !.p = Supersede(@)].e = s.e
         /\ [s EXCEPT !.p = Supersede(@)].p.attached = s.p.attached
         /\ [s EXCEPT !.p = Supersede(@)].p.lengths = s.p.lengths
<1>0. /\ s = [q |-> s.q, p |-> s.p, e |-> s.e] /\ QueueOK(s.q) /\ s.p \in PlayerType
      /\ EngineOK(s.e)
  BY DEF Good, SystemOK
<1> DEFINE x == Supersede(s.p)
           t == [s EXCEPT !.p = x]
<1>1. /\ x \in PlayerType /\ x.state = s.p.state /\ x.current = s.p.current
      /\ x.attached = s.p.attached /\ x.lengths = s.p.lengths
      /\ x.pause_intent = s.p.pause_intent
      /\ x.crossfade = s.p.crossfade /\ x.in_progress = s.p.in_progress
      /\ s.p.xfade = NoXfade => x.xfade = NoXfade
  BY <1>0, SupersedeKeeps
<1>2. [s EXCEPT !.p = Supersede(@)] = t
  OBVIOUS
<1> HIDE DEF x
<1>3. t = [q |-> s.q, p |-> x, e |-> s.e]
  BY <1>0, SystemEdits
<1> HIDE DEF t
<1>4. SystemOK(t) /\ t.q = s.q /\ t.p = x /\ t.e = s.e
  BY <1>0, <1>1, <1>3, SystemIs
<1>5. Hushed(t) /\ (Ready(s) => Ready(t))
  BY <1>1, <1>4 DEF Good, Hushed, Ready
<1>6. Calm(s) => Calm(t)
  BY <1>1, <1>4 DEF Calm
<1> QED
  BY <1>1, <1>2, <1>4, <1>5, <1>6 DEF Moves, Good

(* Moving the cursor keeps the list and its cursor. *)
LEMMA MoveToOK ==
  ASSUME NEW q, QueueOK(q), NEW i
  PROVE  /\ QueueOK(move_to(q, i)) /\ move_to(q, i).items = q.items
         /\ Seated(q) => Seated(move_to(q, i))
<1>1. ASSUME i \in 0..(Length(q) - 1)
      PROVE  /\ QueueOK([q EXCEPT !.index = i]) /\ [q EXCEPT !.index = i].items = q.items
             /\ Seated([q EXCEPT !.index = i])
  BY <1>1, CursorOK, SetIndex DEF QueueOK, Sketch, Seated
<1> QED
  BY <1>1 DEF move_to

(* A reposition within the current track, *)
LEMMA RepositionedMoves ==
  ASSUME NEW s, Good(s), s.p.attached, NEW to \in Nat, NEW within \in Nat
  PROVE  Moves(s, Repositioned(s, to, within))
<1>0. /\ s = [q |-> s.q, p |-> s.p, e |-> s.e] /\ QueueOK(s.q) /\ s.p \in PlayerType
      /\ EngineOK(s.e)
  BY DEF Good, SystemOK
<1> DEFINE x == [s.p EXCEPT !.reset_offset = to, !.position = to, !.state = Waiting(s.p)]
           there == [s EXCEPT !.p = x]
           t == SeekEngine(there, within)
<1>1. Repositioned(s, to, within) = t
  BY <1>0 DEF Repositioned
<1>2. Waiting(s.p) \in States
  BY DEF Waiting, States
<1>3. /\ x \in PlayerType /\ x.state = Waiting(s.p) /\ x.current = s.p.current
      /\ x.attached = s.p.attached /\ x.pause_intent = s.p.pause_intent
      /\ x.crossfade = s.p.crossfade /\ x.in_progress = s.p.in_progress
      /\ x.xfade = s.p.xfade
  BY <1>0, <1>2 DEF PlayerType
<1> HIDE DEF x
<1>4. there = [q |-> s.q, p |-> x, e |-> s.e]
  BY <1>0, SystemEdits
<1> HIDE DEF there
<1>5. SystemOK(there) /\ there.q = s.q /\ there.p = x /\ there.e = s.e
  BY <1>0, <1>3, <1>4, SystemIs
<1>6. /\ SystemOK(t) /\ t.q = s.q /\ t.p = x /\ t.e.current.item = s.e.current.item
      /\ x.pause_intent => t.e.pumping = s.e.pumping
      /\ \/ t.e.xfade = s.e.xfade /\ t.e.result = s.e.result
         \/ t.e.xfade = NoFade /\ t.e.result = NoResult
  BY <1>5, SeekEngineOK
<1> HIDE DEF t
<1>7. Hushed(t)
  BY <1>3, <1>6 DEF Good, Hushed, Waiting
<1>8. crossfade_pending(t.e) => t.e.xfade = s.e.xfade /\ crossfade_pending(s.e)
  BY <1>6, NothingFades DEF crossfade_pending
<1>9. (Ready(s) => Ready(t)) /\ (Calm(s) => Calm(t))
  BY <1>3, <1>6, <1>8 DEF Ready, Calm, HasSession
<1> QED
  BY <1>1, <1>6, <1>7, <1>9 DEF Moves, Good

(* ... a restart of the track, *)
LEMMA restart_current_trackMoves ==
  ASSUME NEW s, Good(s)
  PROVE  Moves(s, restart_current_track(s))
<1> DEFINE t == [s EXCEPT !.p = Supersede(@)]
<1>1. CASE ~s.p.attached \/ s.p.current = NoEntry
  BY <1>1 DEF restart_current_track, Moves
<1>2. CASE ~(~s.p.attached \/ s.p.current = NoEntry)
  <2>1. Moves(s, t) /\ t.p.attached = s.p.attached
    BY SupersedeMoves
  <2>2. offset(s, s.q.index) \in Nat
    BY OffsetNat DEF Good, SystemOK, PlayerType, LengthsOK
  <2>3. restart_current_track(s) = Repositioned(t, offset(s, s.q.index), 0)
    BY <1>2 DEF restart_current_track
  <2> HIDE DEF t
  <2>4. Moves(t, Repositioned(t, offset(s, s.q.index), 0))
    BY <1>2, <2>1, <2>2, RepositionedMoves DEF Moves
  <2> QED
    BY <2>1, <2>3, <2>4, MovesOn
<1> QED
  BY <1>1, <1>2

(* ... and a seek, which may load another track. *)
LEMMA seek_innerMoves ==
  ASSUME NEW s, Good(s), NEW pos \in Nat
  PROVE  Moves(s, seek_inner(s, pos))
<1> DEFINE begun  == [s EXCEPT !.p = Supersede(@)]
           qi     == current_index_at(s, pos)
           base   == offset(s, qi)
           within == Least(Minus(pos, base), Minus(length_of(s, qi), 1))
           there  == [begun EXCEPT !.q = move_to(@, qi)]
<1>1. seek_inner(s, pos)
      = IF ~s.p.attached \/ s.p.current = NoEntry THEN s
        ELSE IF Length(s.q) = 0 THEN begun
        ELSE IF qi = s.q.index THEN Repositioned(begun, base + within, within)
        ELSE IF ~CanLoad(there) THEN load(there, 0)
        ELSE Repositioned(load(there, 0), base + within, within)
  BY DEF seek_inner
<1>2. base \in Nat /\ within \in Nat
  <2>1. base \in Nat /\ length_of(s, qi) \in Nat
    BY OffsetNat, LengthNat DEF Good, SystemOK, PlayerType, LengthsOK
  <2> HIDE DEF base, qi
  <2>2. Minus(pos, base) \in Nat /\ Minus(length_of(s, qi), 1) \in Nat
    BY <2>1, LeastMinus
  <2> QED
    BY <2>1, <2>2, LeastMinus
<1> HIDE DEF base, within
<1>3. Moves(s, begun) /\ begun.p.attached = s.p.attached /\ begun.q = s.q
  BY SupersedeMoves
<1> HIDE DEF begun
<1>4. Moves(begun, there)
  <2>1. /\ QueueOK(move_to(begun.q, qi)) /\ Good(begun)
        /\ Seated(begun.q) => Seated(move_to(begun.q, qi))
    BY <1>3, MoveToOK DEF Moves, Good, SystemOK
  <2> QED
    BY <2>1, QueueMoves
<1> HIDE DEF there
<1>5. Moves(there, load(there, 0)) /\ (CanLoad(there) => load(there, 0).p.attached)
  BY <1>4, loadMoves DEF Moves
<1>6. ASSUME s.p.attached PROVE Moves(begun, Repositioned(begun, base + within, within))
  <2>1. Good(begun) /\ begun.p.attached /\ base + within \in Nat
    BY <1>2, <1>3, <1>6 DEF Moves
  <2> QED
    BY <1>2, <2>1, RepositionedMoves
<1>7. CanLoad(there) => Moves(load(there, 0), Repositioned(load(there, 0), base + within, within))
  BY <1>2, <1>5, RepositionedMoves DEF Moves
<1>8. Moves(s, there) /\ Moves(s, load(there, 0)) /\ Moves(s, s)
  <2>1. Moves(s, there)
    BY <1>3, <1>4, MovesOn
  <2> QED
    BY <2>1, <1>5, MovesOn DEF Moves
<1>9. s.p.attached => Moves(s, Repositioned(begun, base + within, within))
  BY <1>3, <1>6, MovesOn
<1>10. CanLoad(there) => Moves(s, Repositioned(load(there, 0), base + within, within))
  BY <1>7, <1>8, MovesOn
<1> QED
  BY <1>1, <1>3, <1>8, <1>9, <1>10

-----------------------------------------------------------------------------
(***************************************************************************)
(* The cursor of a list: no operation of the player takes it away from a   *)
(* list that has entries.                                                  *)
(***************************************************************************)
LEMMA RebuiltSeated ==
  ASSUME NEW q, Sketch(q), Seated(q), NEW r \in rebuild_order(q)
  PROVE  Seated(r)
  BY RebuildOK DEF Seated, Length

(* ... nor by starting a list, *)
LEMMA PlaySeated ==
  ASSUME NEW q, QueueOK(q), Seated(q), NEW items \in Seq(Entries), NEW start \in Int,
         NEW r \in play_sequence(q, items, start)
  PROVE  Seated(r)
<1> DEFINE m == [q EXCEPT !.items = items, !.index = Clamp(start, 0, Len(items) - 1),
                          !.history = <<>>]
<1>1. CASE items = <<>>
  BY <1>1 DEF play_sequence
<1>2. CASE items # <<>>
  <2>1. Len(items) \in Nat /\ Len(items) > 0
    BY <1>2, LenProperties, EmptySeq
  <2>2. Clamp(start, 0, Len(items) - 1) \in 0..(Len(items) - 1)
    BY <2>1 DEF Clamp
  <2>3. m = [items |-> items, index |-> Clamp(start, 0, Len(items) - 1), order |-> q.order,
             history |-> <<>>, repeat |-> q.repeat, shuffling |-> q.shuffling]
    BY SetList DEF QueueOK, Sketch
  <2>4. r \in rebuild_order(m)
    BY <1>2 DEF play_sequence
  <2> HIDE DEF m
  <2>5. Sketch(m) /\ Seated(m)
    BY <2>1, <2>2, <2>3 DEF QueueOK, Sketch, IsQueue, IndexOK, Length, Seated
  <2> QED
    BY <2>4, <2>5, RebuiltSeated
<1> QED
  BY <1>1, <1>2

(* ... playing one entry, *)
LEMMA PlayNowSeated ==
  ASSUME NEW q, QueueOK(q), NEW e \in Entries, NEW r \in play_now(q, e)
  PROVE  Seated(r)
<1> DEFINE m == [q EXCEPT !.items = <<e>>, !.index = 0, !.history = <<>>]
<1>1. m = [items |-> <<e>>, index |-> 0, order |-> q.order,
           history |-> <<>>, repeat |-> q.repeat, shuffling |-> q.shuffling]
  BY SetList DEF QueueOK, Sketch
<1>2. r \in rebuild_order(m)
  BY DEF play_now
<1> HIDE DEF m
<1>3. <<e>> \in Seq(Entries) /\ Len(<<e>>) = 1
  OBVIOUS
<1>4. Sketch(m) /\ Seated(m)
  BY <1>1, <1>3 DEF QueueOK, Sketch, IsQueue, IndexOK, Length, Seated
<1> QED
  BY <1>2, <1>4, RebuiltSeated

(* ... inserting one, *)
LEMMA PlayNextSeated ==
  ASSUME NEW q, QueueOK(q), Seated(q), NEW e \in Entries, NEW r \in play_next(q, e)
  PROVE  Seated(r)
<1>n. Length(q) \in Nat /\ q.items \in Seq(Entries) /\ q.index \in -1..(Length(q) - 1)
  BY LenProperties DEF QueueOK, Sketch, Length, IndexOK
<1>1. CASE Length(q) = 0
  <2> DEFINE m == [q EXCEPT !.items = <<e>>, !.index = 0]
  <2>1. m = [items |-> <<e>>, index |-> 0, order |-> q.order,
             history |-> q.history, repeat |-> q.repeat, shuffling |-> q.shuffling]
    BY SetCursor DEF QueueOK, Sketch
  <2>2. r \in rebuild_order(m)
    BY <1>1 DEF play_next
  <2> HIDE DEF m
  <2>3. <<e>> \in Seq(Entries) /\ Len(<<e>>) = 1
    OBVIOUS
  <2>4. Sketch(m) /\ Seated(m)
    BY <2>1, <2>3 DEF QueueOK, Sketch, IsQueue, IndexOK, Length, Seated
  <2> QED
    BY <2>2, <2>4, RebuiltSeated
<1>2. CASE Length(q) # 0
  <2> DEFINE i == Clamp(q.index + 1, 0, Length(q)) + 1
             items == InsertAt(q.items, i, e)
             m == [q EXCEPT !.items = items]
  <2>1. i \in 1..(Length(q) + 1)
    BY <1>n DEF Clamp
  <2>2. items \in Seq(Entries) /\ Len(items) = Length(q) + 1
    BY <1>n, <2>1, InsertAtOK DEF Length
  <2>3. m = [items |-> items, index |-> q.index, order |-> q.order,
             history |-> q.history, repeat |-> q.repeat, shuffling |-> q.shuffling]
    BY SetItems DEF QueueOK, Sketch
  <2>4. r \in rebuild_order(m)
    BY <1>2 DEF play_next
  <2> HIDE DEF m, items
  <2>5. Sketch(m) /\ Seated(m)
    BY <1>n, <1>2, <2>2, <2>3 DEF QueueOK, Sketch, IsQueue, IndexOK, Length, Seated
  <2> QED
    BY <2>4, <2>5, RebuiltSeated
<1> QED
  BY <1>1, <1>2

(* ... moving one, *)
LEMMA MoveItemSeated ==
  ASSUME NEW q, QueueOK(q), Seated(q), NEW from \in Int, NEW to \in Int,
         NEW r \in move_item(q, from, to)
  PROVE  Seated(r)
<1>n. Length(q) \in Nat /\ q.items \in Seq(Entries) /\ q.index \in -1..(Length(q) - 1)
  BY LenProperties DEF QueueOK, Sketch, Length, IndexOK
<1>1. CASE from \notin 0..(Length(q) - 1) \/ to \notin 0..(Length(q) - 1) \/ from = to
  BY <1>1 DEF move_item
<1>2. CASE ~(from \notin 0..(Length(q) - 1) \/ to \notin 0..(Length(q) - 1) \/ from = to)
  <2> DEFINE rest  == RemoveAt(q.items, from + 1)
             moved == q.items[from + 1]
             items == InsertAt(rest, to + 1, moved)
             index == remap(q.index, from, to)
             h == [k \in DOMAIN q.history |-> remap(q.history[k], from, to)]
             m == [q EXCEPT !.items = items, !.index = index, !.history = h]
  <2>0. from + 1 \in 1..Len(q.items) /\ Length(q) = Len(q.items)
    BY <1>2, <1>n DEF Length
  <2>1. rest \in Seq(Entries) /\ Len(rest) = Length(q) - 1 /\ moved \in Entries
    BY <1>n, <2>0, RemoveAtOK, ElementOfSeq
  <2> HIDE DEF rest, moved
  <2>2. items \in Seq(Entries) /\ Len(items) = Length(q)
    BY <1>n, <1>2, <2>1, InsertAtOK DEF Length
  <2>3. index \in 0..(Length(q) - 1)
    BY <1>n, <1>2 DEF remap, Seated
  <2>4. m = [items |-> items, index |-> index, order |-> q.order,
             history |-> h, repeat |-> q.repeat, shuffling |-> q.shuffling]
    BY SetList DEF QueueOK, Sketch
  <2>5. r \in rebuild_order(m)
    BY <1>2 DEF move_item, rest, moved
  <2> HIDE DEF m, items, index, h
  <2>6. Sketch(m) /\ Seated(m)
    BY <1>n, <1>2, <2>2, <2>3, <2>4 DEF QueueOK, Sketch, IsQueue, IndexOK, Length, Seated
  <2> QED
    BY <2>5, <2>6, RebuiltSeated
<1> QED
  BY <1>1, <1>2

(* ... removing one, *)
LEMMA RemoveSeated ==
  ASSUME NEW q, QueueOK(q), Seated(q), NEW i \in Int, NEW r \in remove_at(q, i)
  PROVE  Seated(r)
<1>n. Length(q) \in Nat /\ q.items \in Seq(Entries) /\ q.index \in -1..(Length(q) - 1)
  BY LenProperties DEF QueueOK, Sketch, Length, IndexOK
<1>1. CASE i \notin 0..(Length(q) - 1)
  BY <1>1 DEF remove_at
<1>2. CASE i \in 0..(Length(q) - 1)
  <2> DEFINE items == RemoveAt(q.items, i + 1)
             index == IF i < q.index \/ (i = q.index /\ i = Length(q) - 1)
                        THEN q.index - 1 ELSE q.index
  <2>0. i + 1 \in 1..Len(q.items) /\ Length(q) = Len(q.items)
    BY <1>2, <1>n DEF Length
  <2>1. items \in Seq(Entries) /\ Len(items) = Length(q) - 1
    BY <1>n, <2>0, RemoveAtOK
  <2>2. index \in -1..(Length(q) - 2) /\ (Length(q) > 1 => index >= 0)
    BY <1>n, <1>2 DEF Seated
  <2>3. \E h : r \in rebuild_order([q EXCEPT !.items = items, !.index = index, !.history = h])
    BY <1>2 DEF remove_at
  <2> HIDE DEF items, index
  <2>4. PICK h : r \in rebuild_order([q EXCEPT !.items = items, !.index = index, !.history = h])
    BY <2>3
  <2> DEFINE m == [items |-> items, index |-> index, order |-> q.order,
                   history |-> h, repeat |-> q.repeat, shuffling |-> q.shuffling]
  <2>6. r \in rebuild_order(m)
    BY <2>4, SetList DEF QueueOK, Sketch
  <2>5. Sketch(m) /\ Seated(m)
    BY <1>n, <1>2, <2>1, <2>2 DEF QueueOK, Sketch, IsQueue, IndexOK, Length, Seated
  <2> QED
    BY <2>5, <2>6, RebuiltSeated
<1> QED
  BY <1>1, <1>2

(* ... or stepping to the next, which is an entry where a preload was
   promised, *)
LEMMA NextSeated ==
  ASSUME NEW q, QueueOK(q), NEW r \in next(q)
  PROVE  /\ Seated(q) => Seated(r.queue)
         /\ r.item # NoEntry => Seated(r.queue) /\ current(r.queue) = r.item
         /\ peek_preload_target(q, q.index) # NoEntry => r.item # NoEntry
<1>n. Length(q) \in Nat /\ q.index \in -1..(Length(q) - 1)
  BY LenProperties DEF QueueOK, Sketch, Length, IndexOK
<1>1. PICK p \in peek_next_index(q) : r = Navigated(p)
  BY DEF next
<1> DEFINE h == push_history(q)
<1>h. /\ QueueOK(h) /\ h.items = q.items /\ h.index = q.index
      /\ h.order = q.order /\ h.shuffling = q.shuffling /\ h.repeat = q.repeat
  <2>1. PICK x : h = [q EXCEPT !.history = x]
    BY DEF push_history
  <2> HIDE DEF h
  <2> QED
    BY <2>1, HistoryOK, SetHistory DEF QueueOK, Sketch
<1> HIDE DEF h
<1>2. /\ QueueOK(p.queue) /\ p.queue.items = q.items /\ p.queue.index = q.index
      /\ p.target \in 0..(Length(q) - 1) \cup {NoIndex}
      /\ peek_preload_target(q, q.index) # NoEntry => p.target # NoIndex
  <2>1. CASE Length(q) = 0
    <3>1. p = [queue |-> q, target |-> NoIndex]
      BY <2>1 DEF peek_next_index
    <3>2. \A i : at(q, i) = NoEntry
      BY <2>1 DEF at
    <3> QED
      BY <3>1, <3>2 DEF peek_preload_target
  <2>2. CASE Length(q) > 0 /\ ~q.shuffling
    <3>1. p = [queue |-> h, target |-> next_index_under_repeat(h.index, Length(h), h.repeat)]
      BY <2>2 DEF peek_next_index, h
    <3>2. p.target \in 0..(Length(q) - 1) \cup {NoIndex}
      BY <3>1, <2>2, <1>n, <1>h DEF next_index_under_repeat, Length
    <3>3. peek_preload_target(q, q.index) # NoEntry => p.target # NoIndex
      BY <3>1, <2>2, <1>n, <1>h DEF next_index_under_repeat, peek_preload_target, Length, NoIndex
    <3> QED
      BY <3>1, <3>2, <3>3, <1>h
  <2>3. CASE /\ Length(q) > 0 /\ q.shuffling
             /\ PositionInOrder(h, h.index) > 0 /\ PositionInOrder(h, h.index) < Len(h.order)
    <3>1. p = [queue |-> h, target |-> h.order[PositionInOrder(h, h.index) + 1]]
      BY <2>3 DEF peek_next_index, h
    <3>2. h.shuffling /\ Length(h) = Length(q) /\ Length(h) > 0
          /\ PositionInOrder(h, h.index) # 0
      BY <2>3, <1>h DEF Length
    <3>3. /\ PositionInOrder(h, h.index) \in 1..Length(h) /\ Len(h.order) = Length(h)
          /\ \A k \in 1..Length(h) : h.order[k] \in 0..(Length(h) - 1)
      BY <3>2, <1>h, NeighbourInRange
    <3>4. PositionInOrder(h, h.index) + 1 \in 1..Length(h)
      BY <3>3, <2>3, <1>n, <3>2
    <3>5. p.target \in 0..(Length(q) - 1)
      BY <3>1, <3>2, <3>3, <3>4
    <3> QED
      BY <3>1, <3>5, <1>h, <1>n DEF NoIndex
  <2>4. CASE /\ Length(q) > 0 /\ q.shuffling
             /\ ~(PositionInOrder(h, h.index) > 0 /\ PositionInOrder(h, h.index) < Len(h.order))
    <3>1. p \in IF h.repeat = "all"
                  THEN {[queue |-> x, target |-> x.order[1]] : x \in rebuild_order(h)}
                  ELSE {[queue |-> h, target |-> NoIndex]}
      BY <2>4 DEF peek_next_index, h
    <3>2. CASE h.repeat = "all"
      <4>1. PICK x \in rebuild_order(h) : p = [queue |-> x, target |-> x.order[1]]
        BY <3>1, <3>2
      <4>2. QueueOK(x) /\ x.items = h.items /\ x.index = h.index
        BY <1>h, RebuildOK DEF QueueOK
      <4>3. x.shuffling
        BY <2>4, <1>h DEF rebuild_order, QueueOK, Sketch, IsQueue
      <4>4. x.order[1] \in 0..(Length(x) - 1) /\ Length(x) = Length(q)
        BY <4>2, <4>3, <2>4, <1>n, <1>h DEF QueueOK, OrderOK, Length
      <4> QED
        BY <4>1, <4>2, <4>4, <1>h, <1>n DEF NoIndex
    <3>3. CASE h.repeat # "all"
      <4>1. p = [queue |-> h, target |-> NoIndex]
        BY <3>1, <3>3
      <4>2. peek_preload_target(q, q.index) = NoEntry
        <5>1. PositionInOrder(h, h.index) = PositionInOrder(q, q.index)
          BY <1>h DEF PositionInOrder
        <5> QED
          BY <5>1, <3>3, <2>4, <1>h DEF peek_preload_target
      <4> QED
        BY <4>1, <4>2, <1>h
    <3> QED
      BY <3>2, <3>3
  <2> QED
    BY <2>1, <2>2, <2>3, <2>4, <1>n
<1>3. Length(p.queue) = Length(q)
  BY <1>2 DEF Length
<1>4. r = [queue |-> MoveCursor(p),
           item |-> IF p.target = NoIndex THEN NoEntry ELSE at(p.queue, p.target)]
  BY <1>1 DEF Navigated
<1>5. CASE p.target = NoIndex
  <2>1. r.queue = p.queue /\ r.item = NoEntry
    BY <1>4, <1>5 DEF MoveCursor
  <2> QED
    BY <1>2, <1>3, <1>5, <2>1 DEF Seated
<1>6. CASE p.target # NoIndex
  <2>1. r.queue = [p.queue EXCEPT !.index = p.target] /\ r.item = at(p.queue, p.target)
    BY <1>4, <1>6 DEF MoveCursor
  <2>2. r.queue.items = p.queue.items /\ r.queue.index = p.target
    BY <1>2, <2>1, SetIndex DEF QueueOK, Sketch
  <2>3. p.target \in 0..(Length(q) - 1)
    BY <1>2, <1>6
  <2>4. p.queue.items[p.target + 1] # NoEntry
    <3>1. p.queue.items \in Seq(Entries) /\ p.target + 1 \in 1..Len(p.queue.items)
      BY <1>2, <1>3, <1>n, <2>3 DEF QueueOK, Sketch, Length
    <3> QED
      BY <3>1, ElementOfSeq, EntriesAssumption
  <2> QED
    BY <1>n, <1>3, <2>1, <2>2, <2>3, <2>4 DEF Seated, current, at, Length
<1> QED
  BY <1>5, <1>6

(* ... or to the previous one, *)
LEMMA PreviousSeated ==
  ASSUME NEW q, QueueOK(q), NEW r \in previous(q)
  PROVE  Seated(q) => Seated(r.queue)
<1>n. Length(q) \in Nat /\ q.index \in -1..(Length(q) - 1)
  BY LenProperties DEF QueueOK, Sketch, Length, IndexOK
<1>1. PICK p \in peek_prev_index(q) : r = Navigated(p)
  BY DEF previous
<1>2. p.target \in Nat \cup {NoIndex} /\ (p.queue = q \/ \E h : p.queue = [q EXCEPT !.history = h])
  <2>1. CASE Length(q) = 0
    BY <2>1 DEF peek_prev_index
  <2>2. CASE Length(q) # 0 /\ UsableHistory(q) # {}
    <3>1. PICK k \in PopTo(q) :
            p = [queue  |-> [q EXCEPT !.history = SubSeq(q.history, 1, k - 1)],
                 target |-> q.history[k]]
      BY <2>2 DEF peek_prev_index
    <3>2. p.target \in 0..(Length(q) - 1)
      BY <3>1 DEF PopTo, UsableHistory
    <3>3. p.queue = [q EXCEPT !.history = SubSeq(q.history, 1, k - 1)]
      BY <3>1
    <3>4. \E h : p.queue = [q EXCEPT !.history = h]
      BY <3>3, Zenon
    <3>5. p.target \in Nat
      BY <3>2, <1>n
    <3> QED
      BY <3>4, <3>5
  <2>3. CASE Length(q) # 0 /\ UsableHistory(q) = {}
    <3>1. p.queue = [q EXCEPT !.history = <<>>]
      BY <2>3 DEF peek_prev_index
    <3>a. \E h : p.queue = [q EXCEPT !.history = h]
      BY <3>1, Zenon
    <3>2. CASE ~q.shuffling
      <4>1. p.target = IF q.index >= 1 THEN q.index - 1 ELSE NoIndex
        BY <2>3, <3>2 DEF peek_prev_index
      <4>2. p.target \in Nat \cup {NoIndex}
        BY <4>1, <1>n
      <4> QED
        BY <4>2, <3>a
    <3>3. CASE q.shuffling
      <4>1. p.target = IF PositionInOrder(q, q.index) > 1
                         THEN q.order[PositionInOrder(q, q.index) - 1] ELSE NoIndex
        BY <2>3, <3>3 DEF peek_prev_index
      <4>2. ASSUME PositionInOrder(q, q.index) > 1
            PROVE  q.order[PositionInOrder(q, q.index) - 1] \in Nat
        <5>1. PositionInOrder(q, q.index) # 0 /\ Length(q) > 0
          BY <4>2, <2>3, <1>n
        <5>2. /\ PositionInOrder(q, q.index) \in 1..Length(q)
              /\ \A k \in 1..Length(q) : q.order[k] \in 0..(Length(q) - 1)
          BY <5>1, <3>3, NeighbourInRange
        <5> QED
          BY <4>2, <5>2, <1>n
      <4>3. p.target \in Nat \cup {NoIndex}
        BY <4>1, <4>2
      <4> QED
        BY <4>3, <3>a
    <3> QED
      BY <3>2, <3>3
  <2> QED
    BY <2>1, <2>2, <2>3
<1>3. IsQueue(p.queue) /\ p.queue.items = q.items /\ p.queue.index = q.index
  <2>1. CASE p.queue = q
    BY <2>1 DEF QueueOK, Sketch
  <2>2. ASSUME NEW h, p.queue = [q EXCEPT !.history = h]
        PROVE  IsQueue(p.queue) /\ p.queue.items = q.items /\ p.queue.index = q.index
    <3>1. /\ QueueOK([q EXCEPT !.history = h]) /\ [q EXCEPT !.history = h].items = q.items
          /\ [q EXCEPT !.history = h].index = q.index
      BY HistoryOK
    <3> QED
      BY <3>1, <2>2 DEF QueueOK, Sketch
  <2> QED
    BY <1>2, <2>1, <2>2
<1>4. r.queue = MoveCursor(p)
  BY <1>1 DEF Navigated
<1>5. CASE p.target = NoIndex
  BY <1>3, <1>4, <1>5 DEF MoveCursor, Seated, Length
<1>6. CASE p.target # NoIndex
  <2>1. r.queue = [p.queue EXCEPT !.index = p.target]
    BY <1>4, <1>6 DEF MoveCursor
  <2>2. r.queue.index = p.target
    BY <1>3, <2>1, SetIndex
  <2> QED
    BY <1>2, <1>6, <2>2 DEF Seated
<1> QED
  BY <1>5, <1>6

(* ... toggling shuffle, *)
LEMMA ShuffleSeated ==
  ASSUME NEW q, QueueOK(q), Seated(q), NEW on \in BOOLEAN, NEW r \in set_shuffle(q, on)
  PROVE  Seated(r)
<1>1. CASE q.shuffling = on
  BY <1>1 DEF set_shuffle
<1>2. CASE q.shuffling # on
  <2> DEFINE m == [items |-> q.items, index |-> q.index, order |-> q.order,
                   history |-> <<>>, repeat |-> q.repeat, shuffling |-> on]
  <2>1. r \in rebuild_order(m)
    BY <1>2, SetMode DEF set_shuffle, QueueOK, Sketch
  <2>2. Sketch(m) /\ Seated(m)
    BY DEF QueueOK, Sketch, IsQueue, IndexOK, Length, Seated
  <2> QED
    BY <2>1, <2>2, RebuiltSeated
<1> QED
  BY <1>1, <1>2

(* ... choosing a repeat mode, *)
LEMMA RepeatSeated ==
  ASSUME NEW q, QueueOK(q), Seated(q), NEW mode \in RepeatModes
  PROVE  Seated(set_repeat(q, mode)) /\ set_repeat(q, mode).items = q.items
  BY DEF set_repeat, QueueOK, Sketch, IsQueue, Seated, Length

(* ... or clearing the list. *)
LEMMA ClearSeated ==
  ASSUME NEW q, QueueOK(q)
  PROVE  Seated(clear(q))
<1>1. clear(q).items = <<>>
  BY DEF clear, QueueOK, Sketch, IsQueue
<1> QED
  BY <1>1 DEF Seated, Length

-----------------------------------------------------------------------------
(***************************************************************************)
(* The rest of the user's commands.                                        *)
(***************************************************************************)

(* With no fade in flight, a handler that never meets one is any handler. *)
LEMMA MovesStep ==
  ASSUME NEW s, NEW t, Moves(s, t), ~s.p.in_progress
  PROVE  Steps(s, t)
  BY DEF Moves, Steps, Linked, Fading

(* Two steps are a step. *)
LEMMA StepsOn ==
  ASSUME NEW s, NEW t, NEW u, Steps(s, t), Steps(t, u)
  PROVE  Steps(s, u)
  BY DEF Steps

(* Teardown: the engine is closed and the player has no item. *)
LEMMA teardown_innerMoves ==
  ASSUME NEW s, Good(s)
  PROVE  Moves(s, teardown_inner(s))
<1> DEFINE none == [i \in Entries |-> Unknown]
           x == [Supersede(s.p) EXCEPT
                   !.pause_intent = FALSE, !.pending_ended = FALSE,
                   !.lengths = none, !.reset_offset = 0,
                   !.restored = NoPlace, !.xfade = NoXfade, !.in_progress = FALSE,
                   !.attached = FALSE, !.state = "idle", !.current = NoEntry,
                   !.position = 0]
           y == IF s.p.attached THEN close(s.e) ELSE s.e
<1>0. /\ s = [q |-> s.q, p |-> s.p, e |-> s.e] /\ QueueOK(s.q) /\ s.p \in PlayerType
      /\ EngineOK(s.e)
  BY DEF Good, SystemOK
<1>1. teardown_inner(s) = [s EXCEPT !.p = x, !.e = y]
  BY <1>0 DEF teardown_inner
<1>2. /\ EngineOK(y) /\ ~y.pumping
      /\ (s.p.attached => ~HasSession(y) /\ ~crossfade_pending(y) /\ y.result = NoResult)
      /\ (~s.p.attached => y = s.e)
  BY <1>0, CloseOK DEF Good, Hushed, close, ClosedEngine, NoFade, NoSession, Session, HasSession,
                       crossfade_pending
<1>3. /\ x \in PlayerType /\ x.state = "idle" /\ x.attached = FALSE /\ x.pause_intent = FALSE
      /\ x.in_progress = FALSE /\ x.crossfade = s.p.crossfade /\ x.xfade = NoXfade
  <2> DEFINE sup == Supersede(s.p)
  <2>1. sup \in PlayerType /\ sup.crossfade = s.p.crossfade
    BY <1>0, SupersedeKeeps
  <2> HIDE DEF sup
  <2>2. NoPlace \in [idx : Nat \cup {-1}, within : Nat] /\ NoXfade \in XfadeType
        /\ none \in [Entries -> Nat \cup {Unknown}] /\ NoEntry \in Maybe
    BY DEF NoPlace, NoXfade, XfadeType, Maybe, NoRace
  <2> HIDE DEF none
  <2> QED
    BY <2>1, <2>2 DEF PlayerType, States, sup
<1> HIDE DEF x, y
<1>4. /\ SystemOK(teardown_inner(s)) /\ teardown_inner(s).q = s.q
      /\ teardown_inner(s).p = x /\ teardown_inner(s).e = y
  <2>1. teardown_inner(s) = [q |-> s.q, p |-> x, e |-> y]
    BY <1>0, <1>1, EditPlayerEngine
  <2> QED
    BY <1>0, <1>2, <1>3, <2>1, SystemIs
<1>5. Hushed(teardown_inner(s))
  BY <1>2, <1>3, <1>4 DEF Hushed
<1>7. Ready(s) => Ready(teardown_inner(s))
  BY <1>2, <1>3, <1>4 DEF Ready
<1>8. Calm(s) => Calm(teardown_inner(s))
  BY <1>2, <1>3, <1>4 DEF Calm
<1> QED
  BY <1>4, <1>5, <1>7, <1>8 DEF Moves, Good

(* Resuming an attached player starts decoding. *)
LEMMA ResumedSteps ==
  ASSUME NEW s, Good(s), s.p.attached
  PROVE  LET t == [s EXCEPT !.p.pause_intent = FALSE, !.p.state = "playing",
                            !.e = start_pumping(@)]
         IN  Steps(s, t) /\ Moves(s, t)
<1> DEFINE x == [s.p EXCEPT !.pause_intent = FALSE, !.state = "playing"]
           y == start_pumping(s.e)
           t == [s EXCEPT !.p = x, !.e = y]
<1>0. /\ s = [q |-> s.q, p |-> s.p, e |-> s.e] /\ QueueOK(s.q) /\ s.p \in PlayerType
      /\ EngineOK(s.e)
  BY DEF Good, SystemOK
<1>1. [s EXCEPT !.p.pause_intent = FALSE, !.p.state = "playing", !.e = start_pumping(@)] = t
  BY <1>0
<1>2. EngineOK(y) /\ y.current = s.e.current /\ y.xfade = s.e.xfade /\ y.result = s.e.result
  BY <1>0, PumpingOK
<1>3. /\ x \in PlayerType /\ x.state = "playing" /\ x.attached = TRUE /\ x.pause_intent = FALSE
      /\ x.in_progress = s.p.in_progress /\ x.xfade = s.p.xfade /\ x.crossfade = s.p.crossfade
      /\ x.current = s.p.current
  BY <1>0 DEF PlayerType, States
<1> HIDE DEF x, y
<1>4. SystemOK(t) /\ t.q = s.q /\ t.p = x /\ t.e = y
  <2>1. t = [q |-> s.q, p |-> x, e |-> y]
    BY <1>0, EditPlayerEngine
  <2> QED
    BY <1>0, <1>2, <1>3, <2>1, SystemIs
<1> HIDE DEF t
<1>5. Steps(s, t) /\ Moves(s, t)
  BY <1>2, <1>3, <1>4
     DEF Steps, Moves, Good, Hushed, Ready, Linked, Calm, Fading, crossfade_pending, HasSession
<1> QED
  BY <1>1, <1>5

(* Resume, which loads a restored session. *)
LEMMA resume_innerSteps ==
  ASSUME NEW s, Good(s)
  PROVE  Steps(s, resume_inner(s)) /\ Moves(s, resume_inner(s))
<1> DEFINE within == IF s.p.restored.idx = s.q.index THEN s.p.restored.within ELSE 0
<1>1. CASE s.p.attached
  <2>1. resume_inner(s) = [s EXCEPT !.p.pause_intent = FALSE, !.p.state = "playing",
                                    !.e = start_pumping(@)]
    BY <1>1 DEF resume_inner
  <2> QED
    BY <1>1, <2>1, ResumedSteps
<1>2. CASE ~s.p.attached /\ s.p.state = "paused" /\ s.p.current # NoEntry
  <2>1. resume_inner(s) = load(s, within)
    BY <1>2 DEF resume_inner, LoadRestored
  <2>2. within \in Nat
    BY DEF Good, SystemOK, PlayerType
  <2> HIDE DEF within
  <2>3. Moves(s, load(s, within))
    BY <2>2, loadMoves
  <2>4. Linked(s) => Calm(s)
    BY <1>2 DEF Linked, Fading
  <2> QED
    BY <2>1, <2>3, <2>4 DEF Moves, Steps, Linked
<1>3. CASE ~s.p.attached /\ ~(s.p.state = "paused" /\ s.p.current # NoEntry)
  BY <1>3 DEF resume_inner, Moves, Steps
<1> QED
  BY <1>1, <1>2, <1>3

(* The intent to pause is lifted only where a load follows. *)
LEMMA UnpausedMoves ==
  ASSUME NEW s, Good(s), NEW q, QueueOK(q), Seated(s.q) => Seated(q)
  PROVE  /\ Moves(s, [s EXCEPT !.p.pause_intent = FALSE])
         /\ Moves(s, [s EXCEPT !.q = q, !.p.pause_intent = FALSE])
<1> DEFINE x == [s.p EXCEPT !.pause_intent = FALSE]
<1>0. /\ s = [q |-> s.q, p |-> s.p, e |-> s.e] /\ QueueOK(s.q) /\ s.p \in PlayerType
      /\ EngineOK(s.e)
  BY DEF Good, SystemOK
<1>1. /\ [s EXCEPT !.p.pause_intent = FALSE] = [s EXCEPT !.p = x]
      /\ [s EXCEPT !.q = q, !.p.pause_intent = FALSE] = [s EXCEPT !.q = q, !.p = x]
  BY <1>0
<1>3. /\ x \in PlayerType /\ x.state = s.p.state /\ x.attached = s.p.attached
      /\ x.pause_intent = FALSE
      /\ x.in_progress = s.p.in_progress /\ x.xfade = s.p.xfade /\ x.crossfade = s.p.crossfade
      /\ x.current = s.p.current
  BY <1>0 DEF PlayerType
<1> HIDE DEF x
<1>4. ASSUME NEW r, QueueOK(r), Seated(s.q) => Seated(r)
      PROVE  Moves(s, [q |-> r, p |-> x, e |-> s.e])
  <2> DEFINE t == [q |-> r, p |-> x, e |-> s.e]
  <2>1. SystemOK(t) /\ t.q = r /\ t.p = x /\ t.e = s.e
    BY <1>0, <1>3, <1>4, SystemIs
  <2> HIDE DEF t
  <2>2. Moves(s, t)
    BY <1>3, <1>4, <2>1 DEF Moves, Good, Hushed, Ready, Calm
  <2> QED
    BY <2>2 DEF t
<1>5. [s EXCEPT !.p = x] = [q |-> s.q, p |-> x, e |-> s.e]
  BY <1>0, SystemEdits
<1>6. [s EXCEPT !.q = q, !.p = x] = [q |-> q, p |-> x, e |-> s.e]
  <2>1. \A w, y : [s EXCEPT !.q = w, !.p = y] = [q |-> w, p |-> y, e |-> s.e]
    BY <1>0, EditQueuePlayer
  <2> QED
    BY <2>1
<1> QED
  BY <1>0, <1>1, <1>4, <1>5, <1>6

(* Toggle: pause, load or resume. *)
LEMMA toggle_play_innerMoves ==
  ASSUME NEW s, Good(s)
  PROVE  Moves(s, toggle_play_inner(s))
<1> DEFINE t == [s EXCEPT !.p.pause_intent = FALSE]
<1>1. toggle_play_inner(s) \in {pause_inner(s), s, load(t, 0), resume_inner(s)}
  BY DEF toggle_play_inner
<1>2. Moves(s, t)
  BY UnpausedMoves DEF Good, SystemOK
<1> HIDE DEF t
<1>3. Moves(t, load(t, 0))
  BY <1>2, loadMoves DEF Moves
<1>4. Moves(s, s)
  BY DEF Moves
<1> QED
  BY <1>1, <1>2, <1>3, <1>4, MovesOn, pause_innerSteps, resume_innerSteps

(* Starting one of some queues. *)
LEMMA StartMoves ==
  ASSUME NEW s, Good(s), NEW queues, NEW t \in Start(s, queues),
         \A q \in queues : QueueOK(q) /\ (Seated(s.q) => Seated(q))
  PROVE  Moves(s, t)
<1>1. PICK q \in queues : t = load([s EXCEPT !.q = q, !.p.pause_intent = FALSE], 0)
  BY DEF Start
<1> DEFINE u == [s EXCEPT !.q = q, !.p.pause_intent = FALSE]
<1>2. Moves(s, u)
  BY UnpausedMoves
<1> HIDE DEF u
<1>3. Moves(u, load(u, 0))
  BY <1>2, loadMoves DEF Moves
<1> QED
  BY <1>1, <1>2, <1>3, MovesOn DEF u

(* A jump in the list. *)
LEMMA play_queue_indexMoves ==
  ASSUME NEW s, Good(s), NEW i, NEW t \in play_queue_index(s, i)
  PROVE  Moves(s, t)
<1>1. t = s \/ t \in Start(s, {move_to(s.q, i)})
  BY DEF play_queue_index
<1>2. QueueOK(move_to(s.q, i)) /\ (Seated(s.q) => Seated(move_to(s.q, i)))
  BY MoveToOK DEF Good, SystemOK
<1>3. Moves(s, s)
  BY DEF Moves
<1> QED
  BY <1>1, <1>2, <1>3, StartMoves

(* A skip to where one of some moves of the cursor leads, *)
LEMMA SkipMoves ==
  ASSUME NEW s, Good(s), NEW moves, NEW t \in Skip(s, moves),
         \A r \in moves : QueueOK(r.queue) /\ (Seated(s.q) => Seated(r.queue))
  PROVE  Moves(s, t)
<1>1. PICK r \in moves :
        t = LET u == [s EXCEPT !.q = r.queue, !.p = Supersede(@)]
            IN  IF r.item = NoEntry THEN u ELSE load(u, 0)
  BY DEF Skip
<1> DEFINE v == [s EXCEPT !.p = Supersede(@)]
           u == [s EXCEPT !.q = r.queue, !.p = Supersede(@)]
<1>2. Moves(s, v) /\ v.q = s.q
  BY SupersedeMoves
<1>3. u = [v EXCEPT !.q = r.queue]
  BY DEF Good, SystemOK
<1> HIDE DEF v
<1>4. Moves(v, [v EXCEPT !.q = r.queue])
  BY <1>2, QueueMoves DEF Moves
<1>5. Moves(s, u)
  BY <1>2, <1>3, <1>4, MovesOn
<1>6. t = u \/ t = load(u, 0)
  BY <1>1
<1> HIDE DEF u
<1>7. Moves(u, load(u, 0))
  BY <1>5, loadMoves DEF Moves
<1> QED
  BY <1>5, <1>6, <1>7, MovesOn

(* ... to the next entry, *)
LEMMA PlayerNextMoves ==
  ASSUME NEW s, Good(s), NEW t \in PlayerNext(s)
  PROVE  Moves(s, t)
<1>1. \A r \in next(s.q) : QueueOK(r.queue) /\ (Seated(s.q) => Seated(r.queue))
  BY NextOK, NextSeated DEF Good, SystemOK
<1> QED
  BY <1>1, SkipMoves DEF PlayerNext

(* ... or to the previous one, or to the start of the track. *)
LEMMA PlayerPreviousMoves ==
  ASSUME NEW s, Good(s), NEW t \in PlayerPrevious(s)
  PROVE  Moves(s, t)
<1>1. \A r \in previous(s.q) : QueueOK(r.queue) /\ (Seated(s.q) => Seated(r.queue))
  BY PreviousOK, PreviousSeated DEF Good, SystemOK
<1>2. t = restart_current_track(s) \/ t \in Skip(s, previous(s.q))
  BY DEF PlayerPrevious
<1> QED
  BY <1>1, <1>2, SkipMoves, restart_current_trackMoves

(* The reaction to an edit of the list: stop, load, or nothing. *)
LEMMA on_queue_changedMoves ==
  ASSUME NEW s, Good(s)
  PROVE  Moves(s, on_queue_changed(s))
<1>1. on_queue_changed(s) \in {s, stop_inner(s), load(s, 0)}
  BY DEF on_queue_changed
<1>2. Moves(s, s)
  BY DEF Moves
<1> QED
  BY <1>1, <1>2, stop_innerMoves, loadMoves

(* An edit of the list, and the player's answer to it. *)
LEMMA EditedMoves ==
  ASSUME NEW s, Good(s), NEW q, QueueOK(q), Seated(s.q) => Seated(q)
  PROVE  Moves(s, on_queue_changed([s EXCEPT !.q = q]))
<1> DEFINE t == [s EXCEPT !.q = q]
<1>1. Moves(s, t)
  BY QueueMoves
<1> HIDE DEF t
<1>2. Moves(t, on_queue_changed(t))
  BY <1>1, on_queue_changedMoves DEF Moves
<1> QED
  BY <1>1, <1>2, MovesOn DEF t

(***************************************************************************)
(* What the screen shows and where the cursor is make no difference to the *)
(* engine: Alike players differ in nothing it depends on.                  *)
(***************************************************************************)
Alike(x, y) ==
  /\ x.state = y.state /\ x.current = y.current /\ x.attached = y.attached
  /\ x.pause_intent = y.pause_intent /\ x.crossfade = y.crossfade
  /\ x.in_progress = y.in_progress /\ x.xfade = y.xfade

(* A change of the cursor, the order or of what is no part of the invariants. *)
LEMMA AlikeSteps ==
  ASSUME NEW s, Good(s), NEW q, QueueOK(q), q.items = s.q.items, Seated(s.q) => Seated(q),
         NEW x \in PlayerType, Alike(x, s.p)
  PROVE  Steps(s, [q |-> q, p |-> x, e |-> s.e]) /\ Moves(s, [q |-> q, p |-> x, e |-> s.e])
<1> DEFINE t == [q |-> q, p |-> x, e |-> s.e]
<1>1. SystemOK(t) /\ t.q = q /\ t.p = x /\ t.e = s.e
  BY SystemIs DEF Good, SystemOK
<1> HIDE DEF t
<1>2. Occurrences(q, s.p.xfade.target) = Occurrences(s.q, s.p.xfade.target)
  BY DEF Occurrences, at, Length
<1>3. Good(t) /\ (Ready(s) => Ready(t)) /\ (Calm(s) => Calm(t))
  BY <1>1 DEF Good, Hushed, Ready, Calm, Alike
<1>4. Fading(s) => Fading(t)
  BY <1>1, <1>2 DEF Fading, Alike
<1> QED
  BY <1>3, <1>4 DEF Steps, Moves, Linked, t

(* The album clock is a number. *)
LEMMA ClockNat ==
  ASSUME NEW s, s.p \in PlayerType, EngineOK(s.e)
  PROVE  album_position(s) \in Nat
<1>1. rendered_samples(s.e) \in Nat
  BY DEF rendered_samples, rendered_frames, EngineOK, EngineType, SessionType
<1>2. s.p.reset_offset \in Nat
  BY DEF PlayerType
<1> QED
  BY <1>1, <1>2 DEF album_position

(* Toggling shuffle moves the origin of the clock only. *)
LEMMA PlayerSetShuffleSteps ==
  ASSUME NEW s, Good(s), NEW on \in BOOLEAN, NEW t \in PlayerSetShuffle(s, on)
  PROVE  Steps(s, t)
<1>0. /\ s = [q |-> s.q, p |-> s.p, e |-> s.e] /\ QueueOK(s.q) /\ s.p \in PlayerType
      /\ EngineOK(s.e)
  BY DEF Good, SystemOK
<1>1. PICK q \in set_shuffle(s.q, on) :
        t = LET v   == [s EXCEPT !.q = q]
                off == offset(v, q.index)
                u   == [v EXCEPT !.p.reset_offset = off]
            IN  IF s.p.current = NoEntry THEN u
                ELSE [u EXCEPT !.p.track_start = off, !.p.position = album_position(u)]
  BY DEF PlayerSetShuffle
<1>2. QueueOK(q) /\ q.items = s.q.items /\ (Seated(s.q) => Seated(q))
  BY <1>0, ShuffleOK, ShuffleItems, ShuffleSeated
<1> DEFINE v == [s EXCEPT !.q = q]
           off == offset(v, q.index)
           x == [s.p EXCEPT !.reset_offset = off]
           u == [q |-> q, p |-> x, e |-> s.e]
           y == [x EXCEPT !.track_start = off, !.position = album_position(u)]
<1>3. off \in Nat
  <2>1. v = [q |-> q, p |-> s.p, e |-> s.e]
    BY <1>0, SystemEdits
  <2>2. v.q = q /\ v.p = s.p
    BY <2>1
  <2> HIDE DEF v
  <2> QED
    BY <1>0, <1>2, <2>2, OffsetNat DEF PlayerType, LengthsOK
<1>4. /\ [v EXCEPT !.p.reset_offset = off] = u
      /\ [u EXCEPT !.p.track_start = off, !.p.position = album_position(u)]
         = [q |-> q, p |-> y, e |-> s.e]
  <2>1. v = [q |-> q, p |-> s.p, e |-> s.e]
    BY <1>0, SystemEdits
  <2> HIDE DEF off, v
  <2>2. [v EXCEPT !.p.reset_offset = off] = u
    BY <2>1
  <2> DEFINE w == album_position(u)
  <2> HIDE DEF w
  <2>3. [u EXCEPT !.p.track_start = off, !.p.position = w]
        = [q |-> q, p |-> [x EXCEPT !.track_start = off, !.position = w], e |-> s.e]
    <3> HIDE DEF x
    <3> DEFINE z == [x EXCEPT !.track_start = off, !.position = w]
    <3>1. u.p = x
      OBVIOUS
    <3>2. [u EXCEPT !.p.track_start = off] = [u EXCEPT !.p = [x EXCEPT !.track_start = off]]
      OBVIOUS
    <3>3. [u EXCEPT !.p.track_start = off, !.p.position = w] = [u EXCEPT !.p = z]
      OBVIOUS
    <3> HIDE DEF z
    <3>4. [u EXCEPT !.p = z] = [q |-> q, p |-> z, e |-> s.e]
      OBVIOUS
    <3> QED
      BY <3>3, <3>4 DEF z
  <2> QED
    BY <2>2, <2>3 DEF w
<1>5. t = u \/ t = [q |-> q, p |-> y, e |-> s.e]
  <2> DEFINE a == [v EXCEPT !.p.reset_offset = off]
             b == [a EXCEPT !.p.track_start = off, !.p.position = album_position(a)]
  <2>1. t = IF s.p.current = NoEntry THEN a ELSE b
    BY <1>1
  <2>2. a = u
    BY <1>4
  <2> HIDE DEF a, off, v
  <2>3. b = [u EXCEPT !.p.track_start = off, !.p.position = album_position(u)]
    BY <2>2
  <2> QED
    BY <2>1, <2>2, <2>3, <1>4
<1> HIDE DEF off
<1>6. x \in PlayerType /\ Alike(x, s.p)
  BY <1>0, <1>3 DEF PlayerType, Alike
<1>7. album_position(u) \in Nat
  <2>1. u.p = x /\ u.e = s.e
    OBVIOUS
  <2> HIDE DEF u, x
  <2> QED
    BY <1>0, <1>6, <2>1, ClockNat
<1> HIDE DEF u
<1>8. y \in PlayerType /\ Alike(y, s.p)
  <2> HIDE DEF x
  <2> QED
    BY <1>3, <1>6, <1>7 DEF PlayerType, Alike
<1> HIDE DEF x, y
<1> QED
  BY <1>2, <1>5, <1>6, <1>8, AlikeSteps DEF u

(* Choosing a repeat mode. *)
LEMMA set_repeatSteps ==
  ASSUME NEW s, Good(s), NEW mode \in RepeatModes
  PROVE  Steps(s, [s EXCEPT !.q = set_repeat(@, mode)])
<1> DEFINE q == set_repeat(s.q, mode)
<1>1. /\ s = [q |-> s.q, p |-> s.p, e |-> s.e] /\ s.p \in PlayerType
      /\ QueueOK(q) /\ q.items = s.q.items /\ (Seated(s.q) => Seated(q))
  BY RepeatOK, RepeatSeated DEF Good, SystemOK, set_repeat, QueueOK, Sketch, IsQueue
<1> HIDE DEF q
<1>2. [s EXCEPT !.q = q] = [q |-> q, p |-> s.p, e |-> s.e]
  BY <1>1, SystemEdits
<1>3. Alike(s.p, s.p)
  BY DEF Alike
<1>4. Steps(s, [s EXCEPT !.q = q])
  BY <1>1, <1>2, <1>3, AlikeSteps
<1> QED
  BY <1>4 DEF q

(* The fade's length may be changed while one is mixed: the next one takes it. *)
LEMMA SetCrossfadeKeeps ==
  ASSUME NEW s, Good(s), NEW f \in Nat
  PROVE  /\ Good([s EXCEPT !.p.crossfade = f])
         /\ f \in Fades /\ Ready(s) => Ready([s EXCEPT !.p.crossfade = f])
         /\ Linked(s) => Linked([s EXCEPT !.p.crossfade = f])
<1> DEFINE x == [s.p EXCEPT !.crossfade = f]
           t == [s EXCEPT !.p.crossfade = f]
<1>0. /\ s = [q |-> s.q, p |-> s.p, e |-> s.e] /\ QueueOK(s.q) /\ s.p \in PlayerType
      /\ EngineOK(s.e)
  BY DEF Good, SystemOK
<1>1. t = [s EXCEPT !.p = x]
  OBVIOUS
<1>3. /\ x \in PlayerType /\ x.state = s.p.state /\ x.attached = s.p.attached
      /\ x.pause_intent = s.p.pause_intent /\ x.current = s.p.current
      /\ x.in_progress = s.p.in_progress /\ x.xfade = s.p.xfade /\ x.crossfade = f
  BY <1>0 DEF PlayerType
<1> HIDE DEF x, t
<1>4. SystemOK(t) /\ t.q = s.q /\ t.p = x /\ t.e = s.e
  BY <1>0, <1>1, <1>3, SystemEdits, SystemIs
<1>5. Good(t) /\ (f \in Fades /\ Ready(s) => Ready(t)) /\ (Linked(s) => Linked(t))
  BY <1>3, <1>4 DEF Good, Hushed, Ready, Linked, Calm, Fading
<1> QED
  BY <1>5 DEF t

(***************************************************************************)
(* A reload starts from nothing but the snapshot.                          *)
(***************************************************************************)
LEMMA restoreKeeps ==
  ASSUME NEW s, Good(s), HasSnapshot(s),
         NEW t \in restore([q |-> EmptyQueue, p |-> NewPlayer, e |-> ClosedEngine],
                           take_snapshot(s))
  PROVE  Good(t) /\ (Ready(s) => Ready(t)) /\ Calm(t)
<1>0. /\ QueueOK(s.q) /\ s.p \in PlayerType /\ EngineOK(ClosedEngine)
  BY CloseOK DEF Good, SystemOK
<1> DEFINE index  == Clamp(s.q.index, 0, Len(s.q.items) - 1)
           loaded == set_all(set_repeat(EmptyQueue, s.q.repeat), s.q.items, index)
           queues == IF s.q.shuffling THEN set_shuffle(loaded, TRUE) ELSE {loaded}
           cf == IF s.p.crossfade > 0 THEN s.p.crossfade ELSE 0
           b == [q |-> EmptyQueue, p |-> NewPlayer, e |-> ClosedEngine]
           x == [NewPlayer EXCEPT !.crossfade = cf]
<1>n. s.q.items \in Seq(Entries) /\ Len(s.q.items) \in Nat /\ Len(s.q.items) > 0
      /\ s.q.index \in -1..(Len(s.q.items) - 1) /\ s.q.repeat \in RepeatModes
  BY <1>0, LenProperties DEF HasSnapshot, QueueOK, Sketch, IndexOK, Length
<1>1. index \in 0..(Len(s.q.items) - 1)
  BY <1>n DEF Clamp
<1> HIDE DEF index
<1>2. QueueOK(loaded) /\ Seated(loaded)
  <2> DEFINE r == set_repeat(EmptyQueue, s.q.repeat)
  <2>1. QueueOK(r) /\ r.shuffling = FALSE
    BY <1>n, EmptyOK, RepeatOK DEF EmptyQueue
  <2> HIDE DEF r
  <2>2. QueueOK(set_all(r, s.q.items, index))
    BY <1>n, <1>1, <2>1, SetAllOK
  <2>3. Seated(set_all(r, s.q.items, index))
    <3>1. set_all(r, s.q.items, index)
          = [items |-> s.q.items, index |-> index, order |-> r.order,
             history |-> r.history, repeat |-> r.repeat, shuffling |-> r.shuffling]
      BY <2>1, SetCursor DEF set_all, QueueOK, Sketch
    <3> QED
      BY <1>1, <3>1 DEF Seated
  <2> QED
    BY <2>2, <2>3 DEF r
<1> HIDE DEF loaded
<1>3. \A q \in queues : QueueOK(q) /\ Seated(q)
  BY <1>2, ShuffleOK, ShuffleSeated
<1> DEFINE E(z) == [b EXCEPT !.q = z,
                             !.p.crossfade = IF s.p.crossfade > 0 THEN s.p.crossfade ELSE @]
<1>a. PICK q \in queues :
        t = LET start  == offset(E(q), index)
                within == Least(s.p.position, Minus(length_of(E(q), index), 1))
            IN  [E(q) EXCEPT !.p.restored = [idx |-> index, within |-> within],
                             !.p.current = current(q),
                             !.p.state = "paused",
                             !.p.position = start + within,
                             !.p.track_start = start]
  <2> DEFINE snap == take_snapshot(s)
             i == Clamp(snap.index, 0, Len(snap.items) - 1)
             l == set_all(set_repeat(b.q, snap.repeat), snap.items, i)
             qs == IF snap.shuffle THEN set_shuffle(l, TRUE) ELSE {l}
             F(z) == [b EXCEPT !.q = z,
                               !.p.crossfade = IF snap.crossfade > 0 THEN snap.crossfade ELSE @]
             T(z) == LET start  == offset(F(z), i)
                         within == Least(snap.position, Minus(length_of(F(z), i), 1))
                     IN  [F(z) EXCEPT !.p.restored = [idx |-> i, within |-> within],
                                      !.p.current = current(z),
                                      !.p.state = "paused",
                                      !.p.position = start + within,
                                      !.p.track_start = start]
  <2>1. /\ snap.items = s.q.items /\ snap.index = s.q.index /\ snap.position = s.p.position
        /\ snap.repeat = s.q.repeat /\ snap.shuffle = s.q.shuffling
        /\ snap.crossfade = s.p.crossfade /\ b.q = EmptyQueue
    BY DEF take_snapshot
  <2>2. restore(b, snap) = {T(z) : z \in qs}
    <3> HIDE DEF snap, b
    <3> QED
      BY DEF restore
  <2>3. i = index
    <3> HIDE DEF snap
    <3> QED
      BY <2>1 DEF index
  <2>4. qs = queues
    <3>1. l = loaded
      <4> HIDE DEF snap, i, b
      <4> QED
        BY <2>1, <2>3 DEF loaded
    <3> HIDE DEF l, snap
    <3> QED
      BY <2>1, <3>1
  <2>5. \A z : F(z) = E(z)
    <3> HIDE DEF snap, b
    <3> QED
      BY <2>1
  <2> HIDE DEF snap, i, l, qs, F, E, queues
  <2>6. PICK z \in queues : t = T(z)
    <3>1. t \in {T(z) : z \in queues}
      BY <2>2, <2>4 DEF snap
    <3> HIDE DEF T
    <3> QED
      BY <3>1
  <2>7. F(z) = E(z)
    BY <2>5
  <2>8. t = LET start  == offset(E(z), index)
                within == Least(s.p.position, Minus(length_of(E(z), index), 1))
            IN  [E(z) EXCEPT !.p.restored = [idx |-> index, within |-> within],
                             !.p.current = current(z),
                             !.p.state = "paused",
                             !.p.position = start + within,
                             !.p.track_start = start]
    BY <2>1, <2>3, <2>6, <2>7
  <2> QED
    BY <2>8
<1> DEFINE u == [q |-> q, p |-> x, e |-> ClosedEngine]
<1>7. E(q) = u
  <2> DEFINE d == [b EXCEPT !.q = q]
  <2>1. d = [q |-> q, p |-> NewPlayer, e |-> ClosedEngine]
    OBVIOUS
  <2>2. E(q) = [d EXCEPT !.p.crossfade = IF s.p.crossfade > 0 THEN s.p.crossfade ELSE @]
    OBVIOUS
  <2>3. NewPlayer.crossfade = 0
    BY DEF NewPlayer
  <2> HIDE DEF d
  <2>4. [d EXCEPT !.p.crossfade = IF s.p.crossfade > 0 THEN s.p.crossfade ELSE @]
        = [d EXCEPT !.p = x]
    BY <2>1, <2>3
  <2> HIDE DEF x
  <2>5. [d EXCEPT !.p = x] = u
    BY <2>1
  <2> QED
    BY <2>2, <2>4, <2>5
<1> HIDE DEF E
<1> HIDE DEF queues
<1>5. cf \in Nat /\ (Ready(s) => cf \in Fades \cup {0})
  BY <1>0 DEF PlayerType, Ready
<1> HIDE DEF cf
<1> DEFINE start  == offset(u, index)
           within == Least(s.p.position, Minus(length_of(u, index), 1))
           y == [x EXCEPT !.restored = [idx |-> index, within |-> within],
                          !.current = current(q), !.state = "paused",
                          !.position = start + within, !.track_start = start]
<1>6. /\ x \in PlayerType /\ x.attached = FALSE /\ x.pause_intent = FALSE
      /\ x.in_progress = FALSE /\ x.xfade = NoXfade /\ x.crossfade = cf
  BY <1>5 DEF NewPlayer, PlayerType, States, Maybe, Unknown, NoXfade, XfadeType, NoRace,
              NoCheck, NoPlace
<1>8. start \in Nat /\ within \in Nat
  <2>1. u.q = q /\ u.p = x
    OBVIOUS
  <2> HIDE DEF u, x
  <2>2. offset(u, index) \in Nat /\ length_of(u, index) \in Nat
    BY <1>3, <1>6, <2>1, OffsetNat, LengthNat DEF PlayerType, LengthsOK
  <2>3. Minus(length_of(u, index), 1) \in Nat /\ s.p.position \in Nat
    BY <1>0, <2>2, LeastMinus DEF PlayerType
  <2> QED
    BY <2>2, <2>3, LeastMinus
<1>9. t = [q |-> q, p |-> y, e |-> ClosedEngine]
  <2>1. t = [u EXCEPT !.p.restored = [idx |-> index, within |-> within],
                      !.p.current = current(q), !.p.state = "paused",
                      !.p.position = start + within, !.p.track_start = start]
    BY <1>a, <1>7
  <2>2. u.p = x /\ u = [q |-> q, p |-> x, e |-> ClosedEngine]
    OBVIOUS
  <2> HIDE DEF start, within, x, b, u
  <2>3. t = [u EXCEPT !.p = y]
    BY <2>1, <2>2
  <2> HIDE DEF y
  <2> QED
    BY <2>2, <2>3
<1> HIDE DEF u, start, within
<1>10. /\ y \in PlayerType /\ y.attached = FALSE /\ y.pause_intent = FALSE
       /\ y.state = "paused" /\ y.in_progress = FALSE /\ y.xfade = NoXfade
       /\ y.crossfade = cf
  <2>1. /\ [idx |-> index, within |-> within] \in [idx : Nat \cup {-1}, within : Nat]
        /\ current(q) \in Maybe /\ start + within \in Nat
    BY <1>1, <1>3, <1>8, <1>n, AtEntry DEF current
  <2> HIDE DEF x
  <2> QED
    BY <1>6, <1>8, <2>1 DEF PlayerType, States
<1> HIDE DEF y
<1>11. SystemOK(t) /\ t.q = q /\ t.p = y /\ t.e = ClosedEngine
  BY <1>0, <1>3, <1>9, <1>10, SystemIs
<1>12. /\ ~HasSession(ClosedEngine) /\ ~crossfade_pending(ClosedEngine)
       /\ ClosedEngine.result = NoResult /\ ~ClosedEngine.pumping
  BY DEF HasSession, crossfade_pending, ClosedEngine, NoFade, NoSession, Session
<1> QED
  BY <1>3, <1>5, <1>10, <1>11, <1>12 DEF Good, Hushed, Ready, Calm

-----------------------------------------------------------------------------
(***************************************************************************)
(* Crossfades: how one begins ...                                          *)
(***************************************************************************)
RaceType == [item : Maybe, raw_len : Nat, remaining : Nat]

(* A fade begins: both sides wait for it. *)
LEMMA BeginKeeps ==
  ASSUME NEW s, Good(s), CanFade(s), NEW overlap \in Nat, NEW race \in RaceType,
         s.p.crossfade > 0, overlap <= s.p.crossfade
  PROVE  LET t == begin_crossfade_transition(s, overlap, race)
         IN  /\ Good(t) /\ t.e.current = s.e.current
             /\ Ready(s) => Ready(t)
             /\ Calm(s) => Fading(t)
<1> DEFINE prev == at(s.q, s.q.index)
           target == peek_preload_target(s.q, s.q.index)
           len == IF prev = NoEntry THEN Unknown ELSE s.p.lengths[prev]
           f == [fresh |-> TRUE, target |-> target, prev |-> prev, prev_len |-> len,
                 race |-> race]
           x == [s.p EXCEPT !.in_progress = TRUE, !.xfade = f]
           y == begin_crossfade(s.e, overlap)
           t == begin_crossfade_transition(s, overlap, race)
<1>0. /\ s = [q |-> s.q, p |-> s.p, e |-> s.e] /\ QueueOK(s.q) /\ s.p \in PlayerType
      /\ EngineOK(s.e)
  BY DEF Good, SystemOK
<1>1. t = [s EXCEPT !.e = y, !.p = x]
  BY <1>0 DEF begin_crossfade_transition
<1>2. /\ target \in Maybe /\ prev \in Maybe /\ target # NoEntry
      /\ Occurrences(s.q, target) # {}
  <2>1. target # NoEntry
    BY DEF CanFade, CanCrossfade, CanAdvance
  <2> QED
    BY <1>0, <2>1, TargetEntry, AtEntry
<1>3. EngineOK(y) /\ y.current = s.e.current /\ y.xfade.incoming.item = target
      /\ y.result = s.e.result /\ y.pumping = s.e.pumping
      /\ Primed(y.xfade)
  BY <1>0, BeginOK DEF CanFade
<1>4. f \in XfadeType /\ f.fresh = TRUE /\ f.target = target
  <2>1. len \in Nat \cup {Unknown}
    BY <1>0, <1>2 DEF PlayerType, Maybe
  <2> HIDE DEF len, prev, target
  <2> QED
    BY <1>2, <2>1 DEF XfadeType, RaceType
<1> HIDE DEF f, y
<1>5. /\ x \in PlayerType /\ x.state = s.p.state /\ x.attached = s.p.attached
      /\ x.pause_intent = s.p.pause_intent /\ x.crossfade = s.p.crossfade
      /\ x.in_progress = TRUE /\ x.xfade = f
  BY <1>0, <1>4 DEF PlayerType
<1> HIDE DEF x, t
<1>6. SystemOK(t) /\ t.q = s.q /\ t.p = x /\ t.e = y
  <2>1. t = [q |-> s.q, p |-> x, e |-> y]
    BY <1>0, <1>1, EditEnginePlayer
  <2> QED
    BY <1>0, <1>3, <1>5, <2>1, SystemIs
<1> HIDE DEF target
<1>7. Good(t) /\ (Ready(s) => Ready(t))
  <2>1. s.p.crossfade \in Nat
    BY <1>0 DEF PlayerType
  <2>2. ASSUME Ready(s)
        PROVE  ~(Fades \subseteq {0})
    <3>1. s.p.crossfade \in Fades /\ s.p.crossfade # 0
      BY <2>1, <2>2 DEF Ready
    <3> QED
      BY <3>1
  <2> QED
    BY <1>3, <1>5, <1>6, <2>2 DEF Good, Hushed, Ready
<1>8. Calm(s) => Fading(t)
  <2>1. HasSession(s.e)
    BY DEF CanFade, CanCrossfade
  <2> QED
    BY <1>2, <1>3, <1>4, <1>5, <1>6, <2>1 DEF Calm, Fading, HasSession, crossfade_pending
<1>9. t.e.current = s.e.current
  BY <1>3, <1>6
<1> QED
  BY <1>7, <1>8, <1>9 DEF t

(***************************************************************************)
(* ... and how it ends.  The target of a fade is an entry of the list.     *)
(***************************************************************************)
LEMMA OccurrenceEntry ==
  ASSUME NEW q, QueueOK(q), NEW item, Occurrences(q, item) # {}
  PROVE  item \in Entries
<1>1. PICK i \in 0..(Length(q) - 1) : at(q, i) = item
  BY DEF Occurrences
<1>2. Length(q) = Len(q.items) /\ q.items \in Seq(Entries) /\ Len(q.items) \in Nat
  BY LenProperties DEF QueueOK, Sketch, Length
<1>3. q.items[i + 1] \in Entries
  <2>1. i + 1 \in 1..Len(q.items)
    BY <1>2
  <2> QED
    BY <1>2, <2>1, ElementOfSeq
<1> QED
  BY <1>1, <1>3 DEF at

(* The result of a fade moves cursor and player to the target. *)
LEMMA ApplyOK ==
  ASSUME NEW s, SystemOK(s), CanApply(s), NEW overlap \in Nat
  PROVE  LET t == apply_crossfade_result(s, overlap)
         IN  /\ SystemOK(t) /\ (Seated(s.q) => Seated(t.q))
             /\ t.p.current = s.p.xfade.target
             /\ Alike(t.p, [s.p EXCEPT !.current = s.p.xfade.target])
             /\ t.e.current = s.e.current /\ t.e.xfade = s.e.xfade
             /\ t.e.result = s.e.result /\ t.e.pumping = s.e.pumping
<1> DEFINE xf    == s.p.xfade
           idx   == CHOOSE i \in Occurrences(s.q, xf.target) :
                      \A j \in Occurrences(s.q, xf.target) : i <= j
           known == IF xf.prev # NoEntry /\ xf.prev_len # Unknown /\ overlap > 0
                      THEN [s.p EXCEPT !.lengths[xf.prev] = Minus(xf.prev_len, overlap)]
                      ELSE s.p
           q == move_to(s.q, idx)
           c == [idx |-> idx, fresh |-> TRUE]
           x == [Learn(known, xf.target) EXCEPT !.check = c, !.current = xf.target,
                                                !.armed = FALSE]
           moved == [s EXCEPT !.q = q, !.p = x]
           start == offset(moved, idx)
           ready == [moved EXCEPT !.p.track_start = start]
           t == apply_crossfade_result(s, overlap)
<1>0. /\ s = [q |-> s.q, p |-> s.p, e |-> s.e] /\ QueueOK(s.q) /\ s.p \in PlayerType
      /\ EngineOK(s.e)
  BY DEF SystemOK
<1>1. t = Preload(ready)
  BY <1>0 DEF apply_crossfade_result
<1>2. /\ Occurrences(s.q, xf.target) # {} /\ xf.target \in Entries /\ idx \in Nat
      /\ xf.prev \in Maybe /\ xf.prev_len \in Nat \cup {Unknown}
  <2>1. Occurrences(s.q, xf.target) # {}
    BY DEF CanApply
  <2>2. idx \in 0..(Length(s.q) - 1)
    BY <1>0, <2>1, FirstOccurrence
  <2> HIDE DEF idx
  <2> QED
    BY <1>0, <2>1, <2>2, OccurrenceEntry DEF PlayerType, XfadeType
<1> HIDE DEF idx
<1>3. QueueOK(q) /\ (Seated(s.q) => Seated(q))
  BY <1>0, MoveToOK
<1> HIDE DEF q
<1>4. known \in PlayerType /\ Alike(known, s.p)
  <2>1. CASE xf.prev # NoEntry /\ xf.prev_len # Unknown /\ overlap > 0
    <3> DEFINE l == [s.p.lengths EXCEPT ![xf.prev] = Minus(xf.prev_len, overlap)]
    <3>1. Minus(xf.prev_len, overlap) \in Nat
      BY <1>2, <2>1, LeastMinus
    <3>2. l \in [Entries -> Nat \cup {Unknown}]
      BY <1>0, <3>1 DEF PlayerType
    <3>3. known = [s.p EXCEPT !.lengths = l]
      BY <1>0, <2>1
    <3> HIDE DEF known, l
    <3> QED
      BY <1>0, <3>2, <3>3 DEF PlayerType, Alike
  <2>2. CASE ~(xf.prev # NoEntry /\ xf.prev_len # Unknown /\ overlap > 0)
    BY <1>0, <2>2 DEF Alike
  <2> QED
    BY <2>1, <2>2
<1> HIDE DEF known
<1>5. Learn(known, xf.target) \in PlayerType /\ Alike(Learn(known, xf.target), s.p)
  <2>1. PICK l \in [Entries -> Nat \cup {Unknown}] :
          Learn(known, xf.target) = [known EXCEPT !.lengths = l]
    BY <1>2, <1>4, LearnOK
  <2> QED
    BY <1>4, <2>1 DEF PlayerType, Alike
<1>6. /\ x \in PlayerType /\ x.current = xf.target
      /\ Alike(x, [s.p EXCEPT !.current = xf.target])
  <2> DEFINE k == Learn(known, xf.target)
  <2>1. c \in [idx : Nat \cup {-1}, fresh : BOOLEAN] /\ xf.target \in Maybe
    BY <1>2 DEF Maybe
  <2>2. k \in PlayerType /\ Alike(k, s.p)
    BY <1>5
  <2> HIDE DEF k, c
  <2> QED
    BY <1>0, <2>1, <2>2 DEF PlayerType, Alike, k
<1> HIDE DEF x
<1>7. moved = [q |-> q, p |-> x, e |-> s.e]
  <2>1. \A w, z : [s EXCEPT !.q = w, !.p = z] = [q |-> w, p |-> z, e |-> s.e]
    BY <1>0, EditQueuePlayer
  <2> QED
    BY <2>1
<1>8. start \in Nat
  <2>1. moved.q = q /\ moved.p = x
    BY <1>7
  <2> HIDE DEF moved
  <2> QED
    BY <1>3, <1>6, <2>1, OffsetNat DEF PlayerType, LengthsOK
<1> HIDE DEF start
<1> DEFINE y == [x EXCEPT !.track_start = start]
<1>9. ready = [q |-> q, p |-> y, e |-> s.e]
  <2>1. moved.p = x
    BY <1>7
  <2> HIDE DEF moved
  <2>2. ready = [moved EXCEPT !.p = y]
    BY <2>1
  <2> HIDE DEF y
  <2> QED
    BY <1>7, <2>2
<1> HIDE DEF moved, ready
<1>10. y \in PlayerType /\ y.current = xf.target /\ Alike(y, [s.p EXCEPT !.current = xf.target])
  BY <1>6, <1>8 DEF PlayerType, Alike
<1> HIDE DEF y
<1>11. SystemOK(ready) /\ ready.q = q /\ ready.p = y /\ ready.e = s.e
  BY <1>0, <1>3, <1>9, <1>10, SystemIs
<1>12. /\ SystemOK(t) /\ t.q = q
       /\ t.e.current = s.e.current /\ t.e.xfade = s.e.xfade
       /\ t.e.result = s.e.result /\ t.e.pumping = s.e.pumping
  BY <1>1, <1>11, PreloadOK
<1>13. PICK l \in [Entries -> Nat \cup {Unknown}] : t.p = [y EXCEPT !.lengths = l]
  <2>1. \E l \in [Entries -> Nat \cup {Unknown}] :
          Preload(ready).p = [ready.p EXCEPT !.lengths = l]
    BY <1>11, PreloadOK
  <2> HIDE DEF t
  <2> QED
    BY <1>1, <1>11, <2>1
<1>14. t.p.current = xf.target /\ Alike(t.p, [s.p EXCEPT !.current = xf.target])
  BY <1>10, <1>13 DEF PlayerType, Alike
<1> QED
  BY <1>3, <1>12, <1>14

(* The race at the end of the track corrects lengths only. *)
LEMMA RaceOK ==
  ASSUME NEW s, SystemOK(s), NEW race \in RaceType
  PROVE  LET t == finish_eos_race(s, race)
         IN  SystemOK(t) /\ t.q = s.q /\ t.e = s.e /\ Alike(t.p, s.p)
<1> DEFINE l   == [s.p.lengths EXCEPT ![race.item] = Minus(race.raw_len, race.remaining)]
           x   == [s.p EXCEPT !.lengths = l]
           cut == [s EXCEPT !.p = x]
           y   == [x EXCEPT !.track_start = offset(cut, s.q.index)]
           t   == finish_eos_race(s, race)
<1>0. /\ s = [q |-> s.q, p |-> s.p, e |-> s.e] /\ QueueOK(s.q) /\ s.p \in PlayerType
      /\ EngineOK(s.e)
  BY DEF SystemOK
<1>1. CASE race.item = NoEntry \/ race.raw_len = 0
  BY <1>1 DEF finish_eos_race, Alike
<1>2. CASE ~(race.item = NoEntry \/ race.raw_len = 0)
  <2>1. race.item \in Entries /\ Minus(race.raw_len, race.remaining) \in Nat
    BY <1>2, LeastMinus DEF RaceType, Maybe
  <2>2. l \in [Entries -> Nat \cup {Unknown}]
    BY <1>0, <2>1 DEF PlayerType
  <2> DEFINE cut0 == [s EXCEPT !.p.lengths[race.item] = Minus(race.raw_len, race.remaining)]
  <2>3. cut0 = cut
    BY <1>0
  <2>4. t = [cut0 EXCEPT !.p.track_start = offset(cut0, cut0.q.index)]
    BY <1>2 DEF finish_eos_race
  <2> HIDE DEF l
  <2>5. x \in PlayerType /\ Alike(x, s.p)
    BY <1>0, <2>2 DEF PlayerType, Alike
  <2> HIDE DEF x, cut0
  <2>6. cut = [q |-> s.q, p |-> x, e |-> s.e] /\ cut.q = s.q /\ cut.p = x
    BY <1>0, SystemEdits
  <2> HIDE DEF cut
  <2>7. offset(cut, s.q.index) \in Nat
    BY <1>0, <2>5, <2>6, OffsetNat DEF PlayerType, LengthsOK
  <2> DEFINE o == offset(cut, s.q.index)
  <2> HIDE DEF o
  <2>8. t = [cut EXCEPT !.p = [x EXCEPT !.track_start = o]]
    BY <2>3, <2>4, <2>6 DEF o
  <2>9. [x EXCEPT !.track_start = o] \in PlayerType /\ Alike([x EXCEPT !.track_start = o], s.p)
    BY <2>5, <2>7 DEF PlayerType, Alike, o
  <2> DEFINE z == [x EXCEPT !.track_start = o]
  <2> HIDE DEF z
  <2>10. t = [q |-> s.q, p |-> z, e |-> s.e]
    BY <2>6, <2>8 DEF z
  <2> HIDE DEF t
  <2>11. SystemOK(t) /\ t.q = s.q /\ t.p = z /\ t.e = s.e
    BY <1>0, <2>9, <2>10, SystemIs DEF z
  <2> QED
    BY <2>9, <2>11 DEF z, t
<1> QED
  BY <1>1, <1>2

\* The result of a fade has been taken from the engine, and not yet applied.
Taken(s) ==
  /\ s.p.in_progress /\ s.p.attached /\ Seated(s.q)
  /\ s.p.xfade.fresh /\ Occurrences(s.q, s.p.xfade.target) # {}
  /\ ~crossfade_pending(s.e) /\ s.e.result = NoResult
  /\ HasSession(s.e) /\ s.e.current.item = s.p.xfade.target

(* A completed fade: if its result was waiting the player is calm again. *)
LEMMA on_crossfade_completeKeeps ==
  ASSUME NEW s, Good(s), NEW overlap \in Nat
  PROVE  LET t == on_crossfade_complete(s, overlap)
         IN  /\ Moves(s, t)
             /\ Taken(s) => Calm(t)
<1> DEFINE u == apply_crossfade_result(s, overlap)
           v == finish_eos_race(u, s.p.xfade.race)
           w == IF CanApply(s) THEN v ELSE s
           x == [w.p EXCEPT !.xfade = NoXfade, !.in_progress = FALSE]
           t == on_crossfade_complete(s, overlap)
<1>0. /\ s = [q |-> s.q, p |-> s.p, e |-> s.e] /\ QueueOK(s.q) /\ s.p \in PlayerType
      /\ EngineOK(s.e) /\ s.p.xfade.race \in RaceType /\ SystemOK(s)
  BY DEF Good, SystemOK, PlayerType, XfadeType, RaceType
<1>1. CASE s.p.xfade = NoXfade
  <2>1. t = s /\ ~s.p.xfade.fresh
    BY <1>1 DEF on_crossfade_complete, NoXfade
  <2> QED
    BY <2>1 DEF Moves, Taken
<1>2. CASE s.p.xfade # NoXfade
  <2>1. /\ SystemOK(w) /\ (Seated(s.q) => Seated(w.q))
        /\ w.p.state = s.p.state /\ w.p.attached = s.p.attached
        /\ w.p.pause_intent = s.p.pause_intent /\ w.p.crossfade = s.p.crossfade
        /\ CanApply(s) => w.p.current = s.p.xfade.target
        /\ w.e.current = s.e.current /\ w.e.xfade = s.e.xfade
        /\ w.e.result = s.e.result /\ w.e.pumping = s.e.pumping
    <3>1. CASE ~CanApply(s)
      BY <1>0, <3>1
    <3>2. CASE CanApply(s)
      <4>1. /\ SystemOK(u) /\ (Seated(s.q) => Seated(u.q))
            /\ u.p.current = s.p.xfade.target
            /\ Alike(u.p, [s.p EXCEPT !.current = s.p.xfade.target])
            /\ u.e.current = s.e.current /\ u.e.xfade = s.e.xfade
            /\ u.e.result = s.e.result /\ u.e.pumping = s.e.pumping
        BY <1>0, <3>2, ApplyOK
      <4> HIDE DEF u
      <4>2. SystemOK(v) /\ v.q = u.q /\ v.e = u.e /\ Alike(v.p, u.p)
        BY <1>0, <4>1, RaceOK
      <4> HIDE DEF v
      <4>3. w = v
        BY <3>2
      <4> QED
        BY <1>0, <4>1, <4>2, <4>3 DEF Alike, PlayerType
    <3> QED
      BY <3>1, <3>2
  <2>2. t = [w EXCEPT !.p.xfade = NoXfade, !.p.in_progress = FALSE]
    BY <1>2 DEF on_crossfade_complete
  <2> HIDE DEF w
  <2>3. /\ w = [q |-> w.q, p |-> w.p, e |-> w.e] /\ QueueOK(w.q) /\ w.p \in PlayerType
        /\ EngineOK(w.e)
    BY <2>1 DEF SystemOK
  <2>4. t = [w EXCEPT !.p = x]
    BY <2>2, <2>3
  <2>5. /\ x \in PlayerType /\ x.state = w.p.state /\ x.attached = w.p.attached
        /\ x.pause_intent = w.p.pause_intent /\ x.crossfade = w.p.crossfade
        /\ x.current = w.p.current /\ x.xfade = NoXfade /\ x.in_progress = FALSE
    <3>1. NoXfade \in XfadeType
      BY DEF NoXfade, XfadeType, Maybe, NoRace
    <3> QED
      BY <2>3, <3>1 DEF PlayerType
  <2> HIDE DEF x, t
  <2>6. SystemOK(t) /\ t.q = w.q /\ t.p = x /\ t.e = w.e
    BY <2>3, <2>4, <2>5, SystemEdits, SystemIs
  <2>7. Good(t) /\ (Ready(s) => Ready(t))
    BY <2>1, <2>5, <2>6 DEF Good, Hushed, Ready, crossfade_pending
  <2>8. ~Calm(s)
    BY <1>2 DEF Calm
  <2>9. Taken(s) => Calm(t)
    BY <2>1, <2>5, <2>6 DEF Taken, Calm, CanApply, crossfade_pending, HasSession
  <2> QED
    BY <2>7, <2>8, <2>9 DEF Moves, t
<1> QED
  BY <1>1, <1>2

-----------------------------------------------------------------------------
(***************************************************************************)
(* The tick: the cursor catches up with the clock, the end of playback is  *)
(* noticed, and a fade may begin.                                          *)
(***************************************************************************)
LEMMA FadeSteps ==
  ASSUME NEW s, Good(s), CanFade(s), NEW overlap \in Nat, NEW race \in RaceType,
         s.p.crossfade > 0, overlap <= s.p.crossfade
  PROVE  LET t == begin_crossfade_transition(s, overlap, race)
         IN  Steps(s, t) /\ t.e.current = s.e.current
<1> DEFINE t == begin_crossfade_transition(s, overlap, race)
<1>1. /\ Good(t) /\ (Calm(s) => Fading(t)) /\ (Ready(s) => Ready(t))
      /\ t.e.current = s.e.current
  BY BeginKeeps
<1>2. ~Fading(s)
  BY DEF Fading, CanFade, CanCrossfade
<1> HIDE DEF t
<1>3. Steps(s, t)
  BY <1>1, <1>2 DEF Steps, Linked
<1> QED
  BY <1>1, <1>3 DEF t

(* The fade of a track is armed once. *)
LEMMA ArmedSteps ==
  ASSUME NEW s, Good(s)
  PROVE  /\ Steps(s, [s EXCEPT !.p.armed = TRUE])
         /\ [s EXCEPT !.p.armed = TRUE].p.crossfade = s.p.crossfade
         /\ [s EXCEPT !.p.armed = TRUE].e = s.e
<1> DEFINE x == [s.p EXCEPT !.armed = TRUE]
<1>0. /\ s = [q |-> s.q, p |-> s.p, e |-> s.e] /\ QueueOK(s.q) /\ s.p \in PlayerType
  BY DEF Good, SystemOK
<1>1. x \in PlayerType /\ Alike(x, s.p)
  BY <1>0 DEF PlayerType, Alike
<1>2. [s EXCEPT !.p.armed = TRUE] = [s EXCEPT !.p = x]
  OBVIOUS
<1> HIDE DEF x
<1>3. [s EXCEPT !.p = x] = [q |-> s.q, p |-> x, e |-> s.e]
  BY <1>0, SystemEdits
<1>4. Steps(s, [q |-> s.q, p |-> x, e |-> s.e])
  BY <1>0, <1>1, AlikeSteps
<1> QED
  BY <1>1, <1>2, <1>3, <1>4 DEF Alike

(* The catch-up moves the cursor only. *)
LEMMA CatchUpSteps ==
  ASSUME NEW s, Good(s), NEW pos
  PROVE  /\ Steps(s, CatchUp(s, pos))
         /\ CatchUp(s, pos).p = s.p /\ CatchUp(s, pos).e = s.e
<1> DEFINE target == Least(current_index_at(s, pos), s.q.index + 1)
           t == [s EXCEPT !.q = move_to(s.q, target)]
<1>1. CatchUp(s, pos) = s \/ (~s.p.in_progress /\ CatchUp(s, pos) = t)
  BY DEF CatchUp
<1>2. QueueOK(move_to(s.q, target)) /\ (Seated(s.q) => Seated(move_to(s.q, target)))
  BY MoveToOK DEF Good, SystemOK
<1>3. Moves(s, t) /\ t.p = s.p /\ t.e = s.e
  BY <1>2, QueueMoves
<1> HIDE DEF t
<1>4. Steps(s, s)
  BY DEF Steps
<1> QED
  BY <1>1, <1>3, <1>4, MovesStep

(* A tick: catch-up, position, end of playback, and perhaps a fade. *)
LEMMA on_tickSteps ==
  ASSUME NEW s, Good(s)
  PROVE  Steps(s, on_tick(s)) /\ on_tick(s).e.current = s.e.current
<1> DEFINE pos   == album_position(s)
           idx   == current_index_at(s, pos)
           moved == CatchUp(s, pos)
           ended == HasEnded(s, pos, total_length(s))
           start == offset(s, idx)
           x == [s.p EXCEPT !.check = NoCheck, !.position = pos, !.track_start = start,
                            !.state = IF ended THEN "ended" ELSE @,
                            !.pending_ended = @ /\ ~ended]
           y == IF ended THEN pause_pumping(s.e) ELSE s.e
           shown == [moved EXCEPT !.p = x, !.e = y]
           armed == [shown EXCEPT !.p.armed = TRUE]
<1>0. /\ s = [q |-> s.q, p |-> s.p, e |-> s.e] /\ QueueOK(s.q) /\ s.p \in PlayerType
      /\ EngineOK(s.e)
  BY DEF Good, SystemOK
<1>1. pos \in Nat /\ start \in Nat
  BY <1>0, ClockNat, OffsetNat DEF PlayerType, LengthsOK
<1>2. Steps(s, moved) /\ moved.p = s.p /\ moved.e = s.e
  BY CatchUpSteps
<1>3. \/ on_tick(s) = s
      \/ on_tick(s) = shown
      \/ on_tick(s) = armed
      \/ /\ shown.p.crossfade > 0 /\ CanFade(armed)
         /\ on_tick(s) = begin_crossfade_transition(armed, s.p.crossfade, NoRace)
  <2> DEFINE shown0 == [moved EXCEPT !.p = x, !.e = IF ended THEN pause_pumping(@) ELSE @]
             armed0 == [shown0 EXCEPT !.p.armed = TRUE]
  <2>1. \/ on_tick(s) = s
        \/ on_tick(s) = shown0
        \/ on_tick(s) = armed0
        \/ /\ shown0.p.crossfade > 0 /\ CanFade(armed0)
           /\ on_tick(s) = begin_crossfade_transition(armed0, s.p.crossfade, NoRace)
    BY DEF on_tick, ShouldFade
  <2>2. shown0 = shown
    <3> DEFINE m == [moved EXCEPT !.p = x]
    <3>1. m.e = s.e
      <4> HIDE DEF x, moved
      <4>1. moved = [q |-> moved.q, p |-> moved.p, e |-> moved.e]
        BY <1>2 DEF Steps, Good, SystemOK
      <4>2. m = [q |-> moved.q, p |-> x, e |-> moved.e]
        BY <4>1, SystemEdits
      <4> QED
        BY <4>2, <1>2
    <3>2. /\ shown0 = [m EXCEPT !.e = IF ended THEN pause_pumping(@) ELSE @]
          /\ shown = [m EXCEPT !.e = y]
      OBVIOUS
    <3> HIDE DEF m, shown0, shown, x, moved, ended
    <3>3. [m EXCEPT !.e = IF ended THEN pause_pumping(@) ELSE @] = [m EXCEPT !.e = y]
      BY <3>1
    <3> QED
      BY <3>2, <3>3
  <2> HIDE DEF shown, shown0
  <2> QED
    BY <2>1, <2>2
<1> HIDE DEF pos, start, ended, moved
<1>4. /\ x \in PlayerType /\ x.state = IF ended THEN "ended" ELSE s.p.state
      /\ x.current = s.p.current /\ x.attached = s.p.attached
      /\ x.pause_intent = s.p.pause_intent /\ x.crossfade = s.p.crossfade
      /\ x.in_progress = s.p.in_progress /\ x.xfade = s.p.xfade
  <2>1. NoCheck \in [idx : Nat \cup {-1}, fresh : BOOLEAN]
    BY DEF NoCheck
  <2>2. (s.p.pending_ended /\ ~ended) \in BOOLEAN
    OBVIOUS
  <2>3. (IF ended THEN "ended" ELSE s.p.state) \in States
    BY <1>0 DEF PlayerType, States
  <2> DEFINE st == IF ended THEN "ended" ELSE s.p.state
             pe == s.p.pending_ended /\ ~ended
             z  == [s.p EXCEPT !.check = NoCheck, !.position = pos, !.track_start = start,
                               !.state = st, !.pending_ended = pe]
  <2>4. x = z
    BY <1>0
  <2> HIDE DEF x, st, pe
  <2>5. /\ z \in PlayerType /\ z.state = st
        /\ z.current = s.p.current /\ z.attached = s.p.attached
        /\ z.pause_intent = s.p.pause_intent /\ z.crossfade = s.p.crossfade
        /\ z.in_progress = s.p.in_progress /\ z.xfade = s.p.xfade
    BY <1>0, <1>1, <2>1, <2>2, <2>3 DEF PlayerType, st, pe
  <2> QED
    BY <2>4, <2>5 DEF st
<1>5. /\ EngineOK(y) /\ y.current = s.e.current /\ y.xfade = s.e.xfade
      /\ y.result = s.e.result /\ (~s.e.pumping => ~y.pumping)
  BY <1>0, PumpingOK
<1> HIDE DEF x, y
<1>6. SystemOK(shown) /\ shown.q = moved.q /\ shown.p = x /\ shown.e = y
  <2>1. moved = [q |-> moved.q, p |-> moved.p, e |-> moved.e] /\ QueueOK(moved.q)
    BY <1>2 DEF Steps, Good, SystemOK
  <2>2. shown = [q |-> moved.q, p |-> x, e |-> y]
    BY <2>1, EditPlayerEngine
  <2> HIDE DEF shown
  <2> QED
    BY <1>4, <1>5, <2>1, <2>2, SystemIs
<1> HIDE DEF shown
<1>7. Steps(moved, shown)
  <2>1. Good(shown) /\ (Ready(moved) => Ready(shown))
    BY <1>2, <1>4, <1>5, <1>6 DEF Good, Hushed, Ready, Steps, crossfade_pending
  <2>2. (Calm(moved) => Calm(shown)) /\ (Fading(moved) => Fading(shown))
    BY <1>2, <1>4, <1>5, <1>6 DEF Calm, Fading, crossfade_pending, HasSession
  <2> QED
    BY <2>1, <2>2 DEF Steps, Linked
<1>8. Steps(s, shown)
  BY <1>2, <1>7, StepsOn
<1>9. /\ Steps(s, armed) /\ armed.p.crossfade = s.p.crossfade
      /\ armed.e.current = s.e.current
  <2>1. Steps(shown, armed) /\ armed.p.crossfade = shown.p.crossfade /\ armed.e = shown.e
    BY <1>7, ArmedSteps DEF Steps
  <2> HIDE DEF armed
  <2> QED
    BY <1>4, <1>5, <1>6, <1>8, <2>1, StepsOn
<1> HIDE DEF armed
<1> DEFINE faded == begin_crossfade_transition(armed, s.p.crossfade, NoRace)
<1>10. shown.p.crossfade > 0 /\ CanFade(armed)
       => Steps(s, faded) /\ faded.e.current = s.e.current
  <2>1. NoRace \in RaceType /\ s.p.crossfade \in Nat
    BY <1>0 DEF NoRace, RaceType, Maybe, PlayerType
  <2>2. ASSUME shown.p.crossfade > 0, CanFade(armed)
        PROVE  Steps(armed, faded) /\ faded.e.current = armed.e.current
    BY <1>4, <1>6, <1>9, <2>1, <2>2, FadeSteps DEF Steps
  <2> HIDE DEF faded
  <2> QED
    BY <1>9, <2>2, StepsOn
<1>11. Steps(s, s)
  BY DEF Steps
<1> QED
  BY <1>3, <1>5, <1>6, <1>8, <1>9, <1>10, <1>11

-----------------------------------------------------------------------------
(***************************************************************************)
(* The end of a track.                                                     *)
(***************************************************************************)
LEMMA NoCurrentNoTarget ==
  ASSUME NEW q, QueueOK(q), Seated(q), current(q) = NoEntry, NEW i
  PROVE  peek_preload_target(q, i) = NoEntry
<1>1. Length(q) = Len(q.items) /\ Len(q.items) \in Nat /\ q.index \in -1..(Length(q) - 1)
      /\ q.items \in Seq(Entries)
  BY LenProperties DEF QueueOK, Sketch, IndexOK, Length
<1>2. Length(q) = 0
  <2>1. SUFFICES ASSUME Length(q) > 0 PROVE FALSE
    BY <1>1
  <2>2. q.index \in 0..(Length(q) - 1) /\ q.index + 1 \in 1..Len(q.items)
    BY <1>1, <2>1 DEF Seated
  <2>3. q.items[q.index + 1] \in Entries
    BY <1>1, <2>2, ElementOfSeq
  <2>4. current(q) = q.items[q.index + 1]
    BY <2>2 DEF current, at
  <2> QED
    BY <2>3, <2>4, EntriesAssumption
<1>3. \A j : at(q, j) = NoEntry
  BY <1>2 DEF at
<1> QED
  BY <1>3 DEF peek_preload_target

(* The standby session takes over while the player moves to its entry. *)
LEMMA PromotedKeeps ==
  ASSUME NEW s, Good(s), s.p.attached, ~s.p.pause_intent, NEW item \in Entries
  PROVE  /\ Good(Promoted(s, item)) /\ (Ready(s) => Ready(Promoted(s, item)))
         /\ Still(s) /\ ~crossfade_pending(s.e) /\ s.e.result = NoResult
            /\ s.e.current.item = item => Calm(Promoted(s, item))
<1> DEFINE l     == Learn(s.p, item)
           learnt == [s EXCEPT !.p = l]
           start == offset(learnt, s.q.index)
           x     == [l EXCEPT !.track_start = start]
           ready == [s EXCEPT !.p = x]
           primed == Preload(ready)
           y     == [primed.p EXCEPT !.current = item, !.state = "playing"]
           z     == start_pumping(primed.e)
           t     == Promoted(s, item)
<1>0. /\ s = [q |-> s.q, p |-> s.p, e |-> s.e] /\ QueueOK(s.q) /\ s.p \in PlayerType
      /\ EngineOK(s.e)
  BY DEF Good, SystemOK
<1>1. l \in PlayerType /\ Alike(l, s.p)
  <2>1. PICK m \in [Entries -> Nat \cup {Unknown}] : l = [s.p EXCEPT !.lengths = m]
    BY <1>0, LearnOK
  <2> QED
    BY <1>0, <2>1 DEF PlayerType, Alike
<1>2. [learnt EXCEPT !.p.track_start = start] = ready
  BY <1>0
<1>3. t = [primed EXCEPT !.p.current = item, !.p.state = "playing", !.e = start_pumping(@)]
  <2> DEFINE p0 == Preload([learnt EXCEPT !.p.track_start = start])
  <2>1. t = [p0 EXCEPT !.p.current = item, !.p.state = "playing", !.e = start_pumping(@)]
    BY DEF Promoted
  <2>2. p0 = primed
    BY <1>2
  <2> HIDE DEF p0, primed
  <2> QED
    BY <2>1, <2>2
<1>4. start \in Nat
  <2> HIDE DEF l
  <2>1. learnt.q = s.q /\ learnt.p = l
    BY <1>0
  <2> HIDE DEF learnt
  <2> QED
    BY <1>0, <1>1, <2>1, OffsetNat DEF PlayerType, LengthsOK
<1> HIDE DEF l, start
<1>5. x \in PlayerType /\ Alike(x, s.p)
  BY <1>1, <1>4 DEF PlayerType, Alike
<1> HIDE DEF x
<1>6. SystemOK(ready) /\ ready.q = s.q /\ ready.p = x /\ ready.e = s.e
  BY <1>0, <1>5, SystemEdits, SystemIs
<1> HIDE DEF ready
<1>7. /\ SystemOK(primed) /\ primed.q = s.q
      /\ primed.e.current = s.e.current /\ primed.e.xfade = s.e.xfade
      /\ primed.e.result = s.e.result
  BY <1>6, PreloadOK
<1>8. Alike(primed.p, s.p)
  <2>1. \E m \in [Entries -> Nat \cup {Unknown}] : primed.p = [ready.p EXCEPT !.lengths = m]
    BY <1>6, PreloadOK
  <2> HIDE DEF primed
  <2> QED
    BY <1>5, <1>6, <2>1 DEF Alike, PlayerType
<1> HIDE DEF primed
<1>9. /\ primed = [q |-> primed.q, p |-> primed.p, e |-> primed.e]
      /\ primed.p \in PlayerType /\ EngineOK(primed.e)
  BY <1>7 DEF SystemOK
<1>10. t = [primed EXCEPT !.p = y, !.e = z]
  BY <1>3, <1>9
<1>11. /\ y \in PlayerType /\ y.state = "playing" /\ y.current = item
       /\ y.attached /\ ~y.pause_intent /\ y.crossfade = s.p.crossfade
       /\ y.in_progress = s.p.in_progress /\ y.xfade = s.p.xfade
  BY <1>8, <1>9 DEF PlayerType, States, Maybe, Alike
<1>12. EngineOK(z) /\ z.current = s.e.current /\ z.xfade = s.e.xfade /\ z.result = s.e.result
  BY <1>7, <1>9, PumpingOK
<1> HIDE DEF y, z, t
<1>13. SystemOK(t) /\ t.q = s.q /\ t.p = y /\ t.e = z
  <2>1. t = [q |-> primed.q, p |-> y, e |-> z]
    BY <1>9, <1>10, EditPlayerEngine
  <2> QED
    BY <1>0, <1>7, <1>11, <1>12, <2>1, SystemIs
<1>14. Good(t) /\ (Ready(s) => Ready(t))
  BY <1>11, <1>12, <1>13 DEF Good, Hushed, Ready, crossfade_pending
<1>15. Still(s) /\ ~crossfade_pending(s.e) /\ s.e.result = NoResult
       /\ s.e.current.item = item => Calm(t)
  BY <1>11, <1>12, <1>13 DEF Still, Calm, crossfade_pending
<1> QED
  BY <1>14, <1>15 DEF t

(* The standby session is swapped in if it is the one that was expected. *)
LEMMA AdvancedKeeps ==
  ASSUME NEW s, Good(s), NEW expected
  PROVE  LET a == [s EXCEPT !.e = IF PreloadNext THEN advance(@, expected) ELSE @]
         IN  /\ Moves(s, a) \/ (PreloadNext /\ CanAdvance(s.e, expected))
             /\ Good(a) /\ (Ready(s) => Ready(a)) /\ a.q = s.q /\ a.p = s.p
             /\ a.e.xfade = s.e.xfade /\ a.e.result = s.e.result
             /\ PreloadNext /\ CanAdvance(s.e, expected) => a.e.current.item = expected
<1> DEFINE y == IF PreloadNext THEN advance(s.e, expected) ELSE s.e
           a == [s EXCEPT !.e = y]
<1>0. /\ s = [q |-> s.q, p |-> s.p, e |-> s.e] /\ QueueOK(s.q) /\ s.p \in PlayerType
      /\ EngineOK(s.e)
  BY DEF Good, SystemOK
<1>1. [s EXCEPT !.e = IF PreloadNext THEN advance(@, expected) ELSE @] = a
  BY <1>0
<1>2. /\ EngineOK(y) /\ y.xfade = s.e.xfade /\ y.result = s.e.result /\ y.pumping = s.e.pumping
      /\ y.current.item = IF PreloadNext /\ CanAdvance(s.e, expected)
                            THEN expected ELSE s.e.current.item
  BY <1>0, AdvanceOK
<1> HIDE DEF y, a
<1>3. SystemOK(a) /\ a.q = s.q /\ a.p = s.p /\ a.e = y
  BY <1>0, <1>2, SystemEdits, SystemIs DEF a
<1>4. Good(a) /\ (Ready(s) => Ready(a))
  BY <1>2, <1>3 DEF Good, Hushed, Ready, crossfade_pending
<1>5. ~(PreloadNext /\ CanAdvance(s.e, expected)) => (Calm(s) => Calm(a))
  BY <1>2, <1>3 DEF Calm, crossfade_pending, HasSession
<1>6. Moves(s, a) \/ (PreloadNext /\ CanAdvance(s.e, expected))
  BY <1>4, <1>5 DEF Moves
<1>7. PreloadNext /\ CanAdvance(s.e, expected) => a.e.current.item = expected
  BY <1>2, <1>3
<1> QED
  BY <1>1, <1>2, <1>3, <1>4, <1>6, <1>7

(* The end of the queue: decoding stops, the tick decides. *)
LEMMA EndingMoves ==
  ASSUME NEW s, Good(s), NEW q, QueueOK(q), Seated(s.q) => Seated(q)
  PROVE  LET t == [s EXCEPT !.q = q, !.p.pending_ended = TRUE, !.e = pause_pumping(@)]
         IN  Moves(s, t) /\ t.p.in_progress = s.p.in_progress
<1> DEFINE x == [s.p EXCEPT !.pending_ended = TRUE]
           y == pause_pumping(s.e)
           u == [q |-> q, p |-> x, e |-> y]
<1>0. /\ s = [q |-> s.q, p |-> s.p, e |-> s.e] /\ QueueOK(s.q) /\ s.p \in PlayerType
      /\ EngineOK(s.e)
  BY DEF Good, SystemOK
<1>1. [s EXCEPT !.q = q, !.p.pending_ended = TRUE, !.e = pause_pumping(@)] = u
  <2> DEFINE v == [s EXCEPT !.q = q]
             w == [v EXCEPT !.p.pending_ended = TRUE]
  <2>1. v = [q |-> q, p |-> s.p, e |-> s.e]
    BY <1>0, SystemEdits
  <2>2. [s EXCEPT !.q = q, !.p.pending_ended = TRUE, !.e = pause_pumping(@)]
        = [w EXCEPT !.e = pause_pumping(@)]
    OBVIOUS
  <2> HIDE DEF v
  <2>3. w = [v EXCEPT !.p = x]
    BY <2>1
  <2> HIDE DEF x, w
  <2>4. w = [q |-> q, p |-> x, e |-> s.e]
    BY <2>1, <2>3
  <2> QED
    BY <2>2, <2>4
<1>2. EngineOK(y) /\ ~y.pumping /\ y.current = s.e.current /\ y.xfade = s.e.xfade
      /\ y.result = s.e.result
  BY <1>0, PumpingOK
<1>3. x \in PlayerType /\ Alike(x, s.p)
  BY <1>0 DEF PlayerType, Alike
<1> HIDE DEF x, y
<1>4. SystemOK(u) /\ u.q = q /\ u.p = x /\ u.e = y
  BY <1>2, <1>3, SystemIs
<1> HIDE DEF u
<1>5. Moves(s, u)
  BY <1>2, <1>3, <1>4 DEF Moves, Good, Hushed, Ready, Calm, Alike, crossfade_pending, HasSession
<1> QED
  BY <1>1, <1>3, <1>4, <1>5 DEF Alike

(* The boundary itself: a load, a promotion or the end of the queue. *)
LEMMA BoundaryKeeps ==
  ASSUME NEW s, Good(s), s.p.attached, ~s.p.in_progress, ~s.p.pause_intent, NEW t \in Boundary(s)
  PROVE  Steps(s, t)
<1> DEFINE expected == peek_preload_target(s.q, s.q.index)
           a == [s EXCEPT !.e = IF PreloadNext THEN advance(@, expected) ELSE @]
           swapped == PreloadNext /\ CanAdvance(s.e, expected)
<1>0. QueueOK(s.q)
  BY DEF Good, SystemOK
<1>1. /\ Moves(s, a) \/ swapped
      /\ Good(a) /\ (Ready(s) => Ready(a)) /\ a.q = s.q /\ a.p = s.p
      /\ a.e.xfade = s.e.xfade /\ a.e.result = s.e.result
      /\ swapped => a.e.current.item = expected
  BY AdvancedKeeps
<1>2. /\ expected \in Maybe
      /\ swapped => expected # NoEntry
      /\ Seated(s.q) /\ current(s.q) = NoEntry => expected = NoEntry
  BY <1>0, TargetEntry, NoCurrentNoTarget DEF CanAdvance
<1>3. Linked(s) => Calm(s)
  BY DEF Linked, Fading
<1>4. Calm(s) => /\ Still(a) /\ ~crossfade_pending(a.e) /\ a.e.result = NoResult
                 /\ Seated(s.q)
  <2> HIDE DEF a
  <2> QED
    BY <1>1 DEF Calm, Still, crossfade_pending
<1>5. \/ s.q.repeat = "one" /\ t = load(a, 0)
      \/ \E r \in next(s.q) :
           \/ r.item = NoEntry
              /\ t = on_tick([a EXCEPT !.q = r.queue, !.p.pending_ended = TRUE,
                                       !.e = pause_pumping(@)])
           \/ r.item # NoEntry /\ swapped /\ r.item = expected
              /\ t = Promoted([a EXCEPT !.q = r.queue], r.item)
           \/ r.item # NoEntry /\ t = load([a EXCEPT !.q = r.queue], 0)
  <2> DEFINE R(r) == IF r.item = NoEntry
                       THEN on_tick([a EXCEPT !.q = r.queue, !.p.pending_ended = TRUE,
                                              !.e = pause_pumping(@)])
                       ELSE IF swapped /\ r.item = expected
                         THEN Promoted([a EXCEPT !.q = r.queue], r.item)
                         ELSE load([a EXCEPT !.q = r.queue], 0)
  <2>1. Boundary(s) = IF s.q.repeat = "one" THEN {load(a, 0)} ELSE {R(r) : r \in next(s.q)}
    BY DEF Boundary
  <2> HIDE DEF a, expected, swapped
  <2>2. CASE s.q.repeat = "one"
    BY <2>1, <2>2
  <2>3. CASE s.q.repeat # "one"
    <3>1. PICK r \in next(s.q) : t = R(r)
      BY <2>1, <2>3
    <3> QED
      BY <3>1
  <2> QED
    BY <2>2, <2>3
<1> HIDE DEF a, expected, swapped
<1>6. CASE t = load(a, 0)
  <2>1. Moves(a, t) /\ (Still(a) /\ current(a.q) # NoEntry => Calm(t))
    BY <1>1, <1>6, loadMoves
  <2>2. Good(t) /\ (Ready(s) => Ready(t))
    BY <1>1, <2>1 DEF Moves
  <2>3. Calm(s) => Calm(t)
    <3>1. CASE current(s.q) = NoEntry
      BY <1>1, <1>2, <1>4, <2>1, <3>1 DEF Moves
    <3>2. CASE current(s.q) # NoEntry
      BY <1>1, <1>4, <2>1, <3>2
    <3> QED
      BY <3>1, <3>2
  <2> QED
    BY <1>3, <2>2, <2>3 DEF Steps, Linked
<1>7. ASSUME NEW r \in next(s.q),
             \/ r.item = NoEntry
                /\ t = on_tick([a EXCEPT !.q = r.queue, !.p.pending_ended = TRUE,
                                         !.e = pause_pumping(@)])
             \/ r.item # NoEntry /\ swapped /\ r.item = expected
                /\ t = Promoted([a EXCEPT !.q = r.queue], r.item)
             \/ r.item # NoEntry /\ t = load([a EXCEPT !.q = r.queue], 0)
      PROVE  Steps(s, t)
  <2>1. /\ QueueOK(r.queue) /\ (Seated(s.q) => Seated(r.queue))
        /\ r.item # NoEntry => Seated(r.queue) /\ current(r.queue) = r.item
        /\ expected # NoEntry => r.item # NoEntry
    BY <1>0, NextOK, NextSeated DEF expected
  <2>2. CASE r.item = NoEntry
    <3> DEFINE b == [a EXCEPT !.q = r.queue, !.p.pending_ended = TRUE, !.e = pause_pumping(@)]
    <3>1. t = on_tick(b)
      BY <1>7, <2>2
    <3>2. Moves(a, b) /\ b.p.in_progress = a.p.in_progress
      BY <1>1, <2>1, EndingMoves
    <3> HIDE DEF b
    <3>3. Steps(b, t)
      BY <3>1, <3>2, on_tickSteps DEF Moves
    <3>4. Moves(s, a)
      BY <1>1, <1>2, <2>1, <2>2
    <3>5. Steps(s, b)
      BY <3>2, <3>4, MovesOn, MovesStep
    <3> QED
      BY <3>3, <3>5, StepsOn
  <2>3. CASE r.item # NoEntry
    <3> DEFINE c == [a EXCEPT !.q = r.queue]
    <3>1. Moves(a, c) /\ c.q = r.queue /\ c.p = a.p /\ c.e = a.e
      BY <1>1, <2>1, QueueMoves
    <3>2. t = load(c, 0) \/ (swapped /\ r.item = expected /\ t = Promoted(c, r.item))
      BY <1>7, <2>3
    <3> HIDE DEF c
    <3>3. Good(c) /\ (Ready(s) => Ready(c)) /\ (Calm(s) => Still(c))
      BY <1>1, <1>4, <2>1, <2>3, <3>1 DEF Moves, Still
    <3>4. CASE t = load(c, 0)
      <4>1. Moves(c, t) /\ (Still(c) /\ current(c.q) # NoEntry => Calm(t))
        BY <3>3, <3>4, loadMoves
      <4> QED
        BY <1>3, <2>1, <2>3, <3>1, <3>3, <4>1 DEF Steps, Moves, Linked
    <3>5. CASE swapped /\ r.item = expected /\ t = Promoted(c, r.item)
      <4>1. r.item \in Entries /\ c.p.attached /\ ~c.p.pause_intent
        BY <1>1, <1>2, <2>3, <3>1, <3>5 DEF Maybe
      <4>2. /\ Good(t) /\ (Ready(c) => Ready(t))
            /\ Still(c) /\ ~crossfade_pending(c.e) /\ c.e.result = NoResult
               /\ c.e.current.item = r.item => Calm(t)
        BY <3>3, <3>5, <4>1, PromotedKeeps
      <4>3. Calm(s) => Calm(t)
        BY <1>1, <1>4, <3>1, <3>3, <3>5, <4>2
      <4> QED
        BY <1>3, <3>3, <4>2, <4>3 DEF Steps, Linked
    <3> QED
      BY <3>2, <3>4, <3>5
  <2> QED
    BY <2>2, <2>3
<1> QED
  BY <1>5, <1>6, <1>7

(* The end of a track: a late fade, nothing, or the boundary. *)
LEMMA on_eosSteps ==
  ASSUME NEW s, Good(s), NEW t \in on_eos(s)
  PROVE  Steps(s, t)
<1>0. /\ QueueOK(s.q) /\ s.p \in PlayerType /\ EngineOK(s.e)
  BY DEF Good, SystemOK
<1>1. CASE t = s
  BY <1>1 DEF Steps
<1>2. CASE t = try_fade_at_eos(s) /\ CanFadeAtEos(s)
  <2> DEFINE rest == RemainingAtEos(s)
             len  == length_of(s, s.q.index)
             item == at(s.q, s.q.index)
             race == [item |-> item, raw_len |-> len, remaining |-> rest]
             overlap == Least(s.p.crossfade, rest)
  <2>1. rest \in Nat /\ len \in Nat /\ item \in Maybe
    <3>1. /\ offset(s, s.q.index) \in Nat /\ len \in Nat /\ item \in Maybe
          /\ album_position(s) \in Nat
      BY <1>0, OffsetNat, LengthNat, AtEntry, ClockNat DEF PlayerType, LengthsOK
    <3>2. offset(s, s.q.index) + len \in Nat
      BY <3>1
    <3>3. Minus(offset(s, s.q.index) + len, album_position(s)) \in Nat
      BY <3>1, <3>2, LeastMinus
    <3> QED
      BY <3>1, <3>3 DEF RemainingAtEos, track_remaining_samples
  <2>2. t = begin_crossfade_transition(s, overlap, race) /\ CanFade(s)
    BY <1>2 DEF try_fade_at_eos, CanFadeAtEos
  <2> HIDE DEF rest, len, item
  <2>3. race \in RaceType
    BY <2>1 DEF RaceType
  <2>4. overlap \in Nat /\ overlap <= s.p.crossfade
    BY <1>0, <2>1, LeastMinus DEF PlayerType
  <2> HIDE DEF race, overlap
  <2> QED
    BY <1>2, <2>2, <2>3, <2>4, FadeSteps DEF CanFadeAtEos
<1>3. CASE t \in Boundary(s) /\ s.p.attached /\ ~s.p.in_progress /\ ~s.p.pause_intent
  BY <1>3, BoundaryKeeps
<1> QED
  BY <1>1, <1>2, <1>3 DEF on_eos

-----------------------------------------------------------------------------
(***************************************************************************)
(* The device callback.                                                    *)
(***************************************************************************)
LEMMA ConsumedKeeps ==
  ASSUME NEW s, Good(s), NEW n \in Nat
  PROVE  LET t == [s EXCEPT !.e = consume(@, n)]
         IN  Good(t) /\ (Ready(s) => Ready(t)) /\ (Linked(s) => Linked(t) \/ Faded(t))
<1> DEFINE y == consume(s.e, n)
           t == [s EXCEPT !.e = y]
<1>0. /\ s = [q |-> s.q, p |-> s.p, e |-> s.e] /\ QueueOK(s.q) /\ s.p \in PlayerType
      /\ EngineOK(s.e)
  BY DEF Good, SystemOK
<1>1. [s EXCEPT !.e = consume(@, n)] = t
  BY <1>0
<1>2. /\ EngineOK(y) /\ y.pumping = s.e.pumping
      /\ \/ /\ y.current.item = s.e.current.item
            /\ y.xfade.incoming.item = s.e.xfade.incoming.item
            /\ y.result = s.e.result
            /\ Primed(s.e.xfade) => Primed(y.xfade)
         \/ /\ crossfade_pending(s.e)
            /\ y.current.item = s.e.xfade.incoming.item
            /\ y.xfade = NoFade
            /\ y.result \in Nat
  BY <1>0, ConsumeOK
<1> HIDE DEF y
<1>3. SystemOK(t) /\ t.q = s.q /\ t.p = s.p /\ t.e = y
  BY <1>0, <1>2, SystemEdits, SystemIs
<1> HIDE DEF t
<1>4. Good(t)
  BY <1>2, <1>3 DEF Good, Hushed
<1>5. ASSUME y.current.item = s.e.current.item,
             y.xfade.incoming.item = s.e.xfade.incoming.item,
             y.result = s.e.result,
             Primed(s.e.xfade) => Primed(y.xfade)
      PROVE  (Ready(s) => Ready(t)) /\ (Linked(s) => Linked(t) \/ Faded(t))
  <2>1. Ready(s) => Ready(t)
    BY <1>3, <1>5 DEF Ready, crossfade_pending
  <2>2. Linked(s) => Linked(t)
    BY <1>3, <1>5 DEF Linked, Calm, Fading, crossfade_pending, HasSession
  <2> QED
    BY <2>1, <2>2
<1>6. ASSUME crossfade_pending(s.e),
             y.current.item = s.e.xfade.incoming.item,
             y.xfade = NoFade,
             y.result \in Nat
      PROVE  (Ready(s) => Ready(t)) /\ (Linked(s) => Linked(t) \/ Faded(t))
  <2>1. ~crossfade_pending(y)
    BY <1>6, NothingFades
  <2>2. Ready(s) => Ready(t)
    BY <1>3, <2>1 DEF Ready
  <2>3. Fading(s) => Faded(t)
    <3>1. Fading(s) => s.p.xfade.target \in Entries
      BY <1>0, OccurrenceEntry DEF Fading
    <3> QED
      BY <1>3, <1>6, <2>1, <3>1, EntriesAssumption DEF Fading, Faded, HasSession
  <2> QED
    BY <1>6, <2>2, <2>3 DEF Linked, Calm
<1>7. Good(t) /\ (Ready(s) => Ready(t)) /\ (Linked(s) => Linked(t) \/ Faded(t))
  BY <1>2, <1>4, <1>5, <1>6
<1> QED
  BY <1>1, <1>7 DEF t

(* The result of a fade is fed back, in the same synchronisation it appeared
   in. *)
LEMMA SyncCrossfadeKeeps ==
  ASSUME NEW s, Good(s)
  PROVE  LET t == SyncCrossfade(s)
         IN  Good(t) /\ (Ready(s) => Ready(t)) /\ (Linked(s) \/ Faded(s) => Linked(t))
<1> DEFINE y == [s.e EXCEPT !.result = NoResult]
           u == [s EXCEPT !.e = y]
           t == SyncCrossfade(s)
<1>0. /\ s = [q |-> s.q, p |-> s.p, e |-> s.e] /\ QueueOK(s.q) /\ s.p \in PlayerType
      /\ EngineOK(s.e) /\ s.e.result \in Nat \cup {NoResult}
  BY DEF Good, SystemOK, EngineOK, EngineType
<1>1. CASE s.e.result = NoResult
  <2>1. t = s /\ ~Faded(s)
    BY <1>1 DEF SyncCrossfade, Faded, NoResult
  <2> QED
    BY <2>1
<1>2. CASE s.e.result # NoResult
  <2>1. t = on_crossfade_complete(u, s.e.result)
    BY <1>0, <1>2 DEF SyncCrossfade
  <2>2. /\ EngineOK(y) /\ y.result = NoResult /\ y.current = s.e.current
        /\ y.xfade = s.e.xfade /\ y.pumping = s.e.pumping
    BY <1>0, EngineEdits DEF EngineOK, EngineType
  <2> HIDE DEF y
  <2>3. SystemOK(u) /\ u.q = s.q /\ u.p = s.p /\ u.e = y
    BY <1>0, <2>2, SystemEdits, SystemIs
  <2> HIDE DEF u
  <2>4. Good(u) /\ (Ready(s) => Ready(u)) /\ (Faded(s) => Taken(u))
    BY <2>2, <2>3 DEF Good, Hushed, Ready, Faded, Taken, crossfade_pending, HasSession
  <2>5. Moves(u, t) /\ (Taken(u) => Calm(t))
    BY <1>0, <1>2, <2>1, <2>4, on_crossfade_completeKeeps
  <2>6. ~Linked(s)
    BY <1>2 DEF Linked, Calm, Fading
  <2> HIDE DEF t
  <2> QED
    BY <2>4, <2>5, <2>6 DEF Moves, Linked, t
<1> QED
  BY <1>1, <1>2

(* A decode error is fed back. *)
LEMMA SyncErrorSteps ==
  ASSUME NEW s, Good(s)
  PROVE  Steps(s, SyncError(s))
<1> DEFINE y == [s.e EXCEPT !.error = FALSE]
           u == [s EXCEPT !.e = y]
           t == SyncError(s)
<1>0. /\ s = [q |-> s.q, p |-> s.p, e |-> s.e] /\ QueueOK(s.q) /\ s.p \in PlayerType
      /\ EngineOK(s.e)
  BY DEF Good, SystemOK
<1>1. CASE ~s.e.error
  BY <1>1 DEF SyncError, Steps
<1>2. CASE s.e.error
  <2>1. t = fail(u)
    BY <1>0, <1>2 DEF SyncError
  <2>2. /\ EngineOK(y) /\ y.result = s.e.result /\ y.current = s.e.current
        /\ y.xfade = s.e.xfade /\ y.pumping = s.e.pumping
    BY <1>0, EngineEdits DEF EngineOK, EngineType
  <2> HIDE DEF y
  <2>3. SystemOK(u) /\ u.q = s.q /\ u.p = s.p /\ u.e = y
    BY <1>0, <2>2, SystemEdits, SystemIs
  <2> HIDE DEF u
  <2>4. (Ready(s) => Ready(u)) /\ (Calm(s) => Calm(u)) /\ (Fading(s) => Fading(u))
    BY <2>2, <2>3 DEF Ready, Calm, Fading, crossfade_pending, HasSession
  <2>5. Good(t) /\ (Ready(u) => Ready(t)) /\ (Calm(u) => Calm(t)) /\ (Fading(u) => Fading(t))
    BY <2>1, <2>3, failMoves
  <2> HIDE DEF t
  <2>6. Steps(s, t)
    BY <2>4, <2>5 DEF Steps, Linked
  <2> QED
    BY <2>6 DEF t
<1> QED
  BY <1>1, <1>2

(* A whole synchronisation: fade, error, end of track, tick. *)
LEMMA syncKeeps ==
  ASSUME NEW s, Good(s), NEW t \in sync(s)
  PROVE  Good(t) /\ (Ready(s) => Ready(t)) /\ (Linked(s) \/ Faded(s) => Linked(t))
<1> DEFINE u == SyncCrossfade(s)
           v == SyncError(u)
<1>1. Good(u) /\ (Ready(s) => Ready(u)) /\ (Linked(s) \/ Faded(s) => Linked(u))
  BY SyncCrossfadeKeeps
<1>2. PICK w \in BeforeTick(s) : t = on_tick(w)
  BY DEF sync
<1>3. w \in on_eos(v) \/ w = v
  BY <1>2 DEF BeforeTick
<1> HIDE DEF u
<1>4. Steps(u, v)
  BY <1>1, SyncErrorSteps
<1> HIDE DEF v
<1>5. Good(v)
  BY <1>4 DEF Steps
<1>6. Steps(v, w)
  BY <1>3, <1>5, on_eosSteps DEF Steps
<1>7. Good(w)
  BY <1>6 DEF Steps
<1>8. Steps(w, t)
  BY <1>2, <1>7, on_tickSteps
<1> QED
  BY <1>1, <1>4, <1>6, <1>8 DEF Steps

-----------------------------------------------------------------------------
(***************************************************************************)
(* The steps of the specification.                                         *)
(***************************************************************************)
LEMMA Becomes ==
  ASSUME NEW S, Become(S), \A t \in S : Good(t)
  PROVE  System' \in S
<1>1. PICK t \in S : queue' = t.q /\ player' = t.p /\ engine' = t.e
  BY DEF Become
<1>2. t = [q |-> t.q, p |-> t.p, e |-> t.e]
  BY DEF Good, SystemOK
<1>3. System' = t
  BY <1>1, <1>2 DEF System
<1> QED
  BY <1>3

(* The variables are the parts of the system. *)
LEMMA SystemParts ==
  System.q = queue /\ System.p = player /\ System.e = engine
  BY DEF System

(* What the device and its buffer do. *)
LEMMA HostSteps ==
  ASSUME Good(System), Render \/ Prime \/ Starve
  PROVE  Steps(System, System')
<1>1. CASE Render
  <2>1. PICK n \in Quanta : Become(sync([System EXCEPT !.e = consume(@, n)]))
    BY <1>1 DEF Render
  <2> DEFINE s == [System EXCEPT !.e = consume(@, n)]
             S == sync(s)
  <2>2. n \in Nat
    BY QuantaAssumption, RingAssumption
  <2>3. Good(s) /\ (Ready(System) => Ready(s)) /\ (Linked(System) => Linked(s) \/ Faded(s))
    BY <2>2, ConsumedKeeps
  <2>4. Become(S)
    BY <2>1
  <2> HIDE DEF s
  <2>5. \A t \in S : Good(t) /\ (Ready(s) => Ready(t)) /\ (Linked(s) \/ Faded(s) => Linked(t))
    BY <2>3, syncKeeps
  <2> HIDE DEF S
  <2>6. System' \in S
    BY <2>4, <2>5, Becomes
  <2> QED
    BY <2>3, <2>5, <2>6 DEF Steps
<1>2. CASE Prime
  <2>1. Steps(System, on_primed(System)) /\ Become({on_primed(System)})
    BY <1>2, on_primedSteps DEF Prime
  <2>2. System' \in {on_primed(System)}
    BY <2>1, Becomes DEF Steps
  <2> QED
    BY <2>1, <2>2
<1>3. CASE Starve
  <2>1. Steps(System, on_buffering(System)) /\ Become({on_buffering(System)})
    BY <1>3, on_bufferingSteps DEF Starve
  <2>2. System' \in {on_buffering(System)}
    BY <2>1, Becomes DEF Steps
  <2> QED
    BY <2>1, <2>2
<1> QED
  BY <1>1, <1>2, <1>3

(* The commands that leave a running fade alone, and a reload, which forgets
   it. *)
LEMMA AdjustSteps ==
  ASSUME Good(System), Adjust
  PROVE  Steps(System, System')
<1>1. CASE Pause
  <2>1. Steps(System, pause_inner(System)) /\ Become({pause_inner(System)})
    BY <1>1, pause_innerSteps DEF Pause
  <2>2. System' \in {pause_inner(System)}
    BY <2>1, Becomes DEF Steps
  <2> QED
    BY <2>1, <2>2
<1>2. CASE Resume
  <2>1. Steps(System, resume_inner(System)) /\ Become({resume_inner(System)})
    BY <1>2, resume_innerSteps DEF Resume
  <2>2. System' \in {resume_inner(System)}
    BY <2>1, Becomes DEF Steps
  <2> QED
    BY <2>1, <2>2
<1>3. CASE SetRepeat
  <2>1. PICK mode \in Modes : Become({[System EXCEPT !.q = set_repeat(@, mode)]})
    BY <1>3 DEF SetRepeat
  <2> DEFINE t == [System EXCEPT !.q = set_repeat(@, mode)]
  <2>2. Steps(System, t) /\ Become({t})
    BY <2>1, set_repeatSteps, ModesAssumption
  <2> HIDE DEF t
  <2>3. System' \in {t}
    BY <2>2, Becomes DEF Steps
  <2> QED
    BY <2>2, <2>3
<1>4. CASE SetShuffle
  <2>1. PICK on \in BOOLEAN : Become(PlayerSetShuffle(System, on))
    BY <1>4 DEF SetShuffle
  <2>2. \A t \in PlayerSetShuffle(System, on) : Steps(System, t)
    BY PlayerSetShuffleSteps
  <2>3. System' \in PlayerSetShuffle(System, on)
    BY <2>1, <2>2, Becomes DEF Steps
  <2> QED
    BY <2>2, <2>3
<1>5. CASE SetCrossfade
  <2>1. PICK f \in Fades : Become({[System EXCEPT !.p.crossfade = f]})
    BY <1>5 DEF SetCrossfade
  <2> DEFINE t == [System EXCEPT !.p.crossfade = f]
  <2>2. f \in Nat /\ Become({t})
    BY <2>1, FadesAssumption
  <2>3. /\ Good(t)
        /\ Ready(System) => Ready(t)
        /\ Linked(System) => Linked(t)
    BY <2>1, <2>2, SetCrossfadeKeeps
  <2> HIDE DEF t
  <2>4. System' \in {t}
    BY <2>2, <2>3, Becomes
  <2> QED
    BY <2>3, <2>4 DEF Steps
<1>6. CASE Reload
  <2> DEFINE S == restore([q |-> EmptyQueue, p |-> NewPlayer, e |-> ClosedEngine],
                          take_snapshot(System))
  <2>1. HasSnapshot(System) /\ Become(S)
    BY <1>6 DEF Reload
  <2>2. \A t \in S : Good(t) /\ (Ready(System) => Ready(t)) /\ Calm(t)
    BY <2>1, restoreKeeps
  <2> HIDE DEF S
  <2>3. System' \in S
    BY <2>1, <2>2, Becomes
  <2> QED
    BY <2>2, <2>3 DEF Steps, Linked
<1> QED
  BY <1>1, <1>2, <1>3, <1>4, <1>5, <1>6 DEF Adjust

(* An edit that leads to one of some well formed lists, *)
LEMMA EditMoves ==
  ASSUME Good(System), NEW Q, \A q \in Q : QueueOK(q) /\ (Seated(queue) => Seated(q)),
         Become(Edited(Q))
  PROVE  Moves(System, System')
<1>1. \A t \in Edited(Q) : Moves(System, t)
  BY EditedMoves, SystemParts DEF Edited
<1>2. System' \in Edited(Q)
  BY <1>1, Becomes DEF Moves
<1> QED
  BY <1>1, <1>2

(* ... and each edit does. *)
LEMMA EditQueueMoves ==
  ASSUME Good(System), EditQueue
  PROVE  Moves(System, System')
<1>1. QueueOK(queue)
  BY SystemParts DEF Good, SystemOK
<1>2. CASE \E i \in 0..(MaxItems - 1) : Become(Edited(remove_at(queue, i)))
  <2>1. PICK i \in 0..(MaxItems - 1) : Become(Edited(remove_at(queue, i)))
    BY <1>2
  <2>2. \A q \in remove_at(queue, i) : QueueOK(q) /\ (Seated(queue) => Seated(q))
    BY <1>1, RemoveOK, RemoveSeated
  <2> QED
    BY <2>1, <2>2, EditMoves
<1>3. CASE \E item \in Entries :
             Length(queue) < MaxItems /\ Become(Edited(play_next(queue, item)))
  <2>1. PICK item \in Entries : Become(Edited(play_next(queue, item)))
    BY <1>3
  <2>2. \A q \in play_next(queue, item) : QueueOK(q) /\ (Seated(queue) => Seated(q))
    BY <1>1, PlayNextOK, PlayNextSeated
  <2> QED
    BY <2>1, <2>2, EditMoves
<1>4. CASE \E i, j \in 0..(MaxItems - 1) : Become(Edited(move_item(queue, i, j)))
  <2>1. PICK i, j \in 0..(MaxItems - 1) : Become(Edited(move_item(queue, i, j)))
    BY <1>4
  <2>2. \A q \in move_item(queue, i, j) : QueueOK(q) /\ (Seated(queue) => Seated(q))
    BY <1>1, MoveItemOK, MoveItemSeated
  <2> QED
    BY <2>1, <2>2, EditMoves
<1>5. CASE Become(Edited({clear(queue)}))
  <2>1. \A q \in {clear(queue)} : QueueOK(q) /\ (Seated(queue) => Seated(q))
    BY <1>1, ClearOK, ClearSeated
  <2> QED
    BY <1>5, <2>1, EditMoves
<1> QED
  BY <1>2, <1>3, <1>4, <1>5 DEF EditQueue

(* A command that starts one of some well formed lists. *)
LEMMA StartedMoves ==
  ASSUME Good(System), NEW Q, \A q \in Q : QueueOK(q) /\ (Seated(queue) => Seated(q)),
         Become(Start(System, Q))
  PROVE  Moves(System, System')
<1>1. \A t \in Start(System, Q) : Moves(System, t)
  BY StartMoves, SystemParts
<1>2. System' \in Start(System, Q)
  BY <1>1, Becomes DEF Moves
<1> QED
  BY <1>1, <1>2

(* The commands that may supersede a fade. *)
LEMMA InterruptMoves ==
  ASSUME Good(System), Interrupt
  PROVE  Moves(System, System')
<1>1. QueueOK(queue)
  BY SystemParts DEF Good, SystemOK
<1>2. ASSUME NEW S, Become(S), \A t \in S : Moves(System, t)
      PROVE  Moves(System, System')
  <2>1. System' \in S
    BY <1>2, Becomes DEF Moves
  <2> QED
    BY <1>2, <2>1
<1>3. CASE PlaySequence
  <2>1. PICK items \in Playlists, start \in {0, 1} :
          Become(Start(System, play_sequence(queue, items, start)))
    BY <1>3 DEF PlaySequence
  <2>2. \A q \in play_sequence(queue, items, start) :
          QueueOK(q) /\ (Seated(queue) => Seated(q))
    BY <1>1, PlaylistsAssumption, PlayOK, PlaySeated
  <2> QED
    BY <2>1, <2>2, StartedMoves
<1>4. CASE PlayItem
  <2>1. PICK item \in Entries : Become(Start(System, play_now(queue, item)))
    BY <1>4 DEF PlayItem
  <2>2. \A q \in play_now(queue, item) : QueueOK(q) /\ (Seated(queue) => Seated(q))
    BY <1>1, PlayNowOK, PlayNowSeated
  <2> QED
    BY <2>1, <2>2, StartedMoves
<1>5. CASE PlayQueueIndex
  <2>1. PICK i \in 0..(MaxItems - 1) : Become(play_queue_index(System, i))
    BY <1>5 DEF PlayQueueIndex
  <2> QED
    BY <1>2, <2>1, play_queue_indexMoves
<1>6. CASE SkipNext
  BY <1>2, <1>6, PlayerNextMoves DEF SkipNext
<1>7. CASE SkipPrevious
  BY <1>2, <1>7, PlayerPreviousMoves DEF SkipPrevious
<1>8. CASE Seek
  <2>1. PICK pos \in SeekTargets : Become({seek_inner(System, pos)})
    BY <1>8 DEF Seek
  <2>2. \A t \in {seek_inner(System, pos)} : Moves(System, t)
    BY seek_innerMoves, TargetsAssumption
  <2> QED
    BY <1>2, <2>1, <2>2
<1>9. CASE Stop
  <2>1. \A t \in {stop_inner(System)} : Moves(System, t)
    BY stop_innerMoves
  <2> QED
    BY <1>2, <1>9, <2>1 DEF Stop
<1>10. CASE Teardown
  <2>1. \A t \in {teardown_inner(System)} : Moves(System, t)
    BY teardown_innerMoves
  <2> QED
    BY <1>2, <1>10, <2>1 DEF Teardown
<1>11. CASE TogglePlay
  <2>1. \A t \in {toggle_play_inner(System)} : Moves(System, t)
    BY toggle_play_innerMoves
  <2> QED
    BY <1>2, <1>11, <2>1 DEF TogglePlay
<1>12. CASE EditQueue
  BY <1>12, EditQueueMoves
<1> QED
  BY <1>3, <1>4, <1>5, <1>6, <1>7, <1>8, <1>9, <1>10, <1>11, <1>12 DEF Interrupt

(* What a step of the specification keeps. *)
LEMMA NextKeeps ==
  ASSUME Good(System), [Next]_vars
  PROVE  /\ Good(System')
         /\ Ready(System) => Ready(System')
         /\ Linked(System) /\ "midfade" \notin Commands => Linked(System')
<1>1. CASE UNCHANGED vars
  <2>1. System' = System
    BY <1>1 DEF vars, System
  <2> QED
    BY <2>1
<1>2. CASE Render \/ Prime \/ Starve
  BY <1>2, HostSteps DEF Steps
<1>3. CASE Adjust
  BY <1>3, AdjustSteps DEF Steps
<1>4. CASE Interrupt
  <2>1. Moves(System, System')
    BY <1>4, InterruptMoves
  <2>2. "midfade" \notin Commands => ~System.p.in_progress
    BY <1>4, SystemParts DEF Interrupt
  <2>3. "midfade" \notin Commands => Steps(System, System')
    BY <2>1, <2>2, MovesStep
  <2> QED
    BY <2>1, <2>3 DEF Moves, Steps
<1> QED
  BY <1>1, <1>2, <1>3, <1>4 DEF Next

(* The initial state is calm. *)
LEMMA InitKeeps ==
  ASSUME Init
  PROVE  Good(System) /\ Ready(System) /\ Calm(System)
<1>1. System = [q |-> EmptyQueue, p |-> NewPlayer, e |-> ClosedEngine]
  BY DEF Init, System
<1>2. NewPlayer \in PlayerType
  BY DEF NewPlayer, PlayerType, States, Maybe, XfadeType, NoXfade, NoRace, NoCheck, NoPlace,
         Unknown
<1>3. EngineOK(ClosedEngine)
  BY OpenedOK DEF EngineOK, EngineType, ClosedEngine, NoFade, NoSession, Session, SessionType,
                  SessionOK, Maybe, NoResult
<1>4. SystemOK(System)
  BY <1>1, <1>2, <1>3, EmptyOK, SystemIs
<1>5. System.q = EmptyQueue /\ System.p = NewPlayer /\ System.e = ClosedEngine
  BY <1>1
<1>6. ~crossfade_pending(ClosedEngine) /\ ~HasSession(ClosedEngine)
      /\ ClosedEngine.result = NoResult /\ ClosedEngine.pumping = FALSE
  BY DEF crossfade_pending, HasSession, ClosedEngine, NoFade, NoSession, Session
<1>7. Good(System)
  BY <1>4, <1>5, <1>6 DEF Good, Hushed, NewPlayer
<1>8. Ready(System)
  BY <1>5, <1>6, RingAssumption DEF Ready, NewPlayer
<1>9. Seated(EmptyQueue)
  BY DEF Seated, EmptyQueue, Length
<1>10. Calm(System)
  BY <1>5, <1>6, <1>9 DEF Calm, NewPlayer
<1> QED
  BY <1>7, <1>8, <1>10

-----------------------------------------------------------------------------
(* Every state is well formed, and silent where the user paused. *)
LEMMA GoodAlways == Spec => []Good(System)
<1>1. Init => Good(System)
  BY InitKeeps
<1>2. Good(System) /\ [Next]_vars => Good(System)'
  <2> SUFFICES ASSUME Good(System), [Next]_vars PROVE Good(System)'
    OBVIOUS
  <2>1. Good(System')
    BY NextKeeps
  <2> QED
    BY <2>1 DEF Good, SystemOK, Hushed
<1> QED
  BY <1>1, <1>2, PTL DEF Spec

(***************************************************************************)
(* Every part has its type in every reachable state: no saturating         *)
(* subtraction of seek_inner, load, track_remaining_samples,               *)
(* Mixer::swap_facts or DecodeSession goes below zero, and the cursor      *)
(* stays in the list.                                                      *)
(***************************************************************************)
THEOREM TypeCorrect == Spec => []TypeOK
<1>1. Good(System) => TypeOK
  BY SystemParts DEF Good, SystemOK, TypeOK, QueueOK, Sketch, EngineOK
<1> QED
  BY <1>1, GoodAlways, PTL

(***************************************************************************)
(* The pause sticks: whatever load, seek, prime, tick, fade or end of      *)
(* track comes while pause_intent is set, decoding stays off and the       *)
(* player is not audible (player.rs, wherever it asks pause_intent before  *)
(* start_pumping).                                                         *)
(***************************************************************************)
THEOREM PauseAlwaysHolds == Spec => []PauseHolds
<1>1. Good(System) => PauseHolds
  BY SystemParts DEF Good, Hushed, PauseHolds
<1> QED
  BY <1>1, GoodAlways, PTL

(***************************************************************************)
(* A lane handed to the mixer (DecoderEngine::begin_crossfade) lasts to    *)
(* the end of its window, or for as much of it as a ring can hold, or to   *)
(* the end of its track, whatever fades can be chosen.                     *)
(***************************************************************************)
THEOREM LanesAlwaysPrime == Spec => []LanesPrimeFully
<1> DEFINE Inv == Good(System) /\ Ready(System)
<1>1. Init => Inv
  BY InitKeeps
<1>2. Inv /\ [Next]_vars => Inv'
  <2> SUFFICES ASSUME Inv, [Next]_vars PROVE Inv'
    OBVIOUS
  <2>1. Good(System') /\ Ready(System')
    BY NextKeeps
  <2> QED
    BY <2>1 DEF Good, SystemOK, Hushed, Ready, crossfade_pending, Primed
<1>3. Inv => LanesPrimeFully
  BY SystemParts DEF Ready, Primed, LanesPrimeFully
<1> QED
  BY <1>1, <1>2, <1>3, PTL DEF Spec

(* Player and engine agree in every state. *)
LEMMA LinkedAlways ==
  ASSUME "midfade" \notin Commands
  PROVE  Spec => [](Good(System) /\ Linked(System))
<1> DEFINE Inv == Good(System) /\ Linked(System)
<1>1. Init => Inv
  BY InitKeeps DEF Linked
<1>2. Inv /\ [Next]_vars => Inv'
  <2> SUFFICES ASSUME Inv, [Next]_vars PROVE Inv'
    OBVIOUS
  <2>1. Good(System') /\ Linked(System')
    BY NextKeeps
  <2> QED
    BY <2>1
<1> QED
  BY <1>1, <1>2, PTL DEF Spec

(***************************************************************************)
(* Where no load, seek, stop or edit comes during a fade,                  *)
(* crossfade_in_progress is set exactly while the engine mixes, and for    *)
(* the target the player waits for: however ticks, ends of track, errors,  *)
(* pauses, shuffles and reloads interleave with the fade.                  *)
(***************************************************************************)
THEOREM FadesAlwaysAgree ==
  ASSUME "midfade" \notin Commands
  PROVE  Spec => []FadeHandshake
<1>1. Good(System) /\ Linked(System) => FadeHandshake
  BY SystemParts DEF Linked, Calm, Fading, FadeHandshake
<1> QED
  BY <1>1, LinkedAlways, PTL

(***************************************************************************)
(* Where no load, seek, stop or edit comes during a fade, the session that *)
(* plays is that of the item the player shows: through loads, promotions,  *)
(* fades, skips, seeks, edits, failed loads and restores.                  *)
(***************************************************************************)
THEOREM EngineAlwaysAgrees ==
  ASSUME "midfade" \notin Commands
  PROVE  Spec => []EngineAgrees
<1>1. Good(System) /\ Linked(System) => EngineAgrees
  BY SystemParts DEF Linked, Calm, Fading, EngineAgrees
<1> QED
  BY <1>1, LinkedAlways, PTL

-----------------------------------------------------------------------------
(***************************************************************************)
(* The album laid end to end: the first entry starts at zero, each of the  *)
(* others where the one before it ends.                                    *)
(***************************************************************************)
LEMMA OffsetStep ==
  ASSUME NEW s, QueueOK(s.q), LengthsOK(s.p.lengths)
  PROVE  /\ offset(s, 0) = 0
         /\ \A i \in Nat : i + 1 \in 0..(Length(s.q) - 1)
                           => offset(s, i + 1) = offset(s, i) + length_of(s, i)
<1> DEFINE n == Length(s.q)
           F(g) == [k \in 0..n |-> IF k = 0 THEN 0 ELSE g[k - 1] + length_of(s, k - 1)]
           f == [k \in 0..n |-> length_of(s, k)]
           G(g) == [k \in 0..n |-> IF k = 0 THEN 0 ELSE g[k - 1] + f[k - 1]]
           acc == CHOOSE g : g = F(g)
<1>1. n \in Nat /\ f \in [0..n -> Nat]
  BY AtEntry, LengthNat
<1>2. \A g : F(g) = G(g)
  BY <1>1
<1>3. \E g : g = F(g)
  <2> HIDE DEF n, f
  <2>1. PICK g : g = [k \in 0..n |-> IF k = 0 THEN 0 ELSE g[k - 1] + f[k - 1]]
    BY <1>1, SumsExist
  <2>2. g = G(g)
    BY <2>1
  <2> HIDE DEF F, G
  <2> QED
    BY <2>2, <1>2
<1>4. acc = F(acc)
  BY <1>3
<1>5. \A i : offset(s, i) = IF i \in 0..(n - 1) THEN acc[i] ELSE 0
  BY DEF offset
<1>6. \A k \in 0..n : acc[k] = IF k = 0 THEN 0 ELSE acc[k - 1] + length_of(s, k - 1)
  <2> HIDE DEF acc, n
  <2> QED
    BY <1>4
<1> HIDE DEF n, f, acc, F, G
<1>7. offset(s, 0) = 0
  <2>1. 0 \in 0..n
    BY <1>1
  <2>2. acc[0] = 0
    BY <1>6, <2>1
  <2> QED
    BY <1>5, <2>2
<1>8. ASSUME NEW i \in Nat, i + 1 \in 0..(n - 1)
      PROVE  offset(s, i + 1) = offset(s, i) + length_of(s, i)
  <2>1. /\ i \in 0..(n - 1) /\ i + 1 \in 0..n /\ i + 1 # 0 /\ (i + 1) - 1 = i
    BY <1>1, <1>8
  <2>2. acc[i + 1] = acc[i] + length_of(s, i)
    BY <1>6, <2>1
  <2> QED
    BY <1>5, <1>8, <2>1, <2>2
<1> QED
  BY <1>7, <1>8 DEF n

(* ... so later entries start later, *)
LEMMA OffsetGrows ==
  ASSUME NEW s, QueueOK(s.q), LengthsOK(s.p.lengths), NEW i \in 0..(Length(s.q) - 1),
         NEW j \in 0..(Length(s.q) - 1), i < j
  PROVE  offset(s, j) >= offset(s, i) + length_of(s, i)
<1> DEFINE n == Length(s.q)
           S == {k \in Nat : i + 1 + k \in 0..(n - 1)
                             => offset(s, i + 1 + k) >= offset(s, i) + length_of(s, i)}
<1>1. n \in Nat /\ \A k : offset(s, k) \in Nat /\ length_of(s, k) \in Nat
  BY AtEntry, OffsetNat, LengthNat
<1>2. \A k \in Nat : k + 1 \in 0..(n - 1) => offset(s, k + 1) = offset(s, k) + length_of(s, k)
  BY OffsetStep
<1> HIDE DEF n
<1>3. 0 \in S
  BY <1>1, <1>2
<1>4. ASSUME NEW k \in Nat, k \in S PROVE k + 1 \in S
  <2>1. SUFFICES ASSUME i + 1 + (k + 1) \in 0..(n - 1)
                 PROVE  offset(s, i + 1 + (k + 1)) >= offset(s, i) + length_of(s, i)
    OBVIOUS
  <2>2. /\ i + 1 + k \in Nat /\ i + 1 + k \in 0..(n - 1) /\ i + 1 + (k + 1) = (i + 1 + k) + 1
        /\ (i + 1 + k) + 1 \in 0..(n - 1)
    BY <1>1, <2>1
  <2>3. offset(s, i + 1 + k) >= offset(s, i) + length_of(s, i)
    BY <1>4, <2>2
  <2>4. offset(s, (i + 1 + k) + 1) = offset(s, i + 1 + k) + length_of(s, i + 1 + k)
    BY <1>2, <2>2
  <2> QED
    BY <1>1, <2>2, <2>3, <2>4
<1> HIDE DEF S
<1>5. Nat \subseteq S
  BY <1>3, <1>4, SuccessorsSuffice
<1>6. j - i - 1 \in Nat /\ i + 1 + (j - i - 1) = j
  BY <1>1
<1>7. j - i - 1 \in S
  BY <1>5, <1>6
<1> QED
  BY <1>6, <1>7 DEF S, n

(* ... and longer lengths move the entries after them. *)
LEMMA OffsetMonotone ==
  ASSUME NEW s, QueueOK(s.q), LengthsOK(s.p.lengths),
         NEW t, QueueOK(t.q), LengthsOK(t.p.lengths),
         Length(s.q) = Length(t.q), NEW i \in 0..(Length(s.q) - 1),
         \A k \in 0..(i - 1) : length_of(s, k) <= length_of(t, k)
  PROVE  offset(s, i) <= offset(t, i)
<1> DEFINE n == Length(s.q)
           S == {k \in Nat : k <= i => offset(s, k) <= offset(t, k)}
<1>1. n \in Nat /\ \A k : offset(s, k) \in Nat /\ length_of(s, k) \in Nat
      /\ offset(t, k) \in Nat /\ length_of(t, k) \in Nat
  BY AtEntry, OffsetNat, LengthNat
<1>2. /\ offset(s, 0) = 0 /\ offset(t, 0) = 0
      /\ \A k \in Nat : k + 1 \in 0..(n - 1) => offset(s, k + 1) = offset(s, k) + length_of(s, k)
      /\ \A k \in Nat : k + 1 \in 0..(n - 1) => offset(t, k + 1) = offset(t, k) + length_of(t, k)
  BY OffsetStep
<1>3. i \in 0..(n - 1)
  OBVIOUS
<1> HIDE DEF n
<1>4. 0 \in S
  BY <1>1, <1>2
<1>5. ASSUME NEW k \in Nat, k \in S PROVE k + 1 \in S
  <2>1. SUFFICES ASSUME k + 1 <= i PROVE offset(s, k + 1) <= offset(t, k + 1)
    OBVIOUS
  <2>2. k \in 0..(i - 1) /\ k + 1 \in 0..(n - 1)
    BY <1>1, <1>3, <2>1
  <2>3. offset(s, k) <= offset(t, k)
    BY <1>5, <2>2, <1>3, <1>1
  <2>4. length_of(s, k) <= length_of(t, k)
    BY <2>2
  <2>5. /\ offset(s, k + 1) = offset(s, k) + length_of(s, k)
        /\ offset(t, k + 1) = offset(t, k) + length_of(t, k)
    BY <1>2, <2>2
  <2> QED
    BY <1>1, <2>3, <2>4, <2>5
<1> HIDE DEF S
<1>6. i \in S
  BY <1>3, <1>4, <1>5, SuccessorsSuffice
<1> QED
  BY <1>1, <1>3, <1>6 DEF S

(* Where an entry starts depends on the lengths of the entries before it only. *)
LEMMA OffsetSame ==
  ASSUME NEW s, QueueOK(s.q), LengthsOK(s.p.lengths),
         NEW t, QueueOK(t.q), LengthsOK(t.p.lengths),
         Length(s.q) = Length(t.q), NEW i,
         \A k \in 0..(i - 1) : length_of(s, k) = length_of(t, k)
  PROVE  offset(s, i) = offset(t, i)
<1>1. /\ offset(s, i) \in Nat /\ offset(t, i) \in Nat
      /\ \A k : length_of(s, k) \in Nat /\ length_of(t, k) \in Nat
  BY OffsetNat, LengthNat
<1>2. CASE i \in 0..(Length(s.q) - 1)
  <2>1. /\ \A k \in 0..(i - 1) : length_of(s, k) <= length_of(t, k)
        /\ \A k \in 0..(i - 1) : length_of(t, k) <= length_of(s, k)
    BY <1>1
  <2>2. offset(s, i) <= offset(t, i) /\ offset(t, i) <= offset(s, i)
    BY <1>2, <2>1, OffsetMonotone
  <2> QED
    BY <1>1, <2>2
<1>3. CASE i \notin 0..(Length(s.q) - 1)
  BY <1>3 DEF offset
<1> QED
  BY <1>2, <1>3

(* A list of the same entries and lengths is the same album. *)
LEMMA AlbumSame ==
  ASSUME NEW s, QueueOK(s.q), LengthsOK(s.p.lengths), NEW t, QueueOK(t.q),
         t.q.items = s.q.items, t.p.lengths = s.p.lengths
  PROVE  \A i : offset(t, i) = offset(s, i) /\ length_of(t, i) = length_of(s, i)
<1>1. Length(t.q) = Length(s.q) /\ \A i : at(t.q, i) = at(s.q, i)
  BY DEF Length, at
<1>2. \A i : length_of(t, i) = length_of(s, i)
  BY <1>1 DEF length_of, LengthOfItem
<1> QED
  BY <1>1, <1>2, OffsetSame

(* The clock falls on no entry after one that has not ended. *)
LEMMA IndexBelow ==
  ASSUME NEW s, QueueOK(s.q), LengthsOK(s.p.lengths), NEW i \in 0..(Length(s.q) - 1),
         NEW pos \in Nat, pos < offset(s, i) + length_of(s, i)
  PROVE  current_index_at(s, pos) <= i
<1>1. Length(s.q) \in Nat /\ \A k : offset(s, k) \in Nat /\ length_of(s, k) \in Nat
  BY AtEntry, OffsetNat, LengthNat
<1> DEFINE started == {k \in 0..(Length(s.q) - 1) : pos >= offset(s, k)}
           idx == current_index_at(s, pos)
<1>2. idx \in started \/ idx = 0
  <2>1. CASE started = {}
    BY <2>1 DEF current_index_at
  <2>2. CASE started # {}
    <3>1. \E k \in started : \A j \in started : j <= k
      <4>1. Length(s.q) - 1 \in Nat /\ started \subseteq 0..(Length(s.q) - 1)
        BY <1>1, <2>2
      <4> HIDE DEF started
      <4> QED
        BY <2>2, <4>1, GreatestExists
    <3> QED
      BY <2>2, <3>1 DEF current_index_at
  <2> QED
    BY <2>1, <2>2
<1> HIDE DEF idx
<1>3. CASE idx = 0
  BY <1>1, <1>3 DEF idx
<1>4. CASE idx \in started
  <2>1. SUFFICES ASSUME i < idx PROVE FALSE
    BY <1>1, <1>4 DEF idx
  <2>2. offset(s, idx) >= offset(s, i) + length_of(s, i)
    BY <1>4, <2>1, OffsetGrows
  <2>3. pos >= offset(s, idx)
    BY <1>4
  <2> QED
    BY <1>1, <2>2, <2>3
<1> QED
  BY <1>2, <1>3, <1>4

-----------------------------------------------------------------------------
(***************************************************************************)
(* The cursor and the clock, where tracks are cut and not faded.  Sure is    *)
(* the invariant: the engine plays the entry under the cursor, whose       *)
(* length is known, and the album clock is not ahead of it.                *)
(***************************************************************************)
\* How far the album clock is behind what is heard.
Lag(s) == offset(s, s.q.index) + s.e.current.from - s.p.reset_offset

\* A learnt length is the right one; Wiser is knowing more of them.
Learnt(l) == \A i \in Entries : l[i] \in {Unknown, TrackLen[i]}

Wiser(l, m) == \A i \in Entries : m[i] = l[i] \/ (l[i] = Unknown /\ m[i] = TrackLen[i])

\* What is assumed of the hints, and of preloading.
Hinted ==
  /\ \A i \in Entries : Hint[i] <= TrackLen[i]
  /\ PreloadNext => \A i \in Entries : TrackLen[i] > 0

Ordered(q) == ~q.shuffling /\ (PreloadNext => q.repeat # "all")

\* No session that waits has been started.
Unstarted(y) == y.from = 0 /\ y.read = 0 /\ y.base = 0

Cut(s) ==
  /\ Still(s) /\ s.p.crossfade = 0 /\ Learnt(s.p.lengths) /\ Ordered(s.q)

Heard(s) ==
  /\ current(s.q) = s.e.current.item /\ s.e.current.base = 0
  /\ s.p.lengths[s.e.current.item] = TrackLen[s.e.current.item]
  /\ s.p.state = "playing" => s.e.pumping
  /\ s.p.state = "idle" => s.p.pause_intent
  /\ s.p.state # "idle" => Lag(s) >= 0

Sure(s) ==
  /\ Calm(s) /\ Cut(s) /\ ~s.p.pending_ended /\ Unstarted(s.e.standby) /\ ~s.e.error
  /\ HasSession(s.e) => Heard(s)

-----------------------------------------------------------------------------
(* The types that the arithmetic rests on. *)
LEMMA GoodParts ==
  ASSUME NEW s, Good(s)
  PROVE  /\ s = [q |-> s.q, p |-> s.p, e |-> s.e] /\ SystemOK(s)
         /\ QueueOK(s.q) /\ s.p \in PlayerType /\ EngineOK(s.e) /\ LengthsOK(s.p.lengths)
         /\ s.p.reset_offset \in Nat
         /\ s.e.current.from \in Nat /\ s.e.current.read \in Nat /\ s.e.current.base \in Nat
         /\ \A i : offset(s, i) \in Nat /\ length_of(s, i) \in Nat
         /\ Lag(s) \in Int
<1>1. /\ s = [q |-> s.q, p |-> s.p, e |-> s.e] /\ SystemOK(s)
      /\ QueueOK(s.q) /\ s.p \in PlayerType /\ EngineOK(s.e)
  BY DEF Good, SystemOK
<1>2. LengthsOK(s.p.lengths) /\ s.p.reset_offset \in Nat
  BY <1>1 DEF PlayerType, LengthsOK
<1>3. s.e.current.from \in Nat /\ s.e.current.read \in Nat /\ s.e.current.base \in Nat
  BY <1>1 DEF EngineOK, SessionOK, SessionType
<1>4. \A i : offset(s, i) \in Nat /\ length_of(s, i) \in Nat
  BY <1>1, <1>2, OffsetNat, LengthNat
<1>5. Lag(s) \in Int
  BY <1>2, <1>3, <1>4 DEF Lag
<1> QED
  BY <1>1, <1>2, <1>3, <1>4, <1>5

(* A cursor on an entry is a position of the list. *)
LEMMA CursorPlace ==
  ASSUME NEW q, QueueOK(q), current(q) # NoEntry
  PROVE  /\ q.index \in 0..(Length(q) - 1) /\ current(q) \in Entries
         /\ current(q) = at(q, q.index)
<1>1. q.index \in 0..(Length(q) - 1)
  BY DEF current, at
<1>2. current(q) \in Entries
  BY AtEntry DEF current, Maybe
<1> QED
  BY <1>1, <1>2 DEF current

(* Learning a length makes wiser, and longer. *)
LEMMA LearnWiser ==
  ASSUME NEW p \in PlayerType, NEW item \in Entries, Learnt(p.lengths)
  PROVE  /\ Wiser(p.lengths, Learn(p, item).lengths)
         /\ Learn(p, item).lengths[item] = TrackLen[item]
         /\ \A i \in Entries : i # item => Learn(p, item).lengths[i] = p.lengths[i]
<1>1. Learn(p, item).lengths = [p.lengths EXCEPT ![item] = TrackLen[item]]
  BY DEF Learn, PlayerType
<1>2. p.lengths \in [Entries -> Nat \cup {Unknown}]
  BY DEF PlayerType
<1> QED
  BY <1>1, <1>2 DEF Wiser, Learnt

(* Who is wiser than the wiser is wiser, *)
LEMMA WiserOn ==
  ASSUME NEW l, NEW m, NEW n, Wiser(l, m), Wiser(m, n)
  PROVE  Wiser(l, n)
  BY DEF Wiser

(* ... and the wiser have learnt right, if the others have. *)
LEMMA WiserLearnt ==
  ASSUME NEW l, NEW m, Wiser(l, m), Learnt(l)
  PROVE  /\ Learnt(m)
         /\ \A i \in Entries : l[i] = TrackLen[i] /\ TrackLen[i] # Unknown => m[i] = TrackLen[i]
  BY DEF Wiser, Learnt

(* To the wiser the entries are longer, *)
LEMMA WiserLonger ==
  ASSUME NEW s, QueueOK(s.q), LengthsOK(s.p.lengths),
         NEW t, QueueOK(t.q), LengthsOK(t.p.lengths),
         t.q.items = s.q.items, Wiser(s.p.lengths, t.p.lengths),
         \A i \in Entries : Hint[i] <= TrackLen[i]
  PROVE  /\ \A k : length_of(s, k) <= length_of(t, k)
         /\ \A k : offset(s, k) <= offset(t, k)
<1>1. Length(t.q) = Length(s.q) /\ \A i : at(t.q, i) = at(s.q, i)
  BY DEF Length, at
<1>2. ASSUME NEW k PROVE length_of(s, k) <= length_of(t, k)
  <2>1. at(s.q, k) \in Maybe
    BY AtEntry
  <2>2. CASE at(s.q, k) = NoEntry
    BY <1>1, <2>2 DEF length_of, LengthOfItem
  <2>3. CASE at(s.q, k) \in Entries
    <3> DEFINE i == at(s.q, k)
    <3>1. /\ i \in Entries /\ i # NoEntry /\ s.p.lengths[i] \in Nat \cup {Unknown}
          /\ t.p.lengths[i] \in Nat \cup {Unknown}
          /\ Hint[i] \in Nat /\ TrackLen[i] \in Nat /\ Hint[i] <= TrackLen[i]
      BY <2>3, EntriesAssumption, HintAssumption, TrackLenAssumption DEF LengthsOK
    <3>2. t.p.lengths[i] = s.p.lengths[i] \/ (s.p.lengths[i] = Unknown /\ t.p.lengths[i] = TrackLen[i])
      BY <3>1 DEF Wiser
    <3>3. length_of(s, k) = LengthOfItem(s.p, i) /\ length_of(t, k) = LengthOfItem(t.p, i)
      BY <1>1 DEF length_of
    <3> HIDE DEF i
    <3> QED
      BY <3>1, <3>2, <3>3 DEF LengthOfItem, Unknown
  <2> QED
    BY <2>1, <2>2, <2>3 DEF Maybe
<1>3. ASSUME NEW k PROVE offset(s, k) <= offset(t, k)
  <2>1. CASE k \in 0..(Length(s.q) - 1)
    BY <1>1, <1>2, <2>1, OffsetMonotone
  <2>2. CASE k \notin 0..(Length(s.q) - 1)
    BY <1>1, <2>2 DEF offset
  <2> QED
    BY <2>1, <2>2
<1> QED
  BY <1>2, <1>3

(* ... and what is known of an entry is its length. *)
LEMMA LengthKnown ==
  ASSUME NEW s, QueueOK(s.q), LengthsOK(s.p.lengths), Learnt(s.p.lengths), NEW k,
         \A i \in Entries : Hint[i] <= TrackLen[i]
  PROVE  /\ at(s.q, k) # NoEntry => length_of(s, k) <= TrackLen[at(s.q, k)]
         /\ at(s.q, k) # NoEntry /\ s.p.lengths[at(s.q, k)] = TrackLen[at(s.q, k)]
            => length_of(s, k) = TrackLen[at(s.q, k)]
<1> DEFINE i == at(s.q, k)
<1>1. i \in Maybe
  BY AtEntry
<1>2. ASSUME i # NoEntry
      PROVE  /\ i \in Entries /\ Hint[i] \in Nat /\ TrackLen[i] \in Nat /\ Hint[i] <= TrackLen[i]
             /\ s.p.lengths[i] = Unknown \/ s.p.lengths[i] = TrackLen[i]
  BY <1>1, <1>2, HintAssumption, TrackLenAssumption DEF Maybe, Learnt
<1>3. length_of(s, k) = LengthOfItem(s.p, i)
  BY DEF length_of
<1> HIDE DEF i
<1>4. /\ i # NoEntry => length_of(s, k) <= TrackLen[i]
      /\ i # NoEntry /\ s.p.lengths[i] = TrackLen[i] => length_of(s, k) = TrackLen[i]
  BY <1>2, <1>3 DEF LengthOfItem, Unknown
<1> QED
  BY <1>4 DEF i

-----------------------------------------------------------------------------
(***************************************************************************)
(* The engine.  A session is opened and sought at a place, and a callback  *)
(* does not move where it started.                                         *)
(***************************************************************************)
LEMMA OpenPlace ==
  ASSUME NEW e, EngineOK(e), NEW item \in Entries
  PROVE  /\ Unstarted(open(e, item).standby) /\ ~open(e, item).error
         /\ item \in Broken => ~HasSession(open(e, item))
         /\ item \notin Broken => open(e, item).current = open_session(item)
<1> DEFINE c == cancel_crossfade(e)
<1>1. EngineOK(c)
  BY EngineEdits
<1> HIDE DEF c
<1>2. open(e, item) = LET cleared == [c EXCEPT !.standby = NoSession, !.current = NoSession,
                                               !.error = FALSE]
                      IN  IF item \in Broken THEN cleared
                          ELSE [cleared EXCEPT !.current = open_session(item), !.pumping = FALSE]
  BY DEF open, c
<1> QED
  BY <1>1, <1>2 DEF EngineOK, EngineType, Unstarted, NoSession, Session, HasSession

(* A seek within the track lands where it was sent, unless nothing was heard
   and it was sent to the start. *)
LEMMA SeekPlace ==
  ASSUME NEW e, EngineOK(e), NEW n \in Nat,
         HasSession(e) => n <= TrackLen[e.current.item]
  PROVE  /\ seek(e, n).standby = e.standby /\ seek(e, n).error = e.error
         /\ IsNoOpSeek(e, n) => seek(e, n).current = e.current
         /\ HasSession(e) /\ ~IsNoOpSeek(e, n)
            => seek(e, n).current = Session(e.current.item, n, FALSE)
         /\ ~HasSession(e) => seek(e, n) = e
<1> DEFINE len == TrackLen[e.current.item]
           c == cancel_crossfade(e)
<1>1. /\ EngineOK(c) /\ c.standby = e.standby /\ c.current = e.current /\ c.error = e.error
  BY EngineEdits DEF cancel_crossfade, EngineOK, EngineType
<1>2. CASE ~HasSession(e) \/ IsNoOpSeek(e, n)
  BY <1>2 DEF seek
<1>3. CASE ~(~HasSession(e) \/ IsNoOpSeek(e, n))
  <2>1. /\ len \in Nat /\ n <= len
    BY <1>3, TrackLenAssumption DEF HasSession, EngineOK, SessionOK, SessionType, Maybe
  <2>2. Least(n, len) = n /\ ~(n > len) /\ (n > len) = FALSE
    BY <2>1 DEF Least
  <2>3. seek(e, n) = [c EXCEPT !.current = Session(c.current.item, Least(n, len), n > len)]
    BY <1>1, <1>3, <2>2 DEF seek, EngineOK, EngineType
  <2> DEFINE z == Session(c.current.item, Least(n, len), n > len)
  <2>5. z = Session(e.current.item, n, FALSE)
    <3> HIDE DEF c, len
    <3> QED
      BY <1>1, <2>2 DEF Session
  <2> HIDE DEF c, len
  <2>4. seek(e, n) = [c EXCEPT !.current = Session(e.current.item, n, FALSE)]
    BY <2>3, <2>5
  <2> QED
    BY <1>1, <1>3, <2>4 DEF EngineOK, EngineType
<1> QED
  BY <1>2, <1>3

(* The lanes of a preload, a promotion and a switch of decoding. *)
LEMMA LanePlaces ==
  ASSUME NEW e, EngineOK(e), NEW item, NEW expected
  PROVE  /\ Unstarted(prepare_next(e, item).standby)
         /\ Unstarted(e.standby) => Unstarted(advance(e, expected).standby)
         /\ advance(e, expected).current = IF CanAdvance(e, expected) THEN e.standby ELSE e.current
         /\ start_pumping(e).standby = e.standby /\ pause_pumping(e).standby = e.standby
         /\ prepare_next(e, item).error = e.error /\ advance(e, expected).error = e.error
         /\ start_pumping(e).error = e.error /\ pause_pumping(e).error = e.error
  BY DEF prepare_next, advance, start_pumping, pause_pumping, Unstarted, NoSession, open_session,
         Session, EngineOK, EngineType

(* Decoding does not move a session; what it reads next is before the end of
   the track, or there is nothing more to read. *)
LEMMA ReadPlace ==
  ASSUME NEW e, EngineOK(e), NEW n \in 1..(HighWater - 1)
  PROVE  LET f == ReadCurrent(e, n)
         IN  /\ f.standby = e.standby
             /\ f.current.from = e.current.from /\ f.current.base = e.current.base
             /\ f.error => e.error \/ e.pumping
             /\ e.pumping /\ HasSession(e)
                => \/ is_output_drained(f) \/ f.error
                   \/ f.current.from + f.current.read < TrackLen[f.current.item]
<1> DEFINE filled == PumpTo(e.current, HighWater)
           atEnd  == available_frames(filled) < HighWater /\ ~e.current.eos
           failed == atEnd /\ e.current.item \in Truncated
           g == fill_current(e)
           f == ReadCurrent(e, n)
<1>0. /\ HighWater \in Nat /\ n \in Nat /\ n < HighWater
      /\ SessionOK(e.current) /\ e.current \in SessionType
  BY RingAssumption DEF EngineOK, SessionOK
<1>1. /\ filled.item = e.current.item /\ filled.from = e.current.from /\ filled.read = e.current.read
      /\ filled.base = e.current.base /\ filled.eos = e.current.eos
  BY <1>0 DEF PumpTo, SessionType
<1>2. e.current.item # NoEntry => SessionOK(filled)
  BY <1>0, PumpOK
<1>3. g = IF ~e.pumping \/ ~HasSession(e) \/ exhausted(e.current) THEN e
          ELSE [e EXCEPT !.current = [filled EXCEPT !.eos = @ \/ (atEnd /\ ~failed)],
                         !.error = @ \/ failed]
  BY DEF fill_current
<1> HIDE DEF filled
<1>4. CASE ~e.pumping \/ ~HasSession(e) \/ exhausted(e.current)
  <2>1. g = e
    BY <1>3, <1>4
  <2> HIDE DEF g
  <2>2. f = IF HasSession(e) THEN [e EXCEPT !.current = read_frames(@, n)] ELSE e
    BY <2>1 DEF ReadCurrent, g
  <2>3. available_frames(e.current) \in Nat
    BY <1>0 DEF SessionOK, SessionType, available_frames
  <2>4. PICK k \in Nat : k = Least(n, available_frames(e.current)) /\ k <= available_frames(e.current)
    BY <1>0, <2>3, LeastMinus
  <2>5. read_frames(e.current, n) = [e.current EXCEPT !.read = @ + k]
    BY <2>4 DEF read_frames
  <2>6. f = IF HasSession(e) THEN [e EXCEPT !.current = [e.current EXCEPT !.read = @ + k]] ELSE e
    BY <2>2, <2>5 DEF EngineOK, EngineType
  <2> HIDE DEF f
  <2>7. /\ f.standby = e.standby /\ f.error = e.error
        /\ f.current.from = e.current.from /\ f.current.base = e.current.base
    BY <1>0, <2>6 DEF EngineOK, EngineType, SessionType
  <2>8. ASSUME exhausted(e.current), HasSession(e) PROVE is_output_drained(f)
    <3>1. k = 0
      BY <2>4, <2>8 DEF exhausted
    <3>2. f.current = [e.current EXCEPT !.read = @ + 0]
      BY <2>6, <2>8, <3>1 DEF EngineOK, EngineType
    <3>3. f.current.item = e.current.item /\ f.current.eos = e.current.eos
          /\ f.current.write = e.current.write /\ f.current.read = e.current.read
      BY <1>0, <3>2 DEF SessionType
    <3> QED
      BY <2>8, <3>3 DEF is_output_drained, HasSession, exhausted, available_frames
  <2> QED
    BY <1>4, <2>7, <2>8 DEF f
<1>5. CASE ~(~e.pumping \/ ~HasSession(e) \/ exhausted(e.current))
  <2> DEFINE c == [filled EXCEPT !.eos = @ \/ (atEnd /\ ~failed)]
             m == e.error \/ failed
             k == Least(n, available_frames(c))
             d == [c EXCEPT !.read = @ + k]
  <2>1. SessionOK(filled) /\ filled \in SessionType /\ e.error \in BOOLEAN
    BY <1>2, <1>5 DEF HasSession, SessionOK, EngineOK, EngineType
  <2>2. /\ c.item = e.current.item /\ c.from = e.current.from /\ c.base = e.current.base
        /\ c.read = filled.read /\ c.write = filled.write
        /\ c.eos = (e.current.eos \/ (atEnd /\ ~failed))
    BY <1>1, <2>1 DEF SessionType
  <2>3. c \in SessionType
    BY <2>1 DEF SessionType
  <2>4. g = [e EXCEPT !.current = c, !.error = m]
    BY <1>3, <1>5
  <2> HIDE DEF c, m, g
  <2>5. g.current = c /\ g.standby = e.standby /\ g.error = m /\ HasSession(g)
    BY <1>5, <2>2, <2>4 DEF EngineOK, EngineType, HasSession
  <2>6. available_frames(c) = available_frames(filled) /\ available_frames(filled) \in Nat
    BY <2>1, <2>2 DEF SessionOK, SessionType, available_frames
  <2>7. k \in Nat /\ k <= n /\ k <= available_frames(c) /\ (k = n \/ k = available_frames(c))
    BY <1>0, <2>6, LeastMinus
  <2>8. f = [g EXCEPT !.current = d]
    BY <2>5 DEF ReadCurrent, read_frames, g
  <2>9. /\ d.item = e.current.item /\ d.from = e.current.from /\ d.base = e.current.base
        /\ d.read = filled.read + k /\ d.write = filled.write /\ d.eos = c.eos
    BY <2>2, <2>3 DEF SessionType
  <2> HIDE DEF k, d, f
  <2>10. f.current = d /\ f.standby = e.standby /\ f.error = m
    BY <2>4, <2>5, <2>8 DEF EngineOK, EngineType
  <2>11. CASE available_frames(filled) >= HighWater
    <3>1. filled.read + k < filled.write
      BY <1>0, <2>1, <2>6, <2>7, <2>11 DEF available_frames, SessionType
    <3>2. filled.from + filled.write <= TrackLen[filled.item] /\ TrackLen[filled.item] \in Nat
      BY <1>1, <1>5, <2>1, TrackLenAssumption DEF SessionOK, SessionType, HasSession, Maybe
    <3> QED
      BY <1>1, <1>5, <2>1, <2>7, <2>9, <2>10, <3>1, <3>2 DEF SessionType, f
  <2>12. CASE ~(available_frames(filled) >= HighWater)
    <3>0. available_frames(filled) < HighWater
      BY <1>0, <2>6, <2>12
    <3>1. CASE failed
      BY <1>5, <2>9, <2>10, <3>1 DEF m, f
    <3>2. CASE ~failed
      <4>1. d.eos
        BY <2>2, <2>9, <3>0, <3>2
      <4>2. CASE filled.read + k = filled.write
        <5>1. available_frames(d) = 0
          BY <2>1, <2>7, <2>9, <4>2 DEF available_frames, SessionType
        <5>2. is_output_drained(f)
          BY <1>5, <2>9, <2>10, <4>1, <5>1 DEF is_output_drained, HasSession, exhausted
        <5> QED
          BY <1>5, <2>9, <2>10, <5>2 DEF f
      <4>3. CASE filled.read + k # filled.write
        <5>1. filled.read + k < filled.write
          BY <2>1, <2>6, <2>7, <4>3 DEF available_frames, SessionType
        <5>2. filled.from + filled.write <= TrackLen[filled.item] /\ TrackLen[filled.item] \in Nat
          BY <1>1, <1>5, <2>1, TrackLenAssumption DEF SessionOK, SessionType, HasSession, Maybe
        <5> QED
          BY <1>1, <1>5, <2>1, <2>7, <2>9, <2>10, <5>1, <5>2 DEF SessionType, f
      <4> QED
        BY <4>2, <4>3
    <3> QED
      BY <3>1, <3>2
  <2> QED
    BY <2>11, <2>12
<1> QED
  BY <1>4, <1>5

-----------------------------------------------------------------------------
(***************************************************************************)
(* Loads.                                                                  *)
(***************************************************************************)
(* A preload learns at most a length, and its session has not started. *)
LEMMA PreloadWiser ==
  ASSUME NEW s, SystemOK(s), Learnt(s.p.lengths), Unstarted(s.e.standby)
  PROVE  /\ Wiser(s.p.lengths, Preload(s).p.lengths)
         /\ Unstarted(Preload(s).e.standby) /\ Preload(s).e.error = s.e.error
         /\ ~PreloadNext => Preload(s) = s
<1> DEFINE item == peek_preload_target(s.q, s.q.index)
<1>0. /\ s = [q |-> s.q, p |-> s.p, e |-> s.e] /\ QueueOK(s.q) /\ s.p \in PlayerType
      /\ EngineOK(s.e)
  BY DEF SystemOK
<1>1. Wiser(s.p.lengths, s.p.lengths)
  BY DEF Wiser
<1>2. CASE item = NoEntry \/ ~PreloadNext
  BY <1>1, <1>2 DEF Preload
<1>3. CASE ~(item = NoEntry \/ ~PreloadNext)
  <2> DEFINE x == IF item \in Broken THEN s.p ELSE Learn(s.p, item)
             y == prepare_next(s.e, item)
  <2>1. item \in Entries
    BY <1>0, <1>3, TargetEntry DEF Maybe
  <2>2. Preload(s) = [s EXCEPT !.e = y, !.p = x]
    BY <1>3 DEF Preload
  <2> HIDE DEF item
  <2>4. Unstarted(y.standby) /\ y.error = s.e.error
    BY <1>0, LanePlaces
  <2>5. Wiser(s.p.lengths, x.lengths)
    BY <1>0, <1>1, <2>1, LearnWiser
  <2> HIDE DEF x, y
  <2>6. Preload(s) = [q |-> s.q, p |-> x, e |-> y]
    BY <1>0, <2>2, EditEnginePlayer
  <2> QED
    BY <1>3, <2>4, <2>5, <2>6
<1> QED
  BY <1>2, <1>3

(* A load that opens its entry: the engine is where the clock says, or,
   where a preload has just learnt the length of an entry before, ahead. *)
LEMMA LoadPlace ==
  ASSUME NEW s, Good(s), Hinted, Cut(s), CanLoad(s), NEW within \in Nat
  PROVE  LET t == load(s, within)
         IN  /\ Good(t) /\ Calm(t) /\ t.q = s.q /\ HasSession(t.e)
             /\ t.p.crossfade = 0 /\ ~t.p.pending_ended /\ Unstarted(t.e.standby) /\ ~t.e.error
             /\ t.p.state = Waiting(s.p) /\ t.p.pause_intent = s.p.pause_intent
             /\ t.p.attached /\ t.p.current = current(s.q)
             /\ Wiser(s.p.lengths, t.p.lengths)
             /\ t.p.lengths[current(s.q)] = TrackLen[current(s.q)]
             /\ ~PreloadNext => \A i \in Entries : i # current(s.q)
                                                   => t.p.lengths[i] = s.p.lengths[i]
             /\ t.e.current.item = current(s.q)
             /\ t.e.current.read = 0 /\ t.e.current.base = 0
             /\ within = 0 => t.e.current.from = 0
             /\ Lag(t) >= 0 /\ (~PreloadNext => Lag(t) = 0)
<1> DEFINE item   == current(s.q)
           sup    == Supersede(s.p)
           bp     == [sup EXCEPT !.pending_ended = FALSE, !.restored = NoPlace,
                                 !.armed = FALSE, !.attached = TRUE,
                                 !.state = "loading"]
           begun  == [s EXCEPT !.p = bp, !.e = open(s.e, item)]
           opened == [begun EXCEPT !.p = Learn(begun.p, item)]
           start  == offset(opened, s.q.index)
           primed == Preload(opened)
           resume == Least(within, Minus(length_of(primed, s.q.index), 1))
           rp     == [primed.p EXCEPT !.track_start = start, !.reset_offset = start + resume,
                                      !.position = start + resume, !.current = item,
                                      !.state = Waiting(s.p)]
           ready  == [primed EXCEPT !.p = rp]
           t      == load(s, within)
<1>0. /\ s = [q |-> s.q, p |-> s.p, e |-> s.e] /\ QueueOK(s.q) /\ s.p \in PlayerType
      /\ EngineOK(s.e) /\ SystemOK(s) /\ LengthsOK(s.p.lengths)
  BY GoodParts
<1>1. /\ item \in Entries /\ item # NoEntry /\ item \notin Broken
      /\ s.q.index \in 0..(Length(s.q) - 1) /\ at(s.q, s.q.index) = item
  BY <1>0, CursorPlace DEF CanLoad
<1>2. t = SeekEngine(ready, resume)
  BY <1>1 DEF load
<1>3. /\ Moves(s, t) /\ t.q = s.q /\ t.p.attached /\ Calm(t)
  BY <1>1, loadMoves DEF Cut
<1> HIDE DEF item, t
<1>4. /\ sup \in PlayerType /\ sup.lengths = s.p.lengths /\ sup.crossfade = s.p.crossfade
      /\ sup.pause_intent = s.p.pause_intent
  BY <1>0, SupersedeKeeps
<1> HIDE DEF sup
<1>5. /\ bp \in PlayerType /\ bp.lengths = s.p.lengths /\ bp.crossfade = s.p.crossfade
      /\ bp.pause_intent = s.p.pause_intent /\ bp.pending_ended = FALSE
  <2>1. NoPlace \in [idx : Nat \cup {-1}, within : Nat]
    BY DEF NoPlace
  <2> QED
    BY <1>4, <2>1 DEF PlayerType, States
<1> HIDE DEF bp
<1>6. /\ EngineOK(open(s.e, item)) /\ Unstarted(open(s.e, item).standby)
      /\ ~open(s.e, item).error /\ open(s.e, item).current = open_session(item)
  BY <1>0, <1>1, OpenOK, OpenPlace
<1>7. /\ begun = [q |-> s.q, p |-> bp, e |-> open(s.e, item)] /\ begun.p = bp
  <2> DEFINE be == open(s.e, item)
  <2> HIDE DEF be
  <2>1. [s EXCEPT !.p = bp, !.e = be] = [q |-> s.q, p |-> bp, e |-> be]
    BY <1>0, EditPlayerEngine
  <2> QED
    BY <2>1 DEF be
<1> HIDE DEF begun
<1> DEFINE op == Learn(bp, item)
<1>8. /\ op \in PlayerType /\ op.lengths \in [Entries -> Nat \cup {Unknown}]
      /\ op = [bp EXCEPT !.lengths = op.lengths]
      /\ Wiser(s.p.lengths, op.lengths) /\ op.lengths[item] = TrackLen[item]
      /\ \A i \in Entries : i # item => op.lengths[i] = s.p.lengths[i]
  BY <1>1, <1>5, LearnOK, LearnWiser DEF Cut
<1> HIDE DEF op
<1>9. /\ op.crossfade = s.p.crossfade /\ op.pause_intent = s.p.pause_intent
      /\ op.pending_ended = FALSE
  BY <1>5, <1>8 DEF PlayerType
<1>10. /\ SystemOK(opened) /\ opened.q = s.q /\ opened.p = op /\ opened.e = open(s.e, item)
  <2>1. opened = [begun EXCEPT !.p = op]
    BY <1>7 DEF op
  <2>2. opened = [q |-> s.q, p |-> op, e |-> open(s.e, item)]
    <3> HIDE DEF opened
    <3>1. \A be : [[q |-> s.q, p |-> bp, e |-> be] EXCEPT !.p = op] = [q |-> s.q, p |-> op, e |-> be]
      OBVIOUS
    <3> QED
      BY <1>7, <2>1, <3>1
  <2> HIDE DEF opened
  <2> QED
    BY <1>0, <1>6, <1>8, <2>2, SystemIs
<1> HIDE DEF opened
<1>11. PICK l \in [Entries -> Nat \cup {Unknown}] : primed.p = [op EXCEPT !.lengths = l]
  BY <1>10, PreloadOK
<1>12. /\ SystemOK(primed) /\ primed.q = s.q /\ primed.e.current = open_session(item)
       /\ Wiser(op.lengths, primed.p.lengths) /\ Unstarted(primed.e.standby)
       /\ ~primed.e.error
       /\ ~PreloadNext => primed = opened
  <2>1. Learnt(op.lengths)
    BY <1>8, WiserLearnt DEF Cut
  <2> QED
    BY <1>6, <1>10, <2>1, PreloadOK, PreloadWiser
<1> HIDE DEF primed
<1>13. /\ primed.p \in PlayerType /\ primed.p.crossfade = s.p.crossfade
       /\ primed.p.pause_intent = s.p.pause_intent /\ primed.p.pending_ended = FALSE
       /\ Wiser(s.p.lengths, primed.p.lengths) /\ primed.p.lengths[item] = TrackLen[item]
       /\ ~PreloadNext => primed.p.lengths = op.lengths
  <2>1. /\ primed.p \in PlayerType /\ primed.p.crossfade = s.p.crossfade
        /\ primed.p.pause_intent = s.p.pause_intent /\ primed.p.pending_ended = FALSE
    BY <1>8, <1>9, <1>11, <1>12 DEF SystemOK, PlayerType
  <2>2. Wiser(s.p.lengths, primed.p.lengths)
    BY <1>8, <1>12, WiserOn
  <2>3. primed.p.lengths[item] = TrackLen[item]
    BY <1>1, <1>8, <1>12 DEF Wiser
  <2> QED
    BY <1>10, <1>12, <2>1, <2>2, <2>3
<1>14. start \in Nat /\ length_of(primed, s.q.index) = TrackLen[item]
  <2>1. LengthsOK(op.lengths) /\ LengthsOK(primed.p.lengths)
    BY <1>8, <1>13 DEF LengthsOK, PlayerType
  <2>2. start \in Nat
    BY <1>0, <1>10, <2>1, OffsetNat
  <2>3. Learnt(primed.p.lengths)
    BY <1>13, WiserLearnt DEF Cut
  <2>4. length_of(primed, s.q.index) = TrackLen[item]
    BY <1>0, <1>1, <1>12, <1>13, <2>1, <2>3, LengthKnown DEF Hinted
  <2> QED
    BY <2>2, <2>4
<1>15. /\ resume \in Nat /\ resume <= TrackLen[item] /\ (within = 0 => resume = 0)
  <2>1. TrackLen[item] \in Nat
    BY <1>1, TrackLenAssumption
  <2>2. Minus(TrackLen[item], 1) \in Nat /\ Minus(TrackLen[item], 1) <= TrackLen[item]
    BY <2>1, LeastMinus
  <2>3. resume = Least(within, Minus(TrackLen[item], 1))
    BY <1>14
  <2> HIDE DEF resume
  <2>4. /\ resume \in Nat /\ resume <= within /\ resume <= Minus(TrackLen[item], 1)
    BY <2>2, <2>3, LeastMinus
  <2> QED
    BY <2>1, <2>2, <2>4
<1> HIDE DEF resume
<1>16. start <= offset(primed, s.q.index) /\ (~PreloadNext => start = offset(primed, s.q.index))
  <2>1. LengthsOK(op.lengths) /\ LengthsOK(primed.p.lengths)
    BY <1>8, <1>13 DEF LengthsOK, PlayerType
  <2> QED
    BY <1>0, <1>10, <1>12, <2>1, WiserLonger DEF Hinted
<1> HIDE DEF start
<1>17. /\ rp \in PlayerType /\ rp.crossfade = s.p.crossfade /\ rp.pause_intent = s.p.pause_intent
       /\ rp.pending_ended = FALSE /\ rp.state = Waiting(s.p) /\ rp.lengths = primed.p.lengths
       /\ rp.reset_offset = start + resume /\ rp.current = item
  <2>1. Waiting(s.p) \in States /\ item \in Maybe /\ start + resume \in Nat
    BY <1>1, <1>14, <1>15 DEF Waiting, States, Maybe
  <2> QED
    BY <1>13, <1>14, <1>15, <2>1 DEF PlayerType
<1> HIDE DEF rp
<1>18. SystemOK(ready) /\ ready.q = s.q /\ ready.p = rp /\ ready.e = primed.e
  <2>1. /\ primed = [q |-> primed.q, p |-> primed.p, e |-> primed.e] /\ EngineOK(primed.e)
    BY <1>12 DEF SystemOK
  <2>2. ready = [q |-> primed.q, p |-> rp, e |-> primed.e]
    BY <2>1, SystemEdits
  <2> HIDE DEF ready
  <2> QED
    BY <1>0, <1>12, <1>17, <2>1, <2>2, SystemIs
<1> HIDE DEF ready
<1>19. /\ t.p = rp /\ t.e.standby = primed.e.standby /\ ~t.e.error
       /\ t.e.current.item = item /\ t.e.current.from = resume
       /\ t.e.current.read = 0 /\ t.e.current.base = 0
  <2> DEFINE y == seek(primed.e, resume)
  <2>1. EngineOK(primed.e) /\ HasSession(primed.e) /\ primed.e.current.item = item
    BY <1>1, <1>12 DEF SystemOK, HasSession, open_session, Session
  <2>2. /\ EngineOK(y) /\ y.standby = primed.e.standby /\ y.error = primed.e.error
        /\ IsNoOpSeek(primed.e, resume) => y.current = primed.e.current
        /\ ~IsNoOpSeek(primed.e, resume) => y.current = Session(item, resume, FALSE)
    BY <1>15, <2>1, SeekOK, SeekPlace
  <2>3. IsNoOpSeek(primed.e, resume) => resume = 0
    BY DEF IsNoOpSeek
  <2>4. /\ y.current.item = item /\ y.current.from = resume
        /\ y.current.read = 0 /\ y.current.base = 0
    BY <1>12, <2>2, <2>3 DEF open_session, Session
  <2> HIDE DEF y
  <2>5. t.e = y \/ t.e = start_pumping(y)
    <3>1. [ready EXCEPT !.e = seek(@, resume)] = [q |-> s.q, p |-> rp, e |-> y]
      BY <1>18 DEF SystemOK, y
    <3>2. [[q |-> s.q, p |-> rp, e |-> y] EXCEPT !.e = start_pumping(@)]
          = [q |-> s.q, p |-> rp, e |-> start_pumping(y)]
      OBVIOUS
    <3> QED
      BY <1>2, <3>1, <3>2 DEF SeekEngine
  <2>6. /\ start_pumping(y).current = y.current /\ start_pumping(y).standby = y.standby
        /\ start_pumping(y).error = y.error
    BY <2>2, PumpingOK, LanePlaces
  <2>7. t.p = rp
    BY <1>2, <1>15, <1>18, SeekEngineOK
  <2> QED
    BY <1>12, <2>2, <2>4, <2>5, <2>6, <2>7
<1>20. Lag(t) >= 0 /\ (~PreloadNext => Lag(t) = 0)
  <2>1. Lag(t) = offset(t, s.q.index) + resume - (start + resume)
    BY <1>3, <1>17, <1>19 DEF Lag
  <2>2. offset(t, s.q.index) = offset(primed, s.q.index)
    <3>1. LengthsOK(primed.p.lengths)
      BY <1>13 DEF LengthsOK, PlayerType
    <3>2. QueueOK(primed.q) /\ QueueOK(t.q) /\ t.q.items = primed.q.items
          /\ t.p.lengths = primed.p.lengths
      BY <1>0, <1>3, <1>12, <1>17, <1>19
    <3> QED
      BY <3>1, <3>2, AlbumSame
  <2>3. offset(primed, s.q.index) \in Nat
    BY <1>12, <1>13, OffsetNat DEF SystemOK, LengthsOK, PlayerType
  <2> QED
    BY <1>14, <1>15, <1>16, <2>1, <2>2, <2>3
<1>21. HasSession(t.e)
  BY <1>1, <1>19 DEF HasSession
<1>22. ~PreloadNext => \A i \in Entries : i # item => t.p.lengths[i] = s.p.lengths[i]
  BY <1>8, <1>13, <1>17, <1>19
<1> QED
  BY <1>3, <1>12, <1>13, <1>15, <1>17, <1>19, <1>20, <1>21, <1>22 DEF Moves, Cut, t, item

-----------------------------------------------------------------------------
(***************************************************************************)
(* What keeps the cursor and the clock: a handler that leaves the session  *)
(* where it is, ...                                                        *)
(***************************************************************************)
LEMMA KeepsSure ==
  ASSUME NEW s, Good(s), Sure(s), NEW t, Good(t), Calm(t),
         t.q.items = s.q.items, t.q.shuffling = s.q.shuffling,
         PreloadNext => t.q.repeat # "all",
         t.p.lengths = s.p.lengths, t.p.crossfade = 0, ~t.p.pending_ended,
         Unstarted(t.e.standby), ~t.e.error,
         HasSession(t.e) =>
           /\ HasSession(s.e) /\ t.q.index = s.q.index
           /\ t.e.current.item = s.e.current.item /\ t.e.current.base = s.e.current.base
           /\ t.p.state = "playing" => t.e.pumping
           /\ t.p.state = "idle" => t.p.pause_intent
           /\ t.p.state # "idle" => /\ s.p.state # "idle"
                                    /\ t.e.current.from = s.e.current.from
                                    /\ t.p.reset_offset = s.p.reset_offset
  PROVE  Sure(t)
<1>1. /\ Length(t.q) = Length(s.q) /\ \A i : at(t.q, i) = at(s.q, i)
  BY DEF Length, at
<1>2. Ordered(t.q)
  BY <1>1 DEF Sure, Cut, Ordered
<1>3. Cut(t)
  BY <1>2 DEF Sure, Cut, Calm, Still
<1>4. QueueOK(s.q) /\ QueueOK(t.q) /\ LengthsOK(s.p.lengths)
  BY GoodParts
<1>5. \A i : offset(t, i) = offset(s, i)
  BY <1>4, AlbumSame
<1>6. ASSUME HasSession(t.e) PROVE Heard(t)
  <2>1. current(t.q) = current(s.q)
    BY <1>1, <1>6 DEF current
  <2>2. Heard(s)
    BY <1>6 DEF Sure
  <2>3. t.p.state # "idle" => Lag(t) = Lag(s)
    BY <1>5, <1>6 DEF Lag
  <2> QED
    BY <1>6, <2>1, <2>2, <2>3 DEF Heard
<1> QED
  BY <1>3, <1>6 DEF Sure

(* ... a load, whether it opens its entry or fails to, ... *)
LEMMA LoadSure ==
  ASSUME NEW s, Good(s), Hinted, Cut(s), NEW within \in Nat,
         current(s.q) = NoEntry => Sure(s)
  PROVE  /\ Sure(load(s, within))
         /\ current(s.q) # NoEntry => load(s, within).p.state # "playing"
<1> DEFINE t == load(s, within)
           item == current(s.q)
<1>1. CASE item = NoEntry
  BY <1>1 DEF load
<1>2. CASE CanLoad(s)
  <2>1. /\ Good(t) /\ Calm(t) /\ t.q = s.q /\ HasSession(t.e)
        /\ t.p.crossfade = 0 /\ ~t.p.pending_ended /\ Unstarted(t.e.standby) /\ ~t.e.error
        /\ t.p.state = Waiting(s.p)
        /\ Wiser(s.p.lengths, t.p.lengths) /\ t.p.lengths[item] = TrackLen[item]
        /\ t.e.current.item = item /\ t.e.current.base = 0
        /\ Lag(t) >= 0 /\ (~PreloadNext => Lag(t) = 0)
    BY <1>2, LoadPlace
  <2> HIDE DEF t
  <2>2. Learnt(t.p.lengths)
    BY <2>1, WiserLearnt DEF Cut
  <2>3. Cut(t)
    BY <2>1, <2>2 DEF Cut, Calm, Still
  <2>4. t.p.state \in {"paused", "buffering"}
    BY <2>1 DEF Waiting
  <2>5. Heard(t)
    BY <2>1, <2>4 DEF Heard, Hinted, item
  <2> QED
    BY <2>1, <2>3, <2>4, <2>5 DEF Sure, t
<1>3. CASE item # NoEntry /\ item \in Broken
  <2> DEFINE sup   == Supersede(s.p)
             bp    == [sup EXCEPT !.pending_ended = FALSE, !.restored = NoPlace,
                                  !.armed = FALSE, !.attached = TRUE,
                                  !.state = "loading"]
             be    == open(s.e, item)
             begun == [s EXCEPT !.p = bp, !.e = be]
  <2>1. /\ s = [q |-> s.q, p |-> s.p, e |-> s.e] /\ QueueOK(s.q) /\ s.p \in PlayerType
        /\ EngineOK(s.e) /\ item \in Entries
    BY <1>3, GoodParts, CursorPlace
  <2>2. t = fail(begun)
    BY <1>3 DEF load
  <2>3. Good(t) /\ t.q = s.q /\ Calm(t)
    BY <1>3, loadMoves DEF Moves, Cut
  <2> HIDE DEF t
  <2>4. sup \in PlayerType /\ sup.lengths = s.p.lengths /\ sup.crossfade = s.p.crossfade
    BY <2>1, SupersedeKeeps
  <2> HIDE DEF sup
  <2>5. /\ bp.lengths = s.p.lengths /\ bp.crossfade = s.p.crossfade
        /\ bp.pending_ended = FALSE
        /\ [bp EXCEPT !.state = "error"].state = "error"
        /\ [bp EXCEPT !.state = "error"].lengths = bp.lengths
        /\ [bp EXCEPT !.state = "error"].crossfade = bp.crossfade
        /\ [bp EXCEPT !.state = "error"].pending_ended = bp.pending_ended
    BY <2>4 DEF PlayerType
  <2> HIDE DEF bp
  <2>6. EngineOK(be) /\ Unstarted(be.standby) /\ ~HasSession(be) /\ ~be.error
    BY <1>3, <2>1, OpenOK, OpenPlace
  <2> HIDE DEF be
  <2>7. /\ pause_pumping(be).current = be.current /\ pause_pumping(be).standby = be.standby
        /\ pause_pumping(be).error = be.error
    BY <2>6, PumpingOK, LanePlaces
  <2>8. begun = [q |-> s.q, p |-> bp, e |-> be]
    BY <2>1, EditPlayerEngine
  <2> HIDE DEF begun
  <2>9. t = [q |-> s.q, p |-> [bp EXCEPT !.state = "error"], e |-> pause_pumping(be)]
    <3>1. begun = [q |-> begun.q, p |-> begun.p, e |-> begun.e]
          /\ begun.q = s.q /\ begun.p = bp /\ begun.e = be
      BY <2>8
    <3>2. t = [begun EXCEPT !.e = pause_pumping(begun.e),
                            !.p = [begun.p EXCEPT !.state = "error"]]
      BY <2>2, <3>1 DEF fail
    <3> QED
      BY <3>1, <3>2, EditEnginePlayer
  <2>10. /\ t.p.lengths = s.p.lengths /\ t.p.crossfade = s.p.crossfade
         /\ t.p.pending_ended = FALSE /\ ~HasSession(t.e) /\ Unstarted(t.e.standby)
         /\ ~t.e.error /\ t.p.state = "error"
    BY <2>5, <2>6, <2>7, <2>9 DEF HasSession
  <2>11. Cut(t)
    BY <2>3, <2>10 DEF Cut, Calm, Still
  <2> QED
    BY <2>3, <2>10, <2>11 DEF Sure, t
<1> QED
  BY <1>1, <1>2, <1>3 DEF CanLoad

(* The engine part of a reposition is a seek. *)
LEMMA SeekEnginePlace ==
  ASSUME NEW s, SystemOK(s), NEW n \in Nat
  PROVE  /\ SeekEngine(s, n).e.current = seek(s.e, n).current
         /\ SeekEngine(s, n).e.standby = seek(s.e, n).standby
         /\ SeekEngine(s, n).e.error = seek(s.e, n).error
<1> DEFINE y == seek(s.e, n)
<1>0. s = [q |-> s.q, p |-> s.p, e |-> s.e] /\ EngineOK(s.e)
  BY DEF SystemOK
<1>1. EngineOK(y)
  BY <1>0, SeekOK
<1>2. [s EXCEPT !.e = seek(@, n)] = [q |-> s.q, p |-> s.p, e |-> y]
  BY <1>0, SystemEdits
<1> HIDE DEF y
<1>3. [[q |-> s.q, p |-> s.p, e |-> y] EXCEPT !.e = start_pumping(@)]
      = [q |-> s.q, p |-> s.p, e |-> start_pumping(y)]
  OBVIOUS
<1>4. SeekEngine(s, n).e = y \/ SeekEngine(s, n).e = start_pumping(y)
  BY <1>2, <1>3 DEF SeekEngine
<1>5. /\ start_pumping(y).current = y.current /\ start_pumping(y).standby = y.standby
      /\ start_pumping(y).error = y.error
  BY <1>1, PumpingOK, LanePlaces
<1>6. /\ SeekEngine(s, n).e.current = y.current /\ SeekEngine(s, n).e.standby = y.standby
      /\ SeekEngine(s, n).e.error = y.error
  BY <1>4, <1>5
<1> QED
  BY <1>6 DEF y

(* ... and a reposition, if the clock is set to where the engine is sent. *)
LEMMA RepositionedSure ==
  ASSUME NEW s, Good(s), s.p.attached, Hinted, NEW to \in Nat, NEW within \in Nat,
         Calm(s), Cut(s), ~s.p.pending_ended, Unstarted(s.e.standby), ~s.e.error,
         HasSession(s.e) =>
           /\ current(s.q) = s.e.current.item /\ s.e.current.base = 0
           /\ s.p.lengths[s.e.current.item] = TrackLen[s.e.current.item]
           /\ within <= TrackLen[s.e.current.item]
           /\ to <= offset(s, s.q.index) + within
  PROVE  Sure(Repositioned(s, to, within))
<1> DEFINE x == [s.p EXCEPT !.reset_offset = to, !.position = to, !.state = Waiting(s.p)]
           u == [s EXCEPT !.p.reset_offset = to, !.p.position = to, !.p.state = Waiting(s.p)]
           t == Repositioned(s, to, within)
<1>0. /\ s = [q |-> s.q, p |-> s.p, e |-> s.e] /\ QueueOK(s.q) /\ s.p \in PlayerType
      /\ EngineOK(s.e) /\ LengthsOK(s.p.lengths)
      /\ s.e.current.from \in Nat /\ s.e.current.read \in Nat /\ offset(s, s.q.index) \in Nat
  BY GoodParts
<1>1. Waiting(s.p) \in {"paused", "buffering"}
  BY DEF Waiting
<1>2. /\ x \in PlayerType /\ x.reset_offset = to /\ x.state = Waiting(s.p)
      /\ x.lengths = s.p.lengths /\ x.crossfade = s.p.crossfade
      /\ x.pending_ended = s.p.pending_ended
  BY <1>0, <1>1 DEF PlayerType, States
<1>3. u = [s EXCEPT !.p = x]
  BY <1>0
<1> HIDE DEF x
<1>4. SystemOK(u) /\ u.q = s.q /\ u.p = x /\ u.e = s.e
  <2> HIDE DEF u
  <2>1. u = [q |-> s.q, p |-> x, e |-> s.e]
    BY <1>0, <1>3, SystemEdits
  <2> QED
    BY <1>0, <1>2, <2>1, SystemIs
<1>5. t = SeekEngine(u, within)
  BY DEF Repositioned
<1>6. Good(t) /\ Calm(t)
  BY RepositionedMoves DEF Moves
<1> HIDE DEF u, t
<1>7. /\ t.q = s.q /\ t.p = x /\ t.e.current.item = s.e.current.item
      /\ t.e.current = seek(s.e, within).current /\ t.e.standby = seek(s.e, within).standby
      /\ t.e.error = seek(s.e, within).error
  BY <1>4, <1>5, SeekEngineOK, SeekEnginePlace
<1>8. /\ ~t.e.error
      /\ HasSession(s.e) => /\ t.e.standby = s.e.standby
                            /\ IsNoOpSeek(s.e, within) => t.e.current = s.e.current
                            /\ ~IsNoOpSeek(s.e, within)
                               => t.e.current = Session(s.e.current.item, within, FALSE)
      /\ ~HasSession(s.e) => t.e.standby = s.e.standby
  <2>1. CASE HasSession(s.e)
    BY <1>0, <1>7, <2>1, SeekPlace
  <2>2. CASE ~HasSession(s.e)
    BY <1>7, <2>2 DEF seek
  <2> QED
    BY <2>1, <2>2
<1>9. Cut(t)
  BY <1>2, <1>6, <1>7 DEF Cut, Calm, Still
<1>10. ASSUME HasSession(t.e) PROVE Heard(t)
  <2>1. HasSession(s.e)
    BY <1>7, <1>10 DEF HasSession
  <2>2. offset(t, t.q.index) = offset(s, s.q.index)
    BY <1>0, <1>2, <1>7, AlbumSame
  <2>3. t.e.current.base = 0
    BY <1>8, <2>1 DEF Session
  <2>4. t.e.current.from \in Nat /\ Lag(t) = offset(s, s.q.index) + t.e.current.from - to
    BY <1>2, <1>6, <1>7, <2>2, GoodParts DEF Lag
  <2>5. Lag(t) >= 0
    <3>1. CASE IsNoOpSeek(s.e, within)
      <4>1. within = 0 /\ s.e.current.read = 0 /\ t.e.current.from = s.e.current.from
        BY <1>0, <1>8, <2>1, <3>1 DEF IsNoOpSeek, rendered_samples, rendered_frames
      <4>2. to <= offset(s, s.q.index)
        BY <1>0, <2>1, <4>1
      <4> QED
        BY <1>0, <2>4, <4>1, <4>2
    <3>2. CASE ~IsNoOpSeek(s.e, within)
      <4>1. t.e.current.from = within
        BY <1>8, <2>1, <3>2 DEF Session
      <4> QED
        BY <1>0, <2>1, <2>4, <4>1
    <3> QED
      BY <3>1, <3>2
  <2> QED
    BY <1>1, <1>2, <1>7, <2>1, <2>3, <2>5 DEF Heard
<1> QED
  BY <1>2, <1>6, <1>7, <1>8, <1>9, <1>10 DEF Sure, t

(* A player whose generations are superseded is where it was. *)
LEMMA SupersedeSure ==
  ASSUME NEW s, Good(s), Sure(s), NEW t, t = [s EXCEPT !.p = Supersede(@)]
  PROVE  /\ Good(t) /\ Sure(t) /\ t.q = s.q /\ t.e = s.e
         /\ t.p.attached = s.p.attached /\ t.p.lengths = s.p.lengths
         /\ t.p.reset_offset = s.p.reset_offset
<1> DEFINE x == Supersede(s.p)
<1>0. s = [q |-> s.q, p |-> s.p, e |-> s.e] /\ s.p \in PlayerType
  BY GoodParts
<1>1. Moves(s, t) /\ t.q = s.q /\ t.e = s.e
  BY SupersedeMoves
<1>2. t.p = x
  BY <1>0
<1>3. /\ x.state = s.p.state /\ x.attached = s.p.attached /\ x.lengths = s.p.lengths
      /\ x.pause_intent = s.p.pause_intent /\ x.crossfade = s.p.crossfade
      /\ x.reset_offset = s.p.reset_offset /\ x.pending_ended = s.p.pending_ended
  <2>1. PICK f \in XfadeType, c \in [idx : Nat \cup {-1}, fresh : BOOLEAN] :
          /\ x = [s.p EXCEPT !.xfade = f, !.check = c]
          /\ s.p.xfade = NoXfade => f = NoXfade
    BY <1>0, SupersedeOK
  <2> HIDE DEF x
  <2> QED
    BY <1>0, <2>1 DEF PlayerType
<1> HIDE DEF x
<1>4. Sure(t)
  <2>1. Good(t) /\ Calm(t)
    BY <1>1 DEF Moves, Sure
  <2>2. /\ ~s.q.shuffling /\ (PreloadNext => s.q.repeat # "all") /\ s.p.crossfade = 0
        /\ ~s.p.pending_ended /\ Unstarted(s.e.standby) /\ ~s.e.error
        /\ HasSession(s.e) => /\ s.p.state = "playing" => s.e.pumping
                              /\ s.p.state = "idle" => s.p.pause_intent
    BY DEF Sure, Cut, Ordered, Heard
  <2> QED
    BY <1>1, <1>2, <1>3, <2>1, <2>2, KeepsSure
<1> QED
  BY <1>1, <1>2, <1>3, <1>4 DEF Moves

(* What a session that plays says of the album. *)
LEMMA HeardParts ==
  ASSUME NEW s, Good(s), Hinted, Sure(s), HasSession(s.e)
  PROVE  /\ s.q.index \in 0..(Length(s.q) - 1) /\ s.e.current.item \in Entries
         /\ at(s.q, s.q.index) = s.e.current.item /\ current(s.q) = s.e.current.item
         /\ length_of(s, s.q.index) = TrackLen[s.e.current.item]
         /\ s.e.current.base = 0
         /\ s.p.lengths[s.e.current.item] = TrackLen[s.e.current.item]
<1>1. current(s.q) = s.e.current.item /\ s.e.current.base = 0
      /\ s.p.lengths[s.e.current.item] = TrackLen[s.e.current.item]
  BY DEF Sure, Heard
<1>2. QueueOK(s.q) /\ LengthsOK(s.p.lengths) /\ Learnt(s.p.lengths)
  BY GoodParts DEF Sure, Cut
<1>3. /\ s.q.index \in 0..(Length(s.q) - 1) /\ s.e.current.item \in Entries
      /\ at(s.q, s.q.index) = s.e.current.item
  BY <1>1, <1>2, CursorPlace DEF HasSession
<1>4. at(s.q, s.q.index) # NoEntry
  BY <1>3, EntriesAssumption
<1>5. length_of(s, s.q.index) = TrackLen[s.e.current.item]
  BY <1>1, <1>2, <1>3, <1>4, LengthKnown DEF Hinted
<1> QED
  BY <1>1, <1>3, <1>5

(* Restarting a track sends both to its start, *)
LEMMA restart_current_trackSure ==
  ASSUME NEW s, Good(s), Hinted, Sure(s)
  PROVE  Sure(restart_current_track(s))
<1> DEFINE t == [s EXCEPT !.p = Supersede(@)]
           to == offset(s, s.q.index)
<1>1. CASE ~s.p.attached \/ s.p.current = NoEntry
  BY <1>1 DEF restart_current_track
<1>2. CASE ~(~s.p.attached \/ s.p.current = NoEntry)
  <2>1. /\ Good(t) /\ Sure(t) /\ t.q = s.q /\ t.e = s.e
        /\ t.p.attached /\ t.p.lengths = s.p.lengths
    BY <1>2, SupersedeSure
  <2>2. restart_current_track(s) = Repositioned(t, to, 0)
    BY <1>2 DEF restart_current_track
  <2> HIDE DEF t
  <2>3. offset(t, t.q.index) = to /\ to \in Nat
    <3>1. QueueOK(s.q) /\ LengthsOK(s.p.lengths) /\ to \in Nat
      BY GoodParts
    <3> QED
      BY <2>1, <3>1, AlbumSame
  <2>4. HasSession(t.e) => 0 <= TrackLen[t.e.current.item]
    BY <2>1, HeardParts, TrackLenAssumption
  <2>5. /\ Calm(t) /\ Cut(t) /\ ~t.p.pending_ended /\ Unstarted(t.e.standby)
        /\ ~t.e.error /\ (HasSession(t.e) => Heard(t))
    BY <2>1 DEF Sure
  <2> HIDE DEF to
  <2>7. Sure(Repositioned(t, to, 0))
    BY <2>1, <2>3, <2>4, <2>5, RepositionedSure DEF Heard
  <2> QED
    BY <2>2, <2>7
<1> QED
  BY <1>1, <1>2

(* ... and a seek to where it goes, in the track or in another. *)
LEMMA seek_innerSure ==
  ASSUME NEW s, Good(s), Hinted, Sure(s), NEW pos \in Nat
  PROVE  Sure(seek_inner(s, pos))
<1> DEFINE begun  == [s EXCEPT !.p = Supersede(@)]
           qi     == current_index_at(s, pos)
           base   == offset(s, qi)
           within == Least(Minus(pos, base), Minus(length_of(s, qi), 1))
           there  == [begun EXCEPT !.q = move_to(@, qi)]
           to     == base + within
<1>1. seek_inner(s, pos)
      = IF ~s.p.attached \/ s.p.current = NoEntry THEN s
        ELSE IF Length(s.q) = 0 THEN begun
        ELSE IF qi = s.q.index THEN Repositioned(begun, to, within)
        ELSE IF ~CanLoad(there) THEN load(there, 0)
        ELSE Repositioned(load(there, 0), to, within)
  BY DEF seek_inner
<1>0. QueueOK(s.q) /\ LengthsOK(s.p.lengths) /\ Length(s.q) \in Nat
  BY GoodParts, AtEntry
<1>2. /\ base \in Nat /\ within \in Nat /\ to \in Nat /\ length_of(s, qi) \in Nat
      /\ within <= length_of(s, qi)
  <2>1. base \in Nat /\ length_of(s, qi) \in Nat
    BY GoodParts
  <2> DEFINE len == length_of(s, qi)
  <2> HIDE DEF base, qi, len
  <2>2. Minus(pos, base) \in Nat /\ Minus(len, 1) \in Nat /\ Minus(len, 1) <= len
    BY <2>1, LeastMinus DEF len
  <2>3. within \in Nat /\ within <= Minus(len, 1)
    BY <2>2, LeastMinus DEF len
  <2> HIDE DEF within
  <2> QED
    BY <2>1, <2>2, <2>3 DEF len
<1>3. Length(s.q) > 0 => qi \in 0..(Length(s.q) - 1)
  BY <1>0, IndexAtNat
<1> HIDE DEF qi, within
<1>4. /\ Good(begun) /\ Sure(begun) /\ begun.q = s.q /\ begun.e = s.e
      /\ begun.p.attached = s.p.attached /\ begun.p.lengths = s.p.lengths
  BY SupersedeSure
<1> HIDE DEF begun
<1>5. ASSUME Length(s.q) > 0, qi = s.q.index, s.p.attached
      PROVE  Sure(Repositioned(begun, to, within))
  <2>1. offset(begun, begun.q.index) = base
    BY <1>0, <1>4, <1>5, AlbumSame
  <2>2. HasSession(begun.e) => within <= TrackLen[begun.e.current.item]
    BY <1>2, <1>4, <1>5, HeardParts
  <2>3. /\ Calm(begun) /\ Cut(begun) /\ ~begun.p.pending_ended
        /\ Unstarted(begun.e.standby) /\ ~begun.e.error /\ (HasSession(begun.e) => Heard(begun))
    BY <1>4 DEF Sure
  <2> HIDE DEF base
  <2>4. to = base + within
    OBVIOUS
  <2> HIDE DEF to
  <2>5. HasSession(begun.e) => /\ within <= TrackLen[begun.e.current.item]
                              /\ to <= offset(begun, begun.q.index) + within
                              /\ to = offset(begun, begun.q.index) + within
    BY <1>2, <2>1, <2>2, <2>4
  <2>6. HasSession(begun.e)
        => /\ current(begun.q) = begun.e.current.item /\ begun.e.current.base = 0
           /\ begun.p.lengths[begun.e.current.item] = TrackLen[begun.e.current.item]
    BY <2>3 DEF Heard
  <2> QED
    BY <1>2, <1>4, <1>5, <2>3, <2>5, <2>6, RepositionedSure
<1>6. ASSUME Length(s.q) > 0
      PROVE  /\ Good(there) /\ Cut(there) /\ there.p.lengths = s.p.lengths
             /\ there.q.items = s.q.items /\ there.q.index = qi
             /\ at(there.q, qi) = at(s.q, qi) /\ at(s.q, qi) \in Entries
             /\ current(there.q) = at(s.q, qi) /\ QueueOK(there.q)
  <2> DEFINE r == move_to(begun.q, qi)
  <2>1. /\ r.items = s.q.items /\ r.index = qi /\ r.shuffling = s.q.shuffling
        /\ r.repeat = s.q.repeat
    BY <1>0, <1>3, <1>4, <1>6 DEF move_to, QueueOK, Sketch, IsQueue
  <2>2. QueueOK(r) /\ (Seated(begun.q) => Seated(r))
    BY <1>0, <1>4, MoveToOK
  <2>3. there = [begun EXCEPT !.q = r]
    BY <1>4 DEF Good, SystemOK
  <2> HIDE DEF r, there
  <2>4. Moves(begun, there) /\ there.q = r /\ there.p = begun.p
    <3> DEFINE u == [begun EXCEPT !.q = r]
    <3>1. Moves(begun, u) /\ u.q = r /\ u.p = begun.p
      BY <1>4, <2>2, QueueMoves
    <3> HIDE DEF u
    <3>2. there = u
      BY <2>3 DEF u
    <3> QED
      BY <3>1, <3>2
  <2>5. Calm(there)
    BY <1>4, <2>4 DEF Moves, Sure
  <2>6. Length(r) = Length(s.q) /\ \A i : at(r, i) = at(s.q, i)
    BY <2>1 DEF Length, at
  <2>7. Ordered(r)
    BY <1>4, <2>1, <2>6 DEF Sure, Cut, Ordered
  <2>8. Cut(there)
    BY <1>4, <2>4, <2>5, <2>7 DEF Sure, Cut, Calm, Still
  <2>9. at(s.q, qi) \in Entries
    BY <1>0, <1>3, <1>6 DEF at, Length, QueueOK, Sketch
  <2>10. Good(there)
    BY <2>4 DEF Moves
  <2>11. current(there.q) = at(s.q, qi)
    BY <2>1, <2>4, <2>6 DEF current
  <2> QED
    BY <1>4, <2>1, <2>2, <2>4, <2>6, <2>8, <2>9, <2>10, <2>11
<1> HIDE DEF there
<1>7. ASSUME Length(s.q) > 0 PROVE Sure(load(there, 0))
  BY <1>6, <1>7, LoadSure, EntriesAssumption
<1>8. ASSUME Length(s.q) > 0, CanLoad(there)
      PROVE  Sure(Repositioned(load(there, 0), to, within))
  <2> DEFINE t == load(there, 0)
             item == at(s.q, qi)
  <2>1. /\ Good(t) /\ t.p.attached /\ t.q = there.q /\ t.e.current.item = item
        /\ t.e.current.from = 0 /\ Wiser(s.p.lengths, t.p.lengths)
        /\ ~PreloadNext => \A i \in Entries : i # item => t.p.lengths[i] = s.p.lengths[i]
    BY <1>6, <1>8, LoadPlace
  <2>2. Sure(t)
    BY <1>7, <1>8
  <2> HIDE DEF t
  <2>3. HasSession(t.e)
    BY <1>6, <1>8, <2>1, EntriesAssumption DEF HasSession
  <2>4. Learnt(s.p.lengths) /\ QueueOK(t.q) /\ LengthsOK(t.p.lengths) /\ Ordered(s.q)
    BY <2>1, GoodParts DEF Sure, Cut
  <2>5. within <= TrackLen[item]
    <3>1. length_of(s, qi) <= TrackLen[item]
      BY <1>0, <1>6, <1>8, <2>4, LengthKnown, EntriesAssumption DEF Hinted
    <3>2. TrackLen[item] \in Nat
      BY <1>6, <1>8, TrackLenAssumption
    <3> QED
      BY <1>2, <3>1, <3>2
  <2>6. t.q.items = s.q.items /\ t.q.index = qi
    BY <1>6, <1>8, <2>1
  <2>7. base <= offset(t, t.q.index)
    BY <1>0, <2>1, <2>4, <2>6, WiserLonger DEF Hinted
  <2>9. /\ Calm(t) /\ Cut(t) /\ ~t.p.pending_ended
        /\ Unstarted(t.e.standby) /\ ~t.e.error /\ Heard(t)
    BY <2>2, <2>3 DEF Sure
  <2>10. offset(t, t.q.index) \in Nat
    BY <2>1, GoodParts
  <2> HIDE DEF base
  <2>11. to <= offset(t, t.q.index) + within
    BY <1>2, <2>7, <2>10
  <2> HIDE DEF to
  <2> QED
    BY <1>2, <2>1, <2>5, <2>9, <2>11, RepositionedSure DEF Heard, t
<1> QED
  BY <1>0, <1>1, <1>4, <1>5, <1>7, <1>8

-----------------------------------------------------------------------------
(***************************************************************************)
(* The transport commands.                                                 *)
(***************************************************************************)
(* What the parts of a sure system are. *)
LEMMA SureParts ==
  ASSUME NEW s, Sure(s)
  PROVE  /\ Calm(s) /\ ~s.p.in_progress /\ ~s.q.shuffling
         /\ (PreloadNext => s.q.repeat # "all") /\ s.p.crossfade = 0
         /\ Learnt(s.p.lengths) /\ Ordered(s.q) /\ Cut(s)
         /\ ~s.p.pending_ended /\ Unstarted(s.e.standby) /\ ~s.e.error
         /\ HasSession(s.e) => /\ Heard(s) /\ s.p.attached
                               /\ s.p.state = "playing" => s.e.pumping
                               /\ s.p.state = "idle" => s.p.pause_intent
  BY DEF Sure, Cut, Ordered, Calm, Heard

(* The host has primed its buffer, *)
LEMMA on_primedSure ==
  ASSUME NEW s, Good(s), Sure(s)
  PROVE  Sure(on_primed(s))
<1> DEFINE x == [s.p EXCEPT !.state = IF s.p.pause_intent THEN @ ELSE "playing"]
           y == start_pumping(s.e)
           t == on_primed(s)
<1>0. /\ s = [q |-> s.q, p |-> s.p, e |-> s.e] /\ s.p \in PlayerType /\ EngineOK(s.e)
  BY GoodParts
<1>1. CASE ~(s.p.state \in {"loading", "buffering"} /\ s.p.attached)
  BY <1>1 DEF on_primed
<1>2. CASE s.p.state \in {"loading", "buffering"} /\ s.p.attached
  <2>1. t = [s EXCEPT !.e = y, !.p = x]
    BY <1>0, <1>2 DEF on_primed
  <2>2. ~s.p.pause_intent
    BY <1>2 DEF Good, Hushed
  <2>3. y.pumping = TRUE /\ y.current = s.e.current /\ y.standby = s.e.standby
        /\ y.error = s.e.error
    BY <1>0, PumpingOK, LanePlaces
  <2>4. /\ x.state = "playing" /\ x.in_progress = s.p.in_progress /\ x.lengths = s.p.lengths
        /\ x.crossfade = s.p.crossfade /\ x.pending_ended = s.p.pending_ended
        /\ x.reset_offset = s.p.reset_offset
    BY <1>0, <1>2, <2>2 DEF PlayerType
  <2>5. Steps(s, t)
    BY on_primedSteps
  <2> HIDE DEF x, y, t
  <2>6. t.q = s.q /\ t.p = x /\ t.e = y
    BY <1>0, <2>1, EditEnginePlayer
  <2>7. Good(t) /\ Calm(t)
    BY <2>4, <2>5, <2>6, SureParts DEF Steps, Linked, Fading
  <2>8. HasSession(t.e) => HasSession(s.e)
    BY <2>3, <2>6 DEF HasSession
  <2> QED
    BY <1>2, <2>3, <2>4, <2>6, <2>7, <2>8, SureParts, KeepsSure DEF t
<1> QED
  BY <1>1, <1>2

(* ... or it has run dry. *)
LEMMA on_bufferingSure ==
  ASSUME NEW s, Good(s), Sure(s)
  PROVE  Sure(on_buffering(s))
<1> DEFINE x == [s.p EXCEPT !.state = "buffering"]
           t == on_buffering(s)
<1>0. /\ s = [q |-> s.q, p |-> s.p, e |-> s.e] /\ s.p \in PlayerType
  BY GoodParts
<1>1. CASE s.p.state \notin {"loading", "buffering", "playing"}
  BY <1>1 DEF on_buffering
<1>2. CASE s.p.state \in {"loading", "buffering", "playing"}
  <2>1. t = [s EXCEPT !.p = x]
    BY <1>0, <1>2 DEF on_buffering
  <2>4. /\ x.state = "buffering" /\ x.in_progress = s.p.in_progress /\ x.lengths = s.p.lengths
        /\ x.crossfade = s.p.crossfade /\ x.pending_ended = s.p.pending_ended
        /\ x.reset_offset = s.p.reset_offset
    BY <1>0 DEF PlayerType
  <2>5. Steps(s, t)
    BY on_bufferingSteps
  <2> HIDE DEF x, t
  <2>6. t.q = s.q /\ t.p = x /\ t.e = s.e
    BY <1>0, <2>1, SystemEdits
  <2>7. Good(t) /\ Calm(t)
    BY <2>4, <2>5, <2>6, SureParts DEF Steps, Linked, Fading
  <2> QED
    BY <1>2, <2>4, <2>6, <2>7, SureParts, KeepsSure DEF t
<1> QED
  BY <1>1, <1>2

(* A pause of what is audible, *)
LEMMA pause_innerSure ==
  ASSUME NEW s, Good(s), Sure(s), s.p.state # "idle"
  PROVE  Sure(pause_inner(s))
<1> DEFINE x == [s.p EXCEPT !.pause_intent = TRUE, !.state = "paused"]
           y == IF s.p.attached THEN pause_pumping(s.e) ELSE s.e
           t == pause_inner(s)
<1>0. /\ s = [q |-> s.q, p |-> s.p, e |-> s.e] /\ s.p \in PlayerType /\ EngineOK(s.e)
  BY GoodParts
<1>1. t = [s EXCEPT !.p = x, !.e = y]
  BY <1>0 DEF pause_inner
<1>2. y.current = s.e.current /\ y.standby = s.e.standby /\ y.error = s.e.error
  BY <1>0, PumpingOK, LanePlaces
<1>3. /\ x.state = "paused" /\ x.lengths = s.p.lengths /\ x.crossfade = s.p.crossfade
      /\ x.pending_ended = s.p.pending_ended /\ x.reset_offset = s.p.reset_offset
  BY <1>0 DEF PlayerType
<1>4. Good(t) /\ Calm(t)
  BY pause_innerSteps, SureParts DEF Moves
<1> HIDE DEF x, y, t
<1>5. t.q = s.q /\ t.p = x /\ t.e = y
  BY <1>0, <1>1, EditPlayerEngine
<1>6. HasSession(t.e) => HasSession(s.e)
  BY <1>2, <1>5 DEF HasSession
<1> QED
  BY <1>2, <1>3, <1>4, <1>5, <1>6, SureParts, KeepsSure DEF t

(* ... and what ends it, which may load a restored session. *)
LEMMA resume_innerSure ==
  ASSUME NEW s, Good(s), Hinted, Sure(s), s.p.state # "idle"
  PROVE  Sure(resume_inner(s))
<1> DEFINE within == IF s.p.restored.idx = s.q.index THEN s.p.restored.within ELSE 0
           t == resume_inner(s)
<1>0. /\ s = [q |-> s.q, p |-> s.p, e |-> s.e] /\ s.p \in PlayerType /\ EngineOK(s.e)
  BY GoodParts
<1>1. CASE s.p.attached
  <2> DEFINE x == [s.p EXCEPT !.pause_intent = FALSE, !.state = "playing"]
             y == start_pumping(s.e)
  <2>1. t = [s EXCEPT !.p = x, !.e = y]
    BY <1>0, <1>1 DEF resume_inner
  <2>2. y.pumping = TRUE /\ y.current = s.e.current /\ y.standby = s.e.standby
        /\ y.error = s.e.error
    BY <1>0, PumpingOK, LanePlaces
  <2>3. /\ x.state = "playing" /\ x.lengths = s.p.lengths /\ x.crossfade = s.p.crossfade
        /\ x.pending_ended = s.p.pending_ended /\ x.reset_offset = s.p.reset_offset
    BY <1>0 DEF PlayerType
  <2>4. Good(t) /\ Calm(t)
    BY resume_innerSteps, SureParts DEF Moves
  <2> HIDE DEF x, y, t
  <2>5. t.q = s.q /\ t.p = x /\ t.e = y
    BY <1>0, <2>1, EditPlayerEngine
  <2>6. HasSession(t.e) => HasSession(s.e)
    BY <2>2, <2>5 DEF HasSession
  <2> QED
    BY <2>2, <2>3, <2>4, <2>5, <2>6, SureParts, KeepsSure DEF t
<1>2. CASE ~s.p.attached /\ s.p.state = "paused" /\ s.p.current # NoEntry
  <2>1. t = load(s, within)
    BY <1>2 DEF resume_inner, LoadRestored
  <2>2. within \in Nat
    BY <1>0 DEF PlayerType
  <2> HIDE DEF within
  <2> QED
    BY <2>1, <2>2, SureParts, LoadSure
<1>3. CASE ~s.p.attached /\ ~(s.p.state = "paused" /\ s.p.current # NoEntry)
  BY <1>3 DEF resume_inner
<1> QED
  BY <1>1, <1>2, <1>3

(* The intent to pause is lifted before a load, *)
LEMMA UnpausedCut ==
  ASSUME NEW s, Good(s), Sure(s),
         NEW q, QueueOK(q), Seated(q), Ordered(q),
         NEW u, u = [s EXCEPT !.q = q, !.p.pause_intent = FALSE]
  PROVE  Good(u) /\ u.q = q /\ Cut(u)
<1> DEFINE x == [s.p EXCEPT !.pause_intent = FALSE]
<1>0. /\ s = [q |-> s.q, p |-> s.p, e |-> s.e] /\ s.p \in PlayerType
  BY GoodParts
<1>1. u = [s EXCEPT !.q = q, !.p = x]
  BY <1>0
<1>2. x.lengths = s.p.lengths /\ x.crossfade = s.p.crossfade
  BY <1>0 DEF PlayerType
<1>3. Good(u) /\ Calm(u)
  BY UnpausedMoves, SureParts DEF Moves
<1> HIDE DEF x
<1>4. u.q = q /\ u.p = x
  BY <1>0, <1>1, EditQueuePlayer
<1> QED
  BY <1>2, <1>3, <1>4, SureParts DEF Cut, Calm, Still

(* ... which toggling may come to. *)
LEMMA toggle_play_innerSure ==
  ASSUME NEW s, Good(s), Hinted, Sure(s)
  PROVE  Sure(toggle_play_inner(s))
<1> DEFINE u == [s EXCEPT !.p.pause_intent = FALSE]
<1>1. CASE s.p.state = "playing"
  BY <1>1, pause_innerSure DEF toggle_play_inner
<1>2. CASE s.p.state \in {"ended", "idle", "error"}
  <2>1. toggle_play_inner(s) = IF s.p.current = NoEntry THEN s ELSE load(u, 0)
    BY <1>2 DEF toggle_play_inner
  <2>2. /\ s = [q |-> s.q, p |-> s.p, e |-> s.e] /\ s.p \in PlayerType /\ QueueOK(s.q)
    BY GoodParts
  <2>3. u = [s EXCEPT !.q = s.q, !.p.pause_intent = FALSE]
    BY <2>2
  <2>4. Moves(s, u) /\ Good(u) /\ Calm(u)
    BY <2>2, UnpausedMoves, SureParts DEF Moves
  <2>5. Seated(s.q) /\ Ordered(s.q)
    BY SureParts DEF Calm
  <2>6. u.q = s.q /\ Cut(u)
    BY <2>2, <2>3, <2>5, UnpausedCut
  <2>7. /\ u.p.lengths = s.p.lengths /\ u.p.crossfade = s.p.crossfade /\ u.e = s.e
        /\ u.p.pending_ended = s.p.pending_ended
    BY <2>2 DEF PlayerType
  <2> HIDE DEF u
  <2>8. current(s.q) = NoEntry => ~HasSession(s.e)
    BY SureParts DEF Heard, HasSession
  <2>9. current(u.q) = NoEntry => Sure(u)
    BY <2>4, <2>6, <2>7, <2>8, SureParts, KeepsSure
  <2>10. Sure(load(u, 0))
    BY <2>4, <2>6, <2>9, LoadSure
  <2> QED
    BY <2>1, <2>10
<1>3. CASE s.p.state \notin {"playing", "ended", "idle", "error"}
  BY <1>3, resume_innerSure DEF toggle_play_inner
<1> QED
  BY <1>1, <1>2, <1>3

(* Stop: the session is sent to its start, and the clock no longer counts. *)
LEMMA stop_innerSure ==
  ASSUME NEW s, Good(s), Hinted, Sure(s)
  PROVE  Sure(stop_inner(s))
<1> DEFINE x == [Supersede(s.p) EXCEPT !.pause_intent = TRUE, !.pending_ended = FALSE,
                                       !.state = "idle", !.position = 0]
           y == IF s.p.attached THEN seek(pause_pumping(s.e), 0) ELSE s.e
           t == stop_inner(s)
<1>0. /\ s = [q |-> s.q, p |-> s.p, e |-> s.e] /\ s.p \in PlayerType /\ EngineOK(s.e)
  BY GoodParts
<1>1. t = [s EXCEPT !.p = x, !.e = y]
  BY <1>0 DEF stop_inner
<1>2. /\ y.standby = s.e.standby /\ y.error = s.e.error /\ y.current.item = s.e.current.item
      /\ HasSession(s.e) => y.current.base = 0
  <2> DEFINE z == pause_pumping(s.e)
  <2>1. EngineOK(z) /\ z.current = s.e.current /\ z.standby = s.e.standby /\ z.error = s.e.error
    BY <1>0, PumpingOK, LanePlaces
  <2> HIDE DEF z
  <2>2. /\ HasSession(s.e) => s.e.current.base = 0 /\ 0 <= TrackLen[z.current.item]
        /\ HasSession(z) <=> HasSession(s.e)
    BY <2>1, HeardParts, TrackLenAssumption DEF HasSession
  <2>3. /\ seek(z, 0).standby = z.standby /\ seek(z, 0).error = z.error /\ seek(z, 0).current.item = z.current.item
        /\ HasSession(z) => seek(z, 0).current.base = 0
    <3>1. seek(z, 0).standby = z.standby /\ seek(z, 0).error = z.error /\ seek(z, 0).current.item = z.current.item
      BY <2>1, <2>2, SeekPlace, SeekOK
    <3>2. ASSUME HasSession(z) PROVE seek(z, 0).current.base = 0
      <4>1. \/ seek(z, 0).current = z.current
            \/ seek(z, 0).current = Session(z.current.item, 0, FALSE)
        BY <2>1, <2>2, <3>2, SeekPlace
      <4> QED
        BY <2>1, <2>2, <3>2, <4>1 DEF Session
    <3> QED
      BY <3>1, <3>2
  <2>4. y = IF s.p.attached THEN seek(z, 0) ELSE s.e
    BY DEF z
  <2> HIDE DEF y
  <2> QED
    BY <2>1, <2>2, <2>3, <2>4
<1>3. /\ x.state = "idle" /\ x.pause_intent = TRUE /\ x.lengths = s.p.lengths
      /\ x.crossfade = s.p.crossfade /\ x.pending_ended = FALSE
  <2> DEFINE sup == Supersede(s.p)
  <2>1. sup \in PlayerType /\ sup.lengths = s.p.lengths /\ sup.crossfade = s.p.crossfade
    BY <1>0, SupersedeKeeps
  <2> HIDE DEF sup
  <2> QED
    BY <2>1 DEF PlayerType, sup
<1>4. Good(t) /\ Calm(t)
  BY stop_innerMoves, SureParts DEF Moves
<1> HIDE DEF x, y, t
<1>5. t.q = s.q /\ t.p = x /\ t.e = y
  BY <1>0, <1>1, EditPlayerEngine
<1>6. HasSession(t.e) => HasSession(s.e) /\ s.e.current.base = 0
  BY <1>2, <1>5, SureParts DEF HasSession, Heard
<1> QED
  BY <1>2, <1>3, <1>4, <1>5, <1>6, SureParts, KeepsSure DEF t

(* A teardown forgets what was learnt, and closes the session. *)
LEMMA teardown_innerSure ==
  ASSUME NEW s, Good(s), Sure(s)
  PROVE  Sure(teardown_inner(s))
<1> DEFINE none == [i \in Entries |-> Unknown]
           x == [Supersede(s.p) EXCEPT
                   !.pause_intent = FALSE, !.pending_ended = FALSE,
                   !.lengths = none, !.reset_offset = 0,
                   !.restored = NoPlace, !.xfade = NoXfade, !.in_progress = FALSE,
                   !.attached = FALSE, !.state = "idle", !.current = NoEntry,
                   !.position = 0]
           y == IF s.p.attached THEN close(s.e) ELSE s.e
           t == teardown_inner(s)
<1>0. /\ s = [q |-> s.q, p |-> s.p, e |-> s.e] /\ s.p \in PlayerType /\ EngineOK(s.e)
  BY GoodParts
<1>1. t = [s EXCEPT !.p = x, !.e = y]
  BY <1>0 DEF teardown_inner
<1>2. ~HasSession(y) /\ Unstarted(y.standby) /\ ~y.error
  BY <1>0, SureParts DEF close, ClosedEngine, NoSession, Session, HasSession, Unstarted
<1>3. /\ x.lengths = none /\ x.crossfade = s.p.crossfade /\ x.pending_ended = FALSE
  <2> DEFINE sup == Supersede(s.p)
  <2>1. sup \in PlayerType /\ sup.crossfade = s.p.crossfade
    BY <1>0, SupersedeKeeps
  <2> HIDE DEF sup, none
  <2> QED
    BY <2>1 DEF PlayerType, sup
<1>4. Good(t) /\ Calm(t)
  BY teardown_innerMoves, SureParts DEF Moves
<1>5. Learnt(none)
  BY DEF Learnt
<1> HIDE DEF x, y, t, none
<1>6. t.q = s.q /\ t.p = x /\ t.e = y
  BY <1>0, <1>1, EditPlayerEngine
<1>7. Cut(t)
  BY <1>3, <1>4, <1>5, <1>6, SureParts DEF Cut, Calm, Still
<1> QED
  BY <1>2, <1>3, <1>4, <1>6, <1>7 DEF Sure, t

-----------------------------------------------------------------------------
(***************************************************************************)
(* The list in its own order.                                              *)
(***************************************************************************)
(* Without shuffle a rebuilt order is empty. *)
LEMMA RebuiltStraight ==
  ASSUME NEW q, Sketch(q), ~q.shuffling, NEW r \in rebuild_order(q)
  PROVE  /\ QueueOK(r) /\ r.items = q.items /\ r.index = q.index
         /\ r.repeat = q.repeat /\ r.shuffling = FALSE
<1>1. QueueOK(r) /\ r.items = q.items /\ r.index = q.index
  BY RebuildOK
<1>2. r = [q EXCEPT !.order = <<>>]
  BY DEF rebuild_order
<1>3. r.repeat = q.repeat /\ r.shuffling = q.shuffling
  BY <1>2, SetOrder DEF Sketch
<1> QED
  BY <1>1, <1>3 DEF Sketch

(* A list that is not empty has a current entry. *)
LEMMA CurrentThere ==
  ASSUME NEW q, QueueOK(q), Seated(q), q.items # <<>>
  PROVE  current(q) \in Entries /\ current(q) # NoEntry
<1>1. q.items \in Seq(Entries) /\ Len(q.items) \in Nat /\ Len(q.items) > 0
  BY LenProperties, EmptySeq DEF QueueOK, Sketch
<1>2. q.index \in 0..(Length(q) - 1) /\ q.index + 1 \in 1..Len(q.items)
  BY <1>1 DEF Seated, QueueOK, Sketch, IndexOK, Length
<1> QED
  BY <1>1, <1>2, EntriesAssumption DEF current, at

(* Starting a playlist, *)
LEMMA PlayStraight ==
  ASSUME NEW q, QueueOK(q), Ordered(q),
         NEW items \in Seq(Entries), items # <<>>, NEW start \in Int,
         NEW r \in play_sequence(q, items, start)
  PROVE  QueueOK(r) /\ Ordered(r) /\ r.items = items
<1> DEFINE at0 == Clamp(start, 0, Len(items) - 1)
           m == [q EXCEPT !.items = items, !.index = at0, !.history = <<>>]
<1>1. Len(items) \in Nat /\ Len(items) > 0
  BY LenProperties, EmptySeq
<1>2. at0 \in 0..(Len(items) - 1)
  BY <1>1 DEF Clamp
<1> HIDE DEF at0
<1>3. m = [items |-> items, index |-> at0, order |-> q.order,
           history |-> <<>>, repeat |-> q.repeat, shuffling |-> q.shuffling]
  BY SetList DEF QueueOK, Sketch
<1>4. r \in rebuild_order(m)
  BY DEF play_sequence, at0
<1> HIDE DEF m
<1>5. Sketch(m) /\ ~m.shuffling /\ m.repeat = q.repeat /\ m.items = items
  BY <1>1, <1>2, <1>3 DEF Ordered, QueueOK, Sketch, IsQueue, IndexOK, Length
<1>6. QueueOK(r) /\ r.items = items /\ r.repeat = q.repeat /\ r.shuffling = FALSE
  BY <1>4, <1>5, RebuiltStraight
<1> QED
  BY <1>6 DEF Ordered

(* ... or one entry. *)
LEMMA PlayNowStraight ==
  ASSUME NEW q, QueueOK(q), Ordered(q), NEW e \in Entries,
         NEW r \in play_now(q, e)
  PROVE  QueueOK(r) /\ Ordered(r) /\ r.items = <<e>>
<1> DEFINE m == [q EXCEPT !.items = <<e>>, !.index = 0, !.history = <<>>]
<1>1. m = [items |-> <<e>>, index |-> 0, order |-> q.order,
           history |-> <<>>, repeat |-> q.repeat, shuffling |-> q.shuffling]
  BY SetList DEF QueueOK, Sketch
<1>2. r \in rebuild_order(m)
  BY DEF play_now
<1> HIDE DEF m
<1>3. <<e>> \in Seq(Entries) /\ Len(<<e>>) = 1
  OBVIOUS
<1>4. Sketch(m) /\ ~m.shuffling /\ m.repeat = q.repeat /\ m.items = <<e>>
  BY <1>1, <1>3 DEF Ordered, QueueOK, Sketch, IsQueue, IndexOK, Length
<1>5. QueueOK(r) /\ r.items = <<e>> /\ r.repeat = q.repeat /\ r.shuffling = FALSE
  BY <1>2, <1>4, RebuiltStraight
<1> QED
  BY <1>5 DEF Ordered

(* Moving the cursor keeps the list. *)
LEMMA SameListOrdered ==
  ASSUME NEW q, Ordered(q), NEW r, r.items = q.items,
         r.repeat = q.repeat, r.shuffling = q.shuffling
  PROVE  Ordered(r)
<1>1. Length(r) = Length(q) /\ \A i : at(r, i) = at(q, i)
  BY DEF Length, at
<1> QED
  BY <1>1 DEF Ordered

(* A jump of the cursor, *)
LEMMA MoveToStraight ==
  ASSUME NEW q, QueueOK(q), Ordered(q), NEW i, at(q, i) # NoEntry
  PROVE  /\ QueueOK(move_to(q, i)) /\ Ordered(move_to(q, i))
         /\ move_to(q, i).index = i /\ current(move_to(q, i)) = at(q, i)
<1> DEFINE r == move_to(q, i)
<1>1. r = [q EXCEPT !.index = i]
  BY DEF move_to, at
<1>2. QueueOK(r)
  BY MoveToOK
<1> HIDE DEF r
<1>3. /\ r.items = q.items /\ r.index = i /\ r.repeat = q.repeat /\ r.shuffling = q.shuffling
  BY <1>1, SetIndex DEF QueueOK, Sketch
<1>4. current(r) = at(q, i) /\ Ordered(r)
  BY <1>3, SameListOrdered DEF current, at, Length
<1> QED
  BY <1>2, <1>3, <1>4 DEF r

(* ... the next entry, which is the one after the cursor, *)
LEMMA NextStraight ==
  ASSUME NEW q, QueueOK(q), Ordered(q), NEW r \in next(q)
  PROVE  /\ QueueOK(r.queue) /\ Ordered(r.queue) /\ r.queue.items = q.items
         /\ r.item = NoEntry => r.queue.index = q.index
         /\ r.item # NoEntry => current(r.queue) = r.item
         /\ r.item # NoEntry /\ q.repeat # "all" => r.queue.index = q.index + 1
<1>n. Length(q) \in Nat /\ q.index \in -1..(Length(q) - 1)
  BY LenProperties DEF QueueOK, Sketch, Length, IndexOK
<1>1. PICK p \in peek_next_index(q) : r = Navigated(p)
  BY DEF next
<1> DEFINE h == push_history(q)
<1>h. /\ IsQueue(h) /\ h.items = q.items /\ h.index = q.index
      /\ h.shuffling = q.shuffling /\ h.repeat = q.repeat
  <2>1. PICK x : h = [q EXCEPT !.history = x]
    BY DEF push_history
  <2> HIDE DEF h
  <2> QED
    BY <2>1, HistoryOK, SetHistory DEF QueueOK, Sketch
<1> HIDE DEF h
<1>2. /\ IsQueue(p.queue) /\ p.queue.items = q.items /\ p.queue.index = q.index
      /\ p.queue.repeat = q.repeat /\ p.queue.shuffling = q.shuffling
      /\ p.target = NoIndex \/ p.target \in 0..(Length(q) - 1)
      /\ p.target # NoIndex /\ q.repeat # "all" => p.target = q.index + 1
  <2>1. CASE Length(q) = 0
    <3>1. p = [queue |-> q, target |-> NoIndex]
      BY <2>1 DEF peek_next_index
    <3> QED
      BY <3>1 DEF QueueOK, Sketch
  <2>2. CASE Length(q) # 0
    <3>1. p = [queue |-> h, target |-> next_index_under_repeat(h.index, Length(h), h.repeat)]
      BY <2>2 DEF peek_next_index, h, Ordered
    <3>2. Length(h) = Length(q)
      BY <1>h DEF Length
    <3>3. p.queue = h /\ p.target = next_index_under_repeat(q.index, Length(q), q.repeat)
      BY <1>h, <3>1, <3>2
    <3> QED
      BY <1>n, <1>h, <2>2, <3>3 DEF next_index_under_repeat, NoIndex
  <2> QED
    BY <2>1, <2>2
<1>3. r = [queue |-> MoveCursor(p),
           item |-> IF p.target = NoIndex THEN NoEntry ELSE at(p.queue, p.target)]
  BY <1>1 DEF Navigated
<1>4. QueueOK(r.queue) /\ (r.item # NoEntry => current(r.queue) = r.item)
  BY NextOK, NextSeated
<1>5. CASE p.target = NoIndex
  <2>1. r.queue = p.queue /\ r.item = NoEntry
    BY <1>3, <1>5 DEF MoveCursor
  <2>2. Ordered(r.queue)
    BY <1>2, <2>1, SameListOrdered
  <2> QED
    BY <1>2, <1>4, <2>1, <2>2
<1>6. CASE p.target # NoIndex
  <2>1. r.queue = [p.queue EXCEPT !.index = p.target] /\ r.item = at(p.queue, p.target)
    BY <1>3, <1>6 DEF MoveCursor
  <2>2. /\ r.queue.items = q.items /\ r.queue.index = p.target
        /\ r.queue.repeat = q.repeat /\ r.queue.shuffling = q.shuffling
    BY <1>2, <2>1, SetIndex
  <2>3. Ordered(r.queue)
    BY <2>2, SameListOrdered
  <2>4. r.item # NoEntry
    <3>1. p.target + 1 \in 1..Len(q.items) /\ q.items \in Seq(Entries)
      BY <1>2, <1>6, <1>n DEF Length, QueueOK, Sketch
    <3>2. r.item = q.items[p.target + 1]
      BY <1>2, <1>6, <2>1 DEF at, Length
    <3> QED
      BY <3>1, <3>2, EntriesAssumption
  <2> QED
    BY <1>2, <1>4, <1>6, <2>2, <2>3, <2>4
<1> QED
  BY <1>5, <1>6

(* ... and the previous one, which is an entry of the list, if there is one. *)
LEMMA PreviousStraight ==
  ASSUME NEW q, QueueOK(q), Ordered(q), NEW r \in previous(q)
  PROVE  /\ QueueOK(r.queue) /\ Ordered(r.queue) /\ r.queue.items = q.items
         /\ r.item = NoEntry => r.queue.index = q.index
         /\ r.item # NoEntry => current(r.queue) = r.item
<1>n. Length(q) \in Nat /\ q.index \in -1..(Length(q) - 1)
  BY LenProperties DEF QueueOK, Sketch, Length, IndexOK
<1>1. PICK p \in peek_prev_index(q) : r = Navigated(p)
  BY DEF previous
<1>2. /\ p.target = NoIndex \/ p.target \in 0..(Length(q) - 1)
      /\ p.queue = q \/ \E h : p.queue = [q EXCEPT !.history = h]
  <2>1. CASE Length(q) = 0
    BY <2>1 DEF peek_prev_index
  <2>2. CASE Length(q) # 0 /\ UsableHistory(q) # {}
    <3>1. PICK k \in PopTo(q) :
            p = [queue  |-> [q EXCEPT !.history = SubSeq(q.history, 1, k - 1)],
                 target |-> q.history[k]]
      BY <2>2 DEF peek_prev_index
    <3>2. p.target \in 0..(Length(q) - 1)
      BY <3>1 DEF PopTo, UsableHistory
    <3>3. p.queue = [q EXCEPT !.history = SubSeq(q.history, 1, k - 1)]
      BY <3>1
    <3>4. \E h : p.queue = [q EXCEPT !.history = h]
      BY <3>3, Zenon
    <3> QED
      BY <3>2, <3>4
  <2>3. CASE Length(q) # 0 /\ UsableHistory(q) = {}
    <3>1. p = [queue |-> [q EXCEPT !.history = <<>>],
               target |-> IF q.index >= 1 THEN q.index - 1 ELSE NoIndex]
      BY <2>3 DEF peek_prev_index, Ordered
    <3>2. p.queue = [q EXCEPT !.history = <<>>]
          /\ p.target = IF q.index >= 1 THEN q.index - 1 ELSE NoIndex
      BY <3>1
    <3>3. \E h : p.queue = [q EXCEPT !.history = h]
      BY <3>2, Zenon
    <3>4. p.target = NoIndex \/ p.target \in 0..(Length(q) - 1)
      BY <1>n, <3>2
    <3> QED
      BY <3>3, <3>4
  <2> QED
    BY <2>1, <2>2, <2>3
<1>3. /\ IsQueue(p.queue) /\ p.queue.items = q.items /\ p.queue.index = q.index
      /\ p.queue.repeat = q.repeat /\ p.queue.shuffling = q.shuffling
  <2>1. CASE p.queue = q
    BY <2>1 DEF QueueOK, Sketch
  <2>2. ASSUME NEW h, p.queue = [q EXCEPT !.history = h]
        PROVE  /\ IsQueue(p.queue) /\ p.queue.items = q.items /\ p.queue.index = q.index
               /\ p.queue.repeat = q.repeat /\ p.queue.shuffling = q.shuffling
    <3>1. /\ QueueOK([q EXCEPT !.history = h]) /\ [q EXCEPT !.history = h].items = q.items
          /\ [q EXCEPT !.history = h].index = q.index
          /\ [q EXCEPT !.history = h].repeat = q.repeat
          /\ [q EXCEPT !.history = h].shuffling = q.shuffling
      BY HistoryOK
    <3> QED
      BY <2>2, <3>1 DEF QueueOK, Sketch
  <2> QED
    BY <1>2, <2>1, <2>2
<1>4. r = [queue |-> MoveCursor(p),
           item |-> IF p.target = NoIndex THEN NoEntry ELSE at(p.queue, p.target)]
  BY <1>1 DEF Navigated
<1>5. QueueOK(r.queue)
  BY PreviousOK
<1>6. CASE p.target = NoIndex
  <2>1. r.queue = p.queue /\ r.item = NoEntry
    BY <1>4, <1>6 DEF MoveCursor
  <2>2. Ordered(r.queue)
    BY <1>3, <2>1, SameListOrdered
  <2> QED
    BY <1>3, <1>5, <2>1, <2>2
<1>7. CASE p.target # NoIndex
  <2>1. r.queue = [p.queue EXCEPT !.index = p.target] /\ r.item = at(p.queue, p.target)
    BY <1>4, <1>7 DEF MoveCursor
  <2>2. /\ r.queue.items = q.items /\ r.queue.index = p.target
        /\ r.queue.repeat = q.repeat /\ r.queue.shuffling = q.shuffling
    BY <1>3, <2>1, SetIndex
  <2>3. Ordered(r.queue)
    BY <2>2, SameListOrdered
  <2>4. r.item # NoEntry /\ current(r.queue) = r.item
    <3>1. p.target + 1 \in 1..Len(q.items) /\ q.items \in Seq(Entries)
      BY <1>2, <1>7, <1>n DEF Length, QueueOK, Sketch
    <3>2. r.item = q.items[p.target + 1] /\ current(r.queue) = q.items[p.target + 1]
      BY <1>2, <1>3, <1>7, <2>1, <2>2 DEF at, current, Length
    <3> QED
      BY <3>1, <3>2, EntriesAssumption
  <2> QED
    BY <1>5, <2>2, <2>3, <2>4
<1> QED
  BY <1>6, <1>7

-----------------------------------------------------------------------------
(***************************************************************************)
(* The commands on the queue.                                              *)
(***************************************************************************)
LEMMA StartSure ==
  ASSUME NEW s, Good(s), Hinted, Sure(s), NEW queues,
         \A q \in queues : /\ QueueOK(q) /\ Seated(q) /\ Ordered(q)
                           /\ current(q) # NoEntry,
         NEW t \in Start(s, queues)
  PROVE  Sure(t)
<1>1. PICK q \in queues : t = load([s EXCEPT !.q = q, !.p.pause_intent = FALSE], 0)
  BY DEF Start
<1> DEFINE u == [s EXCEPT !.q = q, !.p.pause_intent = FALSE]
<1>2. QueueOK(q) /\ Seated(q) /\ Ordered(q) /\ current(q) # NoEntry
  OBVIOUS
<1>3. Good(u) /\ u.q = q /\ Cut(u)
  BY <1>2, UnpausedCut
<1> HIDE DEF u
<1>4. Sure(load(u, 0))
  BY <1>2, <1>3, LoadSure
<1> QED
  BY <1>1, <1>4 DEF u

(* A jump in the list, *)
LEMMA play_queue_indexSure ==
  ASSUME NEW s, Good(s), Hinted, Sure(s), NEW i,
         NEW t \in play_queue_index(s, i)
  PROVE  Sure(t)
<1>1. CASE at(s.q, i) = NoEntry \/ i = s.q.index
  BY <1>1 DEF play_queue_index
<1>2. CASE ~(at(s.q, i) = NoEntry \/ i = s.q.index)
  <2> DEFINE q == move_to(s.q, i)
  <2>1. t \in Start(s, {q})
    BY <1>2 DEF play_queue_index
  <2>2. QueueOK(s.q) /\ Seated(s.q) /\ Ordered(s.q)
    BY GoodParts, SureParts DEF Calm
  <2>3. QueueOK(q) /\ Seated(q) /\ Ordered(q) /\ current(q) # NoEntry
    BY <1>2, <2>2, MoveToStraight, MoveToOK
  <2> HIDE DEF q
  <2> QED
    BY <2>1, <2>3, StartSure
<1> QED
  BY <1>1, <1>2

(* ... and a skip. *)
LEMMA SkipSure ==
  ASSUME NEW s, Good(s), Hinted, Sure(s), NEW moves,
         \A r \in moves :
           /\ QueueOK(r.queue) /\ Seated(r.queue) /\ Ordered(r.queue)
           /\ r.queue.items = s.q.items
           /\ r.item = NoEntry => r.queue.index = s.q.index
           /\ r.item # NoEntry => current(r.queue) = r.item,
         NEW t \in Skip(s, moves)
  PROVE  Sure(t)
<1>1. PICK r \in moves :
        t = LET u == [s EXCEPT !.q = r.queue, !.p = Supersede(@)]
            IN  IF r.item = NoEntry THEN u ELSE load(u, 0)
  BY DEF Skip
<1> DEFINE v == [s EXCEPT !.p = Supersede(@)]
           u == [s EXCEPT !.q = r.queue, !.p = Supersede(@)]
<1>2. /\ Good(v) /\ Sure(v) /\ v.q = s.q /\ v.e = s.e
  BY SupersedeSure
<1>3. u = [v EXCEPT !.q = r.queue]
  BY DEF Good, SystemOK
<1>4. t = IF r.item = NoEntry THEN u ELSE load(u, 0)
  BY <1>1
<1> HIDE DEF v, u
<1>5. /\ QueueOK(r.queue) /\ Seated(r.queue) /\ Ordered(r.queue)
      /\ r.queue.items = s.q.items
      /\ r.item = NoEntry => r.queue.index = s.q.index
      /\ r.item # NoEntry => current(r.queue) = r.item
  OBVIOUS
<1>6. Moves(v, u) /\ u.q = r.queue /\ u.p = v.p /\ u.e = v.e
  <2> DEFINE w == [v EXCEPT !.q = r.queue]
  <2>1. Moves(v, w) /\ w.q = r.queue /\ w.p = v.p /\ w.e = v.e
    BY <1>2, <1>5, QueueMoves
  <2> HIDE DEF w
  <2>2. u = w
    BY <1>3 DEF w
  <2> QED
    BY <2>1, <2>2
<1>7. Good(u) /\ Calm(u)
  BY <1>2, <1>6, SureParts DEF Moves
<1>8. CASE r.item = NoEntry
  <2>0. /\ u.q.shuffling = FALSE /\ v.q.shuffling = FALSE /\ (PreloadNext => u.q.repeat # "all")
    <3>1. QueueOK(v.q) /\ ~v.q.shuffling
      BY <1>2, GoodParts, SureParts
    <3> QED
      BY <1>5, <1>6, <3>1 DEF Ordered, QueueOK, Sketch
  <2>1. Sure(u)
    <3>1. /\ v.p.crossfade = 0 /\ ~v.p.pending_ended /\ Unstarted(v.e.standby) /\ ~v.e.error
          /\ HasSession(v.e) => /\ v.p.state = "playing" => v.e.pumping
                                /\ v.p.state = "idle" => v.p.pause_intent
      BY <1>2, SureParts
    <3> QED
      BY <1>2, <1>5, <1>6, <1>7, <1>8, <2>0, <3>1, KeepsSure
  <2> QED
    BY <1>4, <1>8, <2>1
<1>9. CASE r.item # NoEntry
  <2>1. Cut(u)
    BY <1>2, <1>5, <1>6, <1>7, SureParts DEF Cut, Calm, Still
  <2>2. Sure(load(u, 0))
    BY <1>5, <1>6, <1>7, <1>9, <2>1, LoadSure
  <2> QED
    BY <1>4, <1>9, <2>2
<1> QED
  BY <1>8, <1>9

(* Forward, *)
LEMMA PlayerNextSure ==
  ASSUME NEW s, Good(s), Hinted, Sure(s), NEW t \in PlayerNext(s)
  PROVE  Sure(t)
<1>1. QueueOK(s.q) /\ Seated(s.q) /\ Ordered(s.q)
  BY GoodParts, SureParts DEF Calm
<1>2. \A r \in next(s.q) :
        /\ QueueOK(r.queue) /\ Seated(r.queue) /\ Ordered(r.queue)
        /\ r.queue.items = s.q.items
        /\ r.item = NoEntry => r.queue.index = s.q.index
        /\ r.item # NoEntry => current(r.queue) = r.item
  BY <1>1, NextStraight, NextSeated
<1> QED
  BY <1>2, SkipSure DEF PlayerNext

(* ... and back. *)
LEMMA PlayerPreviousSure ==
  ASSUME NEW s, Good(s), Hinted, Sure(s), NEW t \in PlayerPrevious(s)
  PROVE  Sure(t)
<1>1. QueueOK(s.q) /\ Seated(s.q) /\ Ordered(s.q)
  BY GoodParts, SureParts DEF Calm
<1>2. \A r \in previous(s.q) :
        /\ QueueOK(r.queue) /\ Seated(r.queue) /\ Ordered(r.queue)
        /\ r.queue.items = s.q.items
        /\ r.item = NoEntry => r.queue.index = s.q.index
        /\ r.item # NoEntry => current(r.queue) = r.item
  BY <1>1, PreviousStraight, PreviousSeated
<1>3. t = restart_current_track(s) \/ t \in Skip(s, previous(s.q))
  BY DEF PlayerPrevious
<1> QED
  BY <1>2, <1>3, SkipSure, restart_current_trackSure

(* A repeat mode that a preload can follow. *)
LEMMA set_repeatSure ==
  ASSUME NEW s, Good(s), Sure(s), NEW mode \in RepeatModes,
         PreloadNext => mode # "all"
  PROVE  Sure([s EXCEPT !.q = set_repeat(@, mode)])
<1> DEFINE q == set_repeat(s.q, mode)
           t == [s EXCEPT !.q = q]
<1>0. s = [q |-> s.q, p |-> s.p, e |-> s.e] /\ QueueOK(s.q)
  BY GoodParts
<1>1. /\ q.items = s.q.items /\ q.index = s.q.index /\ q.shuffling = s.q.shuffling
      /\ q.repeat = mode
  BY <1>0 DEF set_repeat, QueueOK, Sketch, IsQueue
<1>2. Good(t) /\ (Linked(s) => Linked(t))
  BY set_repeatSteps DEF Steps
<1> HIDE DEF q
<1>3. t.q = q /\ t.p = s.p /\ t.e = s.e
  BY <1>0
<1> HIDE DEF t
<1>4. Calm(t)
  BY <1>2, <1>3, SureParts DEF Linked, Fading
<1>5. Sure(t)
  BY <1>1, <1>2, <1>3, <1>4, SureParts, KeepsSure
<1> QED
  BY <1>5 DEF t, q

(* No crossfade is chosen but none. *)
LEMMA SetCrossfadeSure ==
  ASSUME NEW s, Good(s), Sure(s)
  PROVE  Sure([s EXCEPT !.p.crossfade = 0])
<1>1. [s EXCEPT !.p.crossfade = 0] = s
  <2>1. s = [q |-> s.q, p |-> s.p, e |-> s.e] /\ s.p \in PlayerType /\ s.p.crossfade = 0
    BY GoodParts, SureParts
  <2> DEFINE x == [s.p EXCEPT !.crossfade = 0]
  <2>2. x = s.p
    BY <2>1 DEF PlayerType
  <2>3. [s EXCEPT !.p.crossfade = 0] = [s EXCEPT !.p = x]
    OBVIOUS
  <2> HIDE DEF x
  <2>4. [s EXCEPT !.p = x] = [q |-> s.q, p |-> x, e |-> s.e]
    BY <2>1, SystemEdits
  <2> QED
    BY <2>1, <2>2, <2>3, <2>4
<1> QED
  BY <1>1

(* A restored session waits, with the list as it was and nothing learnt. *)
LEMMA restoreSure ==
  ASSUME NEW s, Good(s), Sure(s), HasSnapshot(s),
         NEW t \in restore([q |-> EmptyQueue, p |-> NewPlayer, e |-> ClosedEngine],
                           take_snapshot(s))
  PROVE  Sure(t)
<1> DEFINE b == [q |-> EmptyQueue, p |-> NewPlayer, e |-> ClosedEngine]
           snap == take_snapshot(s)
           i == Clamp(snap.index, 0, Len(snap.items) - 1)
           l == set_all(set_repeat(b.q, snap.repeat), snap.items, i)
           qs == IF snap.shuffle THEN set_shuffle(l, TRUE) ELSE {l}
           F(z) == [b EXCEPT !.q = z,
                             !.p.crossfade = IF snap.crossfade > 0 THEN snap.crossfade ELSE @]
           start(z)  == offset(F(z), i)
           within(z) == Least(snap.position, Minus(length_of(F(z), i), 1))
           T(z) == [F(z) EXCEPT !.p.restored = [idx |-> i, within |-> within(z)],
                                !.p.current = current(z),
                                !.p.state = "paused",
                                !.p.position = start(z) + within(z),
                                !.p.track_start = start(z)]
<1>0. Good(t) /\ Calm(t)
  BY restoreKeeps
<1>1. /\ snap.items = s.q.items /\ snap.repeat = s.q.repeat /\ snap.shuffle = s.q.shuffling
      /\ snap.crossfade = s.p.crossfade
  BY DEF take_snapshot
<1>2. ~s.q.shuffling /\ s.p.crossfade = 0 /\ Ordered(s.q)
  BY SureParts
<1>3. restore(b, snap) = {T(z) : z \in qs}
  <2> HIDE DEF snap, b
  <2> QED
    BY DEF restore
<1> HIDE DEF T, l
<1>4. t = T(l)
  <2>1. qs = {l}
    BY <1>1, <1>2
  <2>2. t \in restore(b, snap)
    OBVIOUS
  <2> HIDE DEF qs, snap, b
  <2> QED
    BY <1>3, <2>1, <2>2
<1>5. l.items = s.q.items /\ l.repeat = s.q.repeat /\ l.shuffling = FALSE
  <2>1. b.q = EmptyQueue
    OBVIOUS
  <2> HIDE DEF b, i, snap
  <2> QED
    BY <1>1, <2>1 DEF l, set_all, set_repeat, EmptyQueue
<1> DEFINE x == [NewPlayer EXCEPT !.crossfade = 0]
<1>6. F(l) = [q |-> l, p |-> x, e |-> ClosedEngine]
  <2> DEFINE d == [b EXCEPT !.q = l]
  <2>1. d = [q |-> l, p |-> NewPlayer, e |-> ClosedEngine]
    OBVIOUS
  <2>2. F(l) = [d EXCEPT !.p.crossfade = IF snap.crossfade > 0 THEN snap.crossfade ELSE @]
    OBVIOUS
  <2>3. NewPlayer.crossfade = 0
    BY DEF NewPlayer
  <2> HIDE DEF d, F, b, snap
  <2>4. F(l) = [d EXCEPT !.p = x]
    BY <1>1, <1>2, <2>1, <2>2, <2>3
  <2> HIDE DEF x
  <2> QED
    BY <2>1, <2>4
<1> HIDE DEF F, start, within, i, snap, b, qs
<1>7. x.lengths = [e \in Entries |-> Unknown] /\ x.crossfade = 0 /\ x.pending_ended = FALSE
  BY DEF NewPlayer
<1> HIDE DEF x
<1> DEFINE y == [x EXCEPT !.restored = [idx |-> i, within |-> within(l)],
                          !.current = current(l), !.state = "paused",
                          !.position = start(l) + within(l), !.track_start = start(l)]
<1>8. y.lengths = x.lengths /\ y.crossfade = x.crossfade /\ y.pending_ended = x.pending_ended
  OBVIOUS
<1>9. t = [q |-> l, p |-> y, e |-> ClosedEngine]
  <2>1. t = [F(l) EXCEPT !.p.restored = [idx |-> i, within |-> within(l)],
                         !.p.current = current(l), !.p.state = "paused",
                         !.p.position = start(l) + within(l), !.p.track_start = start(l)]
    BY <1>4 DEF T
  <2> DEFINE u == F(l)
  <2>2. u = [q |-> l, p |-> x, e |-> ClosedEngine]
    BY <1>6
  <2>3. t = [u EXCEPT !.p.restored = [idx |-> i, within |-> within(l)],
                      !.p.current = current(l), !.p.state = "paused",
                      !.p.position = start(l) + within(l), !.p.track_start = start(l)]
    BY <2>1
  <2> HIDE DEF u
  <2>4. t = [u EXCEPT !.p = y]
    BY <2>2, <2>3
  <2> HIDE DEF y
  <2> QED
    BY <2>2, <2>4
<1> HIDE DEF y
<1>10. t.q = l /\ t.p = y /\ t.e = ClosedEngine
  BY <1>9
<1>11. ~HasSession(ClosedEngine) /\ Unstarted(ClosedEngine.standby) /\ ~ClosedEngine.error
  BY DEF HasSession, ClosedEngine, NoSession, Session, Unstarted
<1>12. Ordered(l)
  <2>1. QueueOK(s.q)
    BY GoodParts
  <2>2. l.shuffling = s.q.shuffling
    BY <1>2, <1>5, <2>1 DEF QueueOK, Sketch
  <2> QED
    BY <1>2, <1>5, <2>2, SameListOrdered
<1>13. Learnt(y.lengths)
  BY <1>7, <1>8 DEF Learnt
<1>14. Cut(t)
  BY <1>0, <1>7, <1>8, <1>10, <1>12, <1>13 DEF Cut, Calm, Still
<1> QED
  BY <1>0, <1>7, <1>8, <1>10, <1>11, <1>14 DEF Sure

-----------------------------------------------------------------------------
(***************************************************************************)
(* The device callback.                                                    *)
(***************************************************************************)
\* What plays has more of its track to give.
Amid(s) ==
  s.p.state = "playing" /\ HasSession(s.e)
  => s.e.current.from + s.e.current.read < TrackLen[s.e.current.item]

\* What has been read leaves more, or is the last of the track.
Fed(e) ==
  e.pumping /\ HasSession(e)
  => \/ is_output_drained(e) \/ e.error
     \/ e.current.from + e.current.read < TrackLen[e.current.item]

(* A callback reads on, and may meet a decode error. *)
LEMMA ConsumedSure ==
  ASSUME NEW s, Good(s), Sure(s), NEW n \in 1..(HighWater - 1)
  PROVE  LET t == [s EXCEPT !.e = consume(@, n)]
         IN  /\ Good(t) /\ Calm(t) /\ Fed(t.e) /\ t.q = s.q /\ t.p = s.p
             /\ t.e.current.item = s.e.current.item /\ t.e.pumping = s.e.pumping
             /\ t.e.current.from = s.e.current.from /\ t.e.current.base = s.e.current.base
             /\ t.e.standby = s.e.standby /\ (t.e.error => s.e.pumping)
<1> DEFINE y == consume(s.e, n)
           t == [s EXCEPT !.e = y]
<1>0. /\ s = [q |-> s.q, p |-> s.p, e |-> s.e] /\ QueueOK(s.q) /\ s.p \in PlayerType
      /\ EngineOK(s.e)
  BY GoodParts
<1>1. [s EXCEPT !.e = consume(@, n)] = t
  BY <1>0
<1>2. n \in Nat
  BY RingAssumption
<1>3. y = ReadCurrent(s.e, n)
  BY DEF consume, Sure, Calm
<1>4. /\ y.current.item = s.e.current.item /\ y.pumping = s.e.pumping
      /\ y.current.from = s.e.current.from /\ y.current.base = s.e.current.base
      /\ y.standby = s.e.standby /\ Fed(y) /\ (y.error => s.e.pumping)
  BY <1>0, <1>2, <1>3, ReadCurrentOK, ReadPlace, SureParts DEF Fed, HasSession
<1>5. Good(t) /\ (Linked(s) => Linked(t) \/ Faded(t))
  BY <1>1, <1>2, ConsumedKeeps
<1> HIDE DEF y
<1>6. t.q = s.q /\ t.p = s.p /\ t.e = y
  BY <1>0, SystemEdits
<1> HIDE DEF t
<1>7. Calm(t)
  BY <1>5, <1>6, SureParts DEF Linked, Fading, Faded
<1>8. /\ Good(t) /\ Calm(t) /\ Fed(t.e) /\ t.q = s.q /\ t.p = s.p
      /\ t.e.current.item = s.e.current.item /\ t.e.pumping = s.e.pumping
      /\ t.e.current.from = s.e.current.from /\ t.e.current.base = s.e.current.base
      /\ t.e.standby = s.e.standby /\ (t.e.error => s.e.pumping)
  BY <1>4, <1>5, <1>6, <1>7
<1> QED
  BY <1>1, <1>8 DEF t, y

(* The error is fed back: the player stops, and what it shows stays. *)
LEMMA SyncErrorSure ==
  ASSUME NEW s, Good(s), Sure(s), NEW n \in 1..(HighWater - 1)
  PROVE  LET t == SyncError(SyncCrossfade([s EXCEPT !.e = consume(@, n)]))
         IN  /\ Good(t) /\ Sure(t)
             /\ is_output_drained(t.e) \/ Amid(t)
<1> DEFINE u == [s EXCEPT !.e = consume(@, n)]
           y == [u.e EXCEPT !.error = FALSE]
           x == [u.p EXCEPT !.state = "error"]
           t == SyncError(u)
<1>1. /\ Good(u) /\ Calm(u) /\ Fed(u.e) /\ u.q = s.q /\ u.p = s.p
      /\ u.e.current.item = s.e.current.item /\ u.e.pumping = s.e.pumping
      /\ u.e.current.from = s.e.current.from /\ u.e.current.base = s.e.current.base
      /\ u.e.standby = s.e.standby /\ (u.e.error => s.e.pumping)
  BY ConsumedSure
<1> HIDE DEF u
<1>2. SyncCrossfade(u) = u
  BY <1>1 DEF SyncCrossfade, Calm
<1>3. /\ u = [q |-> u.q, p |-> u.p, e |-> u.e] /\ u.p \in PlayerType /\ EngineOK(u.e)
  BY <1>1, GoodParts
<1>4. Good(t) /\ (Linked(u) => Linked(t))
  BY <1>1, SyncErrorSteps DEF Steps
<1>5. HasSession(u.e) <=> HasSession(s.e)
  BY <1>1 DEF HasSession
<1>6. CASE ~u.e.error
  <2>1. t = u
    BY <1>6 DEF SyncError
  <2> HIDE DEF t
  <2>2. Sure(u)
    BY <1>1, <1>5, <1>6, SureParts, KeepsSure
  <2>3. is_output_drained(u.e) \/ Amid(u)
    BY <1>1, <1>5, <1>6, SureParts DEF Amid, Fed
  <2> QED
    BY <1>2, <1>4, <2>1, <2>2, <2>3 DEF t, u
<1>7. CASE u.e.error
  <2> DEFINE v == [u EXCEPT !.e = y]
             z == pause_pumping(y)
  <2>1. t = fail(v)
    BY <1>3, <1>7 DEF SyncError
  <2>2. /\ EngineOK(y) /\ y.current = u.e.current /\ y.standby = u.e.standby
        /\ y.pumping = u.e.pumping /\ ~y.error
    BY <1>3, EngineEdits DEF EngineOK, EngineType
  <2> HIDE DEF y
  <2>3. z.current = u.e.current /\ z.standby = u.e.standby /\ ~z.error
    BY <2>2, PumpingOK, LanePlaces
  <2>4. v.q = u.q /\ v.p = u.p /\ v.e = y /\ v = [q |-> v.q, p |-> v.p, e |-> v.e]
    BY <1>3
  <2> HIDE DEF v
  <2>5. t = [v EXCEPT !.e = z, !.p = [v.p EXCEPT !.state = "error"]]
    BY <2>1, <2>4 DEF fail
  <2>6. t.q = u.q /\ t.p = x /\ t.e = z
    <3> HIDE DEF z, x, t
    <3>1. t = [q |-> v.q, p |-> [v.p EXCEPT !.state = "error"], e |-> z]
      BY <2>4, <2>5, EditEnginePlayer
    <3> QED
      BY <2>4, <3>1 DEF x
  <2>7. /\ x.state = "error" /\ x.lengths = u.p.lengths /\ x.crossfade = u.p.crossfade
        /\ x.pending_ended = u.p.pending_ended /\ x.reset_offset = u.p.reset_offset
        /\ x.in_progress = u.p.in_progress
    BY <1>3 DEF PlayerType
  <2> HIDE DEF x, z, t
  <2>8. Calm(t)
    BY <1>1, <1>4, <2>6, <2>7, SureParts DEF Linked, Fading
  <2>9. HasSession(t.e) => HasSession(s.e)
    BY <1>5, <2>3, <2>6 DEF HasSession
  <2>10. HasSession(s.e) => s.p.state # "idle"
    BY <1>1, <1>7, SureParts DEF Good, Hushed
  <2>11. Sure(t)
    BY <1>1, <1>4, <2>3, <2>6, <2>7, <2>8, <2>9, <2>10, SureParts, KeepsSure
  <2>12. Amid(t)
    BY <2>6, <2>7 DEF Amid
  <2> QED
    BY <1>2, <1>4, <2>11, <2>12 DEF t, u
<1> QED
  BY <1>2, <1>4, <1>6, <1>7 DEF t, u

(* The catch-up leaves the list, and while something plays the cursor. *)
LEMMA CatchUpSure ==
  ASSUME NEW s, Good(s), Hinted, Sure(s), Amid(s)
  PROVE  LET t == CatchUp(s, album_position(s))
         IN  /\ t.q.items = s.q.items /\ t.q.shuffling = s.q.shuffling
             /\ t.q.repeat = s.q.repeat
             /\ HasSession(s.e) => t.q.index = s.q.index
<1> DEFINE pos    == album_position(s)
           idx    == current_index_at(s, pos)
           target == Least(idx, s.q.index + 1)
           t == CatchUp(s, pos)
<1>0. /\ s = [q |-> s.q, p |-> s.p, e |-> s.e] /\ QueueOK(s.q) /\ LengthsOK(s.p.lengths)
  BY GoodParts
<1>1. t = s \/ (s.p.state = "playing" /\ idx > s.q.index /\ t = [s EXCEPT !.q = move_to(s.q, target)])
  BY DEF CatchUp
<1>2. /\ move_to(s.q, target).items = s.q.items /\ move_to(s.q, target).repeat = s.q.repeat
      /\ move_to(s.q, target).shuffling = s.q.shuffling
  BY <1>0 DEF move_to, QueueOK, Sketch, IsQueue
<1>3. ASSUME HasSession(s.e), s.p.state = "playing" PROVE ~(idx > s.q.index)
  <2>1. /\ s.q.index \in 0..(Length(s.q) - 1) /\ s.e.current.base = 0
        /\ length_of(s, s.q.index) = TrackLen[s.e.current.item]
    BY <1>3, HeardParts
  <2>2. /\ s.p.reset_offset \in Nat /\ s.e.current.from \in Nat /\ s.e.current.read \in Nat
        /\ offset(s, s.q.index) \in Nat /\ length_of(s, s.q.index) \in Nat
    BY GoodParts
  <2>3. offset(s, s.q.index) + s.e.current.from - s.p.reset_offset >= 0
    BY <1>3, SureParts DEF Heard, Lag
  <2>4. pos = s.p.reset_offset + s.e.current.read
    BY <1>3, <2>1, <2>2, SureParts DEF album_position, rendered_samples, rendered_frames
  <2>5. s.e.current.from + s.e.current.read < TrackLen[s.e.current.item]
    BY <1>3 DEF Amid
  <2> HIDE DEF pos
  <2>6. pos \in Nat /\ pos < offset(s, s.q.index) + length_of(s, s.q.index)
    BY <2>1, <2>2, <2>3, <2>4, <2>5
  <2>7. idx <= s.q.index
    BY <1>0, <2>1, <2>6, IndexBelow
  <2>8. idx \in Nat
    BY <1>0, <2>1, <2>6, IndexAtNat
  <2> QED
    BY <2>1, <2>7, <2>8
<1> HIDE DEF t, target, idx
<1>4. /\ t.q.items = s.q.items /\ t.q.shuffling = s.q.shuffling /\ t.q.repeat = s.q.repeat
      /\ HasSession(s.e) => t.q.index = s.q.index
  <2>1. CASE t = s
    BY <2>1
  <2>2. CASE s.p.state = "playing" /\ idx > s.q.index /\ t = [s EXCEPT !.q = move_to(s.q, target)]
    <3>1. t.q = move_to(s.q, target)
      BY <1>0, <2>2
    <3> QED
      BY <1>2, <1>3, <2>2, <3>1
  <2> QED
    BY <1>1, <2>1, <2>2
<1> QED
  BY <1>4 DEF t

(* A tick moves the cursor only where nothing plays, and begins no fade. *)
LEMMA on_tickSure ==
  ASSUME NEW s, Good(s), Hinted, Sure(s), Amid(s)
  PROVE  Good(on_tick(s)) /\ Sure(on_tick(s))
<1> DEFINE pos   == album_position(s)
           idx   == current_index_at(s, pos)
           moved == CatchUp(s, pos)
           ended == HasEnded(s, pos, total_length(s))
           x == [s.p EXCEPT !.check = NoCheck, !.position = pos, !.track_start = offset(s, idx),
                            !.state = IF ended THEN "ended" ELSE @,
                            !.pending_ended = @ /\ ~ended]
           shown == [moved EXCEPT !.p = x, !.e = IF ended THEN pause_pumping(@) ELSE @]
           t == on_tick(s)
<1>0. /\ s = [q |-> s.q, p |-> s.p, e |-> s.e] /\ QueueOK(s.q) /\ s.p \in PlayerType
  BY GoodParts
<1>1. ended = FALSE
  BY SureParts DEF HasEnded
<1>2. /\ moved.q.items = s.q.items /\ moved.q.shuffling = s.q.shuffling
      /\ moved.q.repeat = s.q.repeat /\ moved.p = s.p /\ moved.e = s.e
      /\ HasSession(s.e) => moved.q.index = s.q.index
      /\ moved = [q |-> moved.q, p |-> moved.p, e |-> moved.e]
  BY CatchUpSure, CatchUpSteps DEF Steps, Good, SystemOK
<1>3. \/ t = s
      \/ t = shown
      \/ ShouldFade(shown, track_remaining_samples(s, idx, pos))
  BY DEF on_tick
<1> HIDE DEF pos, idx, moved, ended
<1>4. /\ x.state = s.p.state /\ x.lengths = s.p.lengths /\ x.crossfade = s.p.crossfade
      /\ ~x.pending_ended /\ x.reset_offset = s.p.reset_offset
      /\ x.in_progress = s.p.in_progress /\ x.pause_intent = s.p.pause_intent
  BY <1>0, <1>1, SureParts DEF PlayerType
<1> HIDE DEF x
<1>5. shown.q = moved.q /\ shown.p = x /\ shown.e = s.e
  <2>1. shown = [moved EXCEPT !.p = x, !.e = moved.e]
    BY <1>1, <1>2
  <2> HIDE DEF shown
  <2>2. shown = [q |-> moved.q, p |-> x, e |-> moved.e]
    BY <1>2, <2>1, EditPlayerEngine
  <2> QED
    BY <1>2, <2>2
<1> HIDE DEF shown
<1>6. t = s \/ t = shown
  BY <1>3, <1>4, <1>5, SureParts DEF ShouldFade
<1>7. Good(t) /\ (Linked(s) => Linked(t))
  BY on_tickSteps DEF Steps
<1> HIDE DEF t
<1>8. CASE t = s
  BY <1>8 DEF t
<1>9. CASE t = shown
  <2>1. Calm(t)
    BY <1>4, <1>5, <1>7, <1>9, SureParts DEF Linked, Fading
  <2>2. Sure(t)
    BY <1>2, <1>4, <1>5, <1>7, <1>9, <2>1, SureParts, KeepsSure
  <2> QED
    BY <1>7, <2>2 DEF t
<1> QED
  BY <1>6, <1>8, <1>9

-----------------------------------------------------------------------------
(***************************************************************************)
(* The end of a track.  After the last one the tick finds that playback    *)
(* has ended, ...                                                          *)
(***************************************************************************)
LEMMA EndingSure ==
  ASSUME NEW s, Good(s), Sure(s), ~s.p.pause_intent, s.p.attached,
         is_output_drained(s.e),
         NEW q, QueueOK(q), Seated(q), Ordered(q), q.items = s.q.items,
         q.index = s.q.index
  PROVE  LET t == on_tick([s EXCEPT !.q = q, !.p.pending_ended = TRUE, !.e = pause_pumping(@)])
         IN  Good(t) /\ Sure(t) /\ t.p.state = "ended"
<1> DEFINE b == [s EXCEPT !.q = q, !.p.pending_ended = TRUE, !.e = pause_pumping(@)]
           bp == [s.p EXCEPT !.pending_ended = TRUE]
           be == pause_pumping(s.e)
<1>0. /\ s = [q |-> s.q, p |-> s.p, e |-> s.e] /\ QueueOK(s.q) /\ s.p \in PlayerType
      /\ EngineOK(s.e)
  BY GoodParts
<1>1. Moves(s, b)
  BY EndingMoves
<1>2. b = [q |-> q, p |-> bp, e |-> be]
  <2> DEFINE v == [s EXCEPT !.q = q]
             w == [v EXCEPT !.p.pending_ended = TRUE]
  <2>1. v = [q |-> q, p |-> s.p, e |-> s.e]
    BY <1>0, SystemEdits
  <2>2. b = [w EXCEPT !.e = pause_pumping(@)]
    OBVIOUS
  <2> HIDE DEF v
  <2>3. w = [v EXCEPT !.p = bp]
    BY <2>1
  <2> HIDE DEF bp, w
  <2>4. w = [q |-> q, p |-> bp, e |-> s.e]
    BY <2>1, <2>3
  <2> QED
    BY <2>2, <2>4
<1>3. /\ EngineOK(be) /\ be.current = s.e.current /\ be.standby = s.e.standby
      /\ be.error = s.e.error
  BY <1>0, PumpingOK, LanePlaces
<1>4. /\ bp \in PlayerType /\ bp.pending_ended = TRUE /\ bp.lengths = s.p.lengths
      /\ bp.crossfade = s.p.crossfade /\ bp.reset_offset = s.p.reset_offset
      /\ bp.in_progress = s.p.in_progress /\ bp.attached
  BY <1>0 DEF PlayerType
<1> HIDE DEF b, bp, be
<1>5. b.q = q /\ b.p = bp /\ b.e = be
  BY <1>2
<1> DEFINE pos   == album_position(b)
           idx   == current_index_at(b, pos)
           moved == CatchUp(b, pos)
           ended == HasEnded(b, pos, total_length(b))
           x == [b.p EXCEPT !.check = NoCheck, !.position = pos, !.track_start = offset(b, idx),
                            !.state = IF ended THEN "ended" ELSE @,
                            !.pending_ended = @ /\ ~ended]
           shown == [moved EXCEPT !.p = x, !.e = IF ended THEN pause_pumping(@) ELSE @]
           t == on_tick(b)
<1>6. ended = TRUE
  BY <1>3, <1>4, <1>5 DEF HasEnded, is_output_drained, HasSession
<1>7. moved = b
  BY <1>4, <1>5 DEF CatchUp
<1>8. \/ t = shown
      \/ ShouldFade(shown, track_remaining_samples(b, idx, pos))
  BY <1>4, <1>5 DEF on_tick
<1> HIDE DEF pos, idx, moved, ended
<1>9. /\ x.state = "ended" /\ x.lengths = s.p.lengths /\ x.crossfade = s.p.crossfade
      /\ ~x.pending_ended /\ x.reset_offset = s.p.reset_offset
      /\ x.in_progress = s.p.in_progress
  BY <1>4, <1>5, <1>6 DEF PlayerType
<1> HIDE DEF x
<1> DEFINE y == pause_pumping(be)
<1>10. y.current = s.e.current /\ y.standby = s.e.standby /\ y.error = s.e.error
  BY <1>3, PumpingOK, LanePlaces
<1> HIDE DEF y
<1>11. shown.q = q /\ shown.p = x /\ shown.e = y
  <2>1. shown = [b EXCEPT !.p = x, !.e = y]
    BY <1>2, <1>6, <1>7 DEF y
  <2> HIDE DEF shown
  <2>2. b = [q |-> b.q, p |-> b.p, e |-> b.e]
    BY <1>2, <1>5
  <2>3. shown = [q |-> b.q, p |-> x, e |-> y]
    BY <2>1, <2>2, EditPlayerEngine
  <2> QED
    BY <1>5, <2>3
<1> HIDE DEF shown
<1>12. t = shown
  BY <1>8, <1>9, <1>11 DEF ShouldFade
<1>13. Good(b) /\ Calm(b)
  BY <1>1, SureParts DEF Moves
<1>14. Good(t) /\ (Linked(b) => Linked(t))
  BY <1>13, on_tickSteps DEF Steps
<1> HIDE DEF t
<1>15. Calm(t)
  BY <1>9, <1>11, <1>12, <1>13, <1>14, SureParts DEF Linked, Fading
<1>16. HasSession(t.e) /\ HasSession(s.e)
  BY <1>10, <1>11, <1>12 DEF is_output_drained, HasSession
<1>17. q.shuffling = s.q.shuffling /\ (PreloadNext => q.repeat # "all")
  BY <1>0, SureParts DEF Ordered, QueueOK, Sketch
<1>18. Sure(t)
  BY <1>9, <1>10, <1>11, <1>12, <1>14, <1>15, <1>16, <1>17, SureParts, KeepsSure
<1> QED
  BY <1>9, <1>11, <1>12, <1>14, <1>18 DEF t, b

(* ... after another the entry it preloaded takes over at its start, ... *)
LEMMA PromotedSure ==
  ASSUME NEW s, Good(s), Hinted, Sure(s), PreloadNext,
         ~s.p.pause_intent, s.p.attached, HasSession(s.e),
         NEW item \in Entries, CanAdvance(s.e, item),
         NEW q, QueueOK(q), Seated(q), Ordered(q), q.items = s.q.items,
         q.index = s.q.index + 1, current(q) = item,
         NEW c, Good(c), c.q = q, c.p = s.p, c.e = advance(s.e, item)
  PROVE  Good(Promoted(c, item)) /\ Sure(Promoted(c, item)) /\ Amid(Promoted(c, item))
<1> DEFINE l     == Learn(c.p, item)
           learnt == [c EXCEPT !.p = l]
           start == offset(learnt, c.q.index)
           x     == [l EXCEPT !.track_start = start]
           ready == [c EXCEPT !.p = x]
           primed == Preload(ready)
           y     == [primed.p EXCEPT !.current = item, !.state = "playing"]
           z     == start_pumping(primed.e)
           t     == Promoted(c, item)
<1>0. /\ c = [q |-> c.q, p |-> c.p, e |-> c.e] /\ QueueOK(c.q) /\ c.p \in PlayerType
      /\ EngineOK(c.e) /\ EngineOK(s.e)
  BY GoodParts
<1>1. /\ c.e.current = s.e.standby /\ c.e.current.item = item /\ Unstarted(c.e.standby)
      /\ Unstarted(c.e.current) /\ ~c.e.error /\ c.e.xfade = s.e.xfade /\ c.e.result = s.e.result
  BY <1>0, LanePlaces, AdvanceOK, SureParts DEF CanAdvance
<1>2. Good(t) /\ Calm(t)
  <2>1. Still(c) /\ ~crossfade_pending(c.e) /\ c.e.result = NoResult
    BY <1>1, SureParts DEF Still, Calm, crossfade_pending
  <2> QED
    BY <1>1, <2>1, PromotedKeeps
<1>3. /\ l \in PlayerType /\ Wiser(s.p.lengths, l.lengths) /\ l.lengths[item] = TrackLen[item]
      /\ l.crossfade = s.p.crossfade /\ l.pending_ended = s.p.pending_ended
      /\ l.reset_offset = s.p.reset_offset
  <2>1. Wiser(s.p.lengths, l.lengths) /\ l.lengths[item] = TrackLen[item]
    BY <1>0, LearnWiser, SureParts
  <2>2. /\ l \in PlayerType /\ l.lengths \in [Entries -> Nat \cup {Unknown}]
        /\ l = [c.p EXCEPT !.lengths = l.lengths]
    BY <1>0, LearnOK
  <2> HIDE DEF l
  <2> QED
    BY <1>0, <2>1, <2>2 DEF PlayerType
<1>4. [learnt EXCEPT !.p.track_start = start] = ready
  BY <1>0
<1>5. t = [primed EXCEPT !.p.current = item, !.p.state = "playing", !.e = start_pumping(@)]
  <2> DEFINE p0 == Preload([learnt EXCEPT !.p.track_start = start])
  <2>1. t = [p0 EXCEPT !.p.current = item, !.p.state = "playing", !.e = start_pumping(@)]
    BY DEF Promoted
  <2>2. p0 = primed
    BY <1>4
  <2> HIDE DEF p0, primed
  <2> QED
    BY <2>1, <2>2
<1>6. start \in Nat
  <2> HIDE DEF l
  <2>1. learnt.q = c.q /\ learnt.p = l
    BY <1>0
  <2> HIDE DEF learnt
  <2> QED
    BY <1>0, <1>3, <2>1, OffsetNat DEF PlayerType, LengthsOK
<1> HIDE DEF l, start
<1>7. /\ x \in PlayerType /\ x.lengths = l.lengths /\ x.crossfade = s.p.crossfade
      /\ x.pending_ended = s.p.pending_ended /\ x.reset_offset = s.p.reset_offset
  BY <1>3, <1>6 DEF PlayerType
<1> HIDE DEF x
<1>8. SystemOK(ready) /\ ready.q = q /\ ready.p = x /\ ready.e = c.e
  BY <1>0, <1>7, SystemEdits, SystemIs
<1> HIDE DEF ready
<1>9. Learnt(l.lengths)
  BY <1>3, WiserLearnt, SureParts
<1>10. /\ SystemOK(primed) /\ primed.q = q /\ primed.e.current = c.e.current
       /\ Wiser(l.lengths, primed.p.lengths) /\ Unstarted(primed.e.standby) /\ ~primed.e.error
  BY <1>1, <1>7, <1>8, <1>9, PreloadOK, PreloadWiser
<1>11. /\ primed.p \in PlayerType /\ primed.p.crossfade = s.p.crossfade
       /\ primed.p.pending_ended = s.p.pending_ended /\ primed.p.reset_offset = s.p.reset_offset
  <2>1. PICK m \in [Entries -> Nat \cup {Unknown}] : primed.p = [ready.p EXCEPT !.lengths = m]
    BY <1>8, PreloadOK
  <2> HIDE DEF primed
  <2> QED
    BY <1>7, <1>8, <2>1 DEF PlayerType
<1>12. /\ Wiser(s.p.lengths, primed.p.lengths) /\ Learnt(primed.p.lengths)
       /\ primed.p.lengths[item] = TrackLen[item]
  <2>1. Wiser(s.p.lengths, primed.p.lengths)
    BY <1>3, <1>10, WiserOn
  <2>2. TrackLen[item] # Unknown
    BY TrackLenAssumption DEF Unknown
  <2> QED
    BY <1>3, <1>9, <1>10, <2>1, <2>2, WiserLearnt
<1> HIDE DEF primed
<1>13. /\ primed = [q |-> primed.q, p |-> primed.p, e |-> primed.e] /\ EngineOK(primed.e)
  BY <1>10 DEF SystemOK
<1>14. t = [primed EXCEPT !.p = y, !.e = z]
  BY <1>5, <1>13
<1>15. /\ y.state = "playing" /\ y.lengths = primed.p.lengths /\ y.crossfade = s.p.crossfade
       /\ y.pending_ended = s.p.pending_ended /\ y.reset_offset = s.p.reset_offset
  BY <1>11 DEF PlayerType
<1>16. /\ z.current = c.e.current /\ z.pumping = TRUE /\ z.standby = primed.e.standby
       /\ z.error = primed.e.error
  BY <1>10, <1>13, PumpingOK, LanePlaces
<1> HIDE DEF y, z, t
<1>17. t.q = q /\ t.p = y /\ t.e = z
  <2>1. t = [q |-> primed.q, p |-> y, e |-> z]
    BY <1>13, <1>14, EditPlayerEngine
  <2> QED
    BY <1>10, <2>1
<1>18. Cut(t)
  BY <1>2, <1>12, <1>15, <1>17, SureParts DEF Cut, Calm, Still
<1>19. Lag(t) >= 0
  <2> DEFINE i == s.q.index
  <2>1. /\ QueueOK(s.q) /\ LengthsOK(s.p.lengths) /\ LengthsOK(t.p.lengths)
        /\ s.p.reset_offset \in Nat /\ s.e.current.from \in Nat
        /\ offset(s, i) \in Nat /\ length_of(s, i) \in Nat
        /\ offset(t, i) \in Nat /\ length_of(t, i) \in Nat /\ offset(t, i + 1) \in Nat
    BY <1>2, GoodParts
  <2>2. /\ i \in 0..(Length(s.q) - 1) /\ length_of(s, i) = TrackLen[s.e.current.item]
        /\ s.e.current.item \in Entries
    BY HeardParts
  <2>3. i \in Nat /\ i + 1 \in 0..(Length(t.q) - 1)
    BY <1>17, <2>2, CursorPlace, EntriesAssumption
  <2>4. offset(t, i + 1) = offset(t, i) + length_of(t, i)
    BY <1>17, <2>1, <2>3, OffsetStep
  <2>5. offset(s, i) <= offset(t, i) /\ length_of(s, i) <= length_of(t, i)
    BY <1>12, <1>15, <1>17, <2>1, WiserLonger DEF Hinted
  <2>6. s.e.current.from <= TrackLen[s.e.current.item]
    <3>1. /\ s.e.current.write \in Nat /\ s.e.current.from + s.e.current.write <= TrackLen[s.e.current.item]
      BY <1>0 DEF EngineOK, SessionOK, SessionType, HasSession
    <3>2. TrackLen[s.e.current.item] \in Nat
      BY <2>2, TrackLenAssumption
    <3> QED
      BY <2>1, <3>1, <3>2
  <2>7. offset(s, i) + s.e.current.from - s.p.reset_offset >= 0
    BY SureParts DEF Heard, Lag
  <2>8. Lag(t) = offset(t, i + 1) + 0 - s.p.reset_offset
    BY <1>1, <1>15, <1>16, <1>17 DEF Lag, Unstarted
  <2> HIDE DEF i
  <2> QED
    BY <2>1, <2>2, <2>4, <2>5, <2>6, <2>7, <2>8
<1>20. Heard(t)
  BY <1>1, <1>12, <1>15, <1>16, <1>17, <1>19 DEF Heard, Hinted, Unstarted
<1>21. Sure(t)
  BY <1>2, <1>10, <1>15, <1>16, <1>17, <1>18, <1>20, SureParts DEF Sure
<1>22. Amid(t)
  BY <1>1, <1>16, <1>17 DEF Amid, Hinted, Unstarted
<1> QED
  BY <1>2, <1>21, <1>22 DEF t

(* ... or the next one is loaded. *)
LEMMA BoundarySure ==
  ASSUME NEW s, Good(s), Hinted, Sure(s), ~s.p.pause_intent,
         s.p.attached, is_output_drained(s.e), NEW t \in Boundary(s)
  PROVE  Good(t) /\ Sure(t) /\ Amid(t)
<1> DEFINE expected == peek_preload_target(s.q, s.q.index)
           a == [s EXCEPT !.e = IF PreloadNext THEN advance(@, expected) ELSE @]
           swapped == PreloadNext /\ CanAdvance(s.e, expected)
<1>0. /\ s = [q |-> s.q, p |-> s.p, e |-> s.e] /\ QueueOK(s.q) /\ Seated(s.q)
      /\ Ordered(s.q) /\ HasSession(s.e)
  BY GoodParts, SureParts DEF Calm, is_output_drained
<1>1. Good(a) /\ a.q = s.q /\ a.p = s.p
  BY AdvancedKeeps
<1>2. /\ swapped => a.e = advance(s.e, expected)
      /\ expected = NoEntry => a = s
  <2> DEFINE y == IF PreloadNext THEN advance(s.e, expected) ELSE s.e
  <2>1. a = [q |-> s.q, p |-> s.p, e |-> y]
    BY <1>0
  <2>2. expected = NoEntry => y = s.e
    BY DEF advance, CanAdvance
  <2> HIDE DEF a, expected
  <2> QED
    BY <1>0, <2>1, <2>2
<1>3. /\ expected \in Maybe
      /\ swapped => expected # NoEntry
  BY <1>0, TargetEntry DEF CanAdvance
<1>4. Good(t)
  BY BoundaryKeeps, SureParts DEF Steps
<1>5. \/ s.q.repeat = "one" /\ t = load(a, 0)
      \/ \E r \in next(s.q) :
           \/ r.item = NoEntry
              /\ t = on_tick([a EXCEPT !.q = r.queue, !.p.pending_ended = TRUE,
                                       !.e = pause_pumping(@)])
           \/ r.item # NoEntry /\ swapped /\ r.item = expected
              /\ t = Promoted([a EXCEPT !.q = r.queue], r.item)
           \/ r.item # NoEntry /\ t = load([a EXCEPT !.q = r.queue], 0)
  <2> DEFINE R(r) == IF r.item = NoEntry
                       THEN on_tick([a EXCEPT !.q = r.queue, !.p.pending_ended = TRUE,
                                              !.e = pause_pumping(@)])
                       ELSE IF swapped /\ r.item = expected
                         THEN Promoted([a EXCEPT !.q = r.queue], r.item)
                         ELSE load([a EXCEPT !.q = r.queue], 0)
  <2>1. Boundary(s) = IF s.q.repeat = "one" THEN {load(a, 0)} ELSE {R(r) : r \in next(s.q)}
    BY DEF Boundary
  <2> HIDE DEF a, expected, swapped
  <2>2. CASE s.q.repeat = "one"
    BY <2>1, <2>2
  <2>3. CASE s.q.repeat # "one"
    <3>1. PICK r \in next(s.q) : t = R(r)
      BY <2>1, <2>3
    <3> QED
      BY <3>1
  <2> QED
    BY <2>2, <2>3
<1> HIDE DEF a, swapped
<1>6. CASE t = load(a, 0)
  <2>1. Cut(a)
    BY <1>1, SureParts DEF Cut, Still
  <2>2. current(a.q) # NoEntry
    BY <1>0, <1>1, HeardParts DEF HasSession
  <2> QED
    BY <1>1, <1>4, <1>6, <2>1, <2>2, LoadSure DEF Amid
<1>7. ASSUME NEW r \in next(s.q),
             \/ r.item = NoEntry
                /\ t = on_tick([a EXCEPT !.q = r.queue, !.p.pending_ended = TRUE,
                                         !.e = pause_pumping(@)])
             \/ r.item # NoEntry /\ swapped /\ r.item = expected
                /\ t = Promoted([a EXCEPT !.q = r.queue], r.item)
             \/ r.item # NoEntry /\ t = load([a EXCEPT !.q = r.queue], 0)
      PROVE  Sure(t) /\ Amid(t)
  <2>1. /\ QueueOK(r.queue) /\ Ordered(r.queue) /\ r.queue.items = s.q.items
        /\ r.item = NoEntry => r.queue.index = s.q.index
        /\ r.item # NoEntry => current(r.queue) = r.item
        /\ r.item # NoEntry /\ s.q.repeat # "all" => r.queue.index = s.q.index + 1
    BY <1>0, NextStraight
  <2>2. Seated(r.queue) /\ (expected # NoEntry => r.item # NoEntry)
    BY <1>0, NextSeated DEF expected
  <2> HIDE DEF expected
  <2>3. CASE r.item = NoEntry
    <3>1. a = s
      BY <1>2, <2>2, <2>3
    <3>2. t = on_tick([s EXCEPT !.q = r.queue, !.p.pending_ended = TRUE, !.e = pause_pumping(@)])
      BY <1>7, <2>3, <3>1
    <3> DEFINE u == on_tick([s EXCEPT !.q = r.queue, !.p.pending_ended = TRUE,
                                      !.e = pause_pumping(@)])
    <3>3. Sure(u) /\ u.p.state = "ended"
      BY <2>1, <2>2, <2>3, EndingSure
    <3>4. t = u
      BY <3>2
    <3> HIDE DEF u
    <3> QED
      BY <3>3, <3>4 DEF Amid
  <2>4. CASE r.item # NoEntry
    <3> DEFINE c == [a EXCEPT !.q = r.queue]
    <3>1. Moves(a, c) /\ c.q = r.queue /\ c.p = a.p /\ c.e = a.e
      BY <1>1, <2>1, <2>2, QueueMoves
    <3>2. t = load(c, 0) \/ (swapped /\ r.item = expected /\ t = Promoted(c, r.item))
      BY <1>7, <2>4
    <3> HIDE DEF c
    <3>3. Good(c)
      BY <3>1 DEF Moves
    <3>4. CASE t = load(c, 0)
      <4>1. Cut(c)
        BY <1>1, <2>1, <2>2, <3>1, SureParts DEF Cut, Still
      <4> QED
        BY <2>1, <2>4, <3>1, <3>3, <3>4, <4>1, LoadSure DEF Amid
    <3>5. CASE swapped /\ r.item = expected /\ t = Promoted(c, r.item)
      <4>1. r.item \in Entries /\ PreloadNext /\ CanAdvance(s.e, r.item)
        BY <1>3, <2>4, <3>5 DEF Maybe, swapped
      <4>2. s.q.repeat # "all"
        BY <4>1, SureParts
      <4>3. c.p = s.p /\ c.e = advance(s.e, r.item)
        BY <1>1, <1>2, <3>1, <3>5
      <4> QED
        BY <1>0, <2>1, <2>2, <2>4, <3>1, <3>3, <3>5, <4>1, <4>2, <4>3, PromotedSure
    <3> QED
      BY <3>2, <3>4, <3>5
  <2> QED
    BY <2>3, <2>4
<1> QED
  BY <1>4, <1>5, <1>6, <1>7

(* A drained session is at its boundary unless the user paused. *)
LEMMA on_eosSure ==
  ASSUME NEW s, Good(s), Hinted, Sure(s), is_output_drained(s.e),
         NEW t \in on_eos(s)
  PROVE  Good(t) /\ Sure(t) /\ Amid(t)
<1>1. s.p.attached /\ ~CanFadeAtEos(s) /\ ~s.p.in_progress
  BY SureParts DEF CanFadeAtEos, is_output_drained
<1>2. CASE s.p.pause_intent
  <2>1. t = s
    BY <1>1, <1>2 DEF on_eos
  <2> QED
    BY <1>2, <2>1 DEF Amid, Good, Hushed
<1>3. CASE ~s.p.pause_intent
  <2>1. t \in Boundary(s)
    BY <1>1, <1>3 DEF on_eos
  <2> QED
    BY <1>1, <1>3, <2>1, BoundarySure
<1> QED
  BY <1>2, <1>3

(* A whole callback. *)
LEMMA syncSure ==
  ASSUME NEW s, Good(s), Hinted, Sure(s), NEW n \in 1..(HighWater - 1),
         NEW t \in sync([s EXCEPT !.e = consume(@, n)])
  PROVE  Sure(t)
<1> DEFINE u == [s EXCEPT !.e = consume(@, n)]
           v == SyncError(SyncCrossfade(u))
<1>1. PICK w \in BeforeTick(u) : t = on_tick(w)
  BY DEF sync
<1>2. /\ is_output_drained(v.e) => w \in on_eos(v)
      /\ ~is_output_drained(v.e) => w = v
  BY <1>1 DEF BeforeTick
<1>3. /\ Good(v) /\ Sure(v)
      /\ is_output_drained(v.e) \/ Amid(v)
  BY SyncErrorSure
<1> HIDE DEF u, v
<1>4. Good(w) /\ Sure(w) /\ Amid(w)
  BY <1>2, <1>3, on_eosSure
<1> QED
  BY <1>1, <1>4, on_tickSure

-----------------------------------------------------------------------------
(***************************************************************************)
(* The steps of a host that cuts its tracks and plays them in their order. *)
(***************************************************************************)
Straight ==
  /\ Hinted
  /\ Fades \subseteq {0} /\ {"shuffle", "edit", "anytime"} \cap Commands = {}
  /\ PreloadNext => "all" \notin Modes

(* A step to one of some sure states is sure. *)
LEMMA BecomesSure ==
  ASSUME NEW S, Become(S), \A t \in S : Good(t) /\ Sure(t)
  PROVE  Sure(System')
<1>1. System' \in S
  BY Becomes
<1> QED
  BY <1>1

(* What the device and its buffer do. *)
LEMMA HostSure ==
  ASSUME Straight, Good(System), Sure(System),
         Render \/ Prime \/ Starve
  PROVE  Sure(System')
<1>1. CASE Render
  <2>1. PICK n \in Quanta : Become(sync([System EXCEPT !.e = consume(@, n)]))
    BY <1>1 DEF Render
  <2> DEFINE s == [System EXCEPT !.e = consume(@, n)]
             S == sync(s)
  <2>2. n \in 1..(HighWater - 1) /\ n \in Nat
    BY QuantaAssumption, RingAssumption
  <2>3. Good(s)
    BY <2>2, ConsumedKeeps
  <2>4. \A t \in S : Sure(t)
    BY <2>2, syncSure DEF Straight
  <2> HIDE DEF s
  <2>5. \A t \in S : Good(t)
    BY <2>3, syncKeeps
  <2>6. Become(S)
    BY <2>1 DEF s
  <2> HIDE DEF S
  <2> QED
    BY <2>4, <2>5, <2>6, BecomesSure
<1>2. CASE Prime
  <2>1. Good(on_primed(System)) /\ Sure(on_primed(System))
    BY on_primedSteps, on_primedSure DEF Steps
  <2> QED
    BY <1>2, <2>1, BecomesSure DEF Prime
<1>3. CASE Starve
  <2>1. Good(on_buffering(System)) /\ Sure(on_buffering(System))
    BY on_bufferingSteps, on_bufferingSure DEF Steps
  <2> QED
    BY <1>3, <2>1, BecomesSure DEF Starve
<1> QED
  BY <1>1, <1>2, <1>3

(* The commands that adjust the player, and a reload. *)
LEMMA AdjustSure ==
  ASSUME Straight, Good(System), Sure(System), Adjust
  PROVE  Sure(System')
<1>0. Hinted /\ System.p = player
  BY SystemParts DEF Straight
<1>1. CASE Pause
  <2>1. player.state # "idle"
    BY <1>1 DEF Pause, Straight
  <2>2. Good(pause_inner(System)) /\ Sure(pause_inner(System))
    BY <1>0, <2>1, pause_innerSteps, pause_innerSure DEF Steps
  <2> QED
    BY <1>1, <2>2, BecomesSure DEF Pause
<1>2. CASE Resume
  <2>1. player.state # "idle"
    BY <1>2 DEF Resume, Straight
  <2>2. Good(resume_inner(System)) /\ Sure(resume_inner(System))
    BY <1>0, <2>1, resume_innerSteps, resume_innerSure DEF Steps
  <2> QED
    BY <1>2, <2>2, BecomesSure DEF Resume
<1>3. CASE SetRepeat
  <2>1. PICK mode \in Modes : Become({[System EXCEPT !.q = set_repeat(@, mode)]})
    BY <1>3 DEF SetRepeat
  <2> DEFINE t == [System EXCEPT !.q = set_repeat(@, mode)]
  <2>2. mode \in RepeatModes /\ (PreloadNext => mode # "all")
    BY ModesAssumption DEF Straight
  <2>3. Good(t) /\ Sure(t)
    BY <2>2, set_repeatSteps, set_repeatSure DEF Steps
  <2>4. Become({t})
    BY <2>1
  <2> HIDE DEF t
  <2> QED
    BY <2>3, <2>4, BecomesSure
<1>4. CASE SetShuffle
  BY <1>4 DEF SetShuffle, Straight
<1>5. CASE SetCrossfade
  <2>1. PICK f \in Fades : Become({[System EXCEPT !.p.crossfade = f]})
    BY <1>5 DEF SetCrossfade
  <2> DEFINE t == [System EXCEPT !.p.crossfade = 0]
  <2>2. f = 0
    BY DEF Straight
  <2>3. Good(t) /\ Sure(t)
    BY SetCrossfadeKeeps, SetCrossfadeSure
  <2>4. Become({t})
    BY <2>1, <2>2
  <2> HIDE DEF t
  <2> QED
    BY <2>3, <2>4, BecomesSure
<1>6. CASE Reload
  <2> DEFINE S == restore([q |-> EmptyQueue, p |-> NewPlayer, e |-> ClosedEngine],
                          take_snapshot(System))
  <2>1. HasSnapshot(System) /\ Become(S)
    BY <1>6 DEF Reload
  <2>2. \A t \in S : Good(t) /\ Sure(t)
    BY <2>1, restoreKeeps, restoreSure
  <2> HIDE DEF S
  <2> QED
    BY <2>1, <2>2, BecomesSure
<1> QED
  BY <1>1, <1>2, <1>3, <1>4, <1>5, <1>6 DEF Adjust

(* The commands that start, move, seek and stop. *)
LEMMA InterruptSure ==
  ASSUME Straight, Good(System), Sure(System), Interrupt
  PROVE  Sure(System')
<1>0. /\ Hinted /\ System.q = queue /\ System.e = engine
      /\ QueueOK(queue) /\ Seated(queue) /\ Ordered(queue)
  BY SystemParts, GoodParts, SureParts DEF Straight, Calm
<1>1. ASSUME NEW S, Become(S), \A t \in S : Moves(System, t) /\ Sure(t)
      PROVE  Sure(System')
  BY <1>1, BecomesSure DEF Moves
<1>2. ASSUME NEW Q, Become(Start(System, Q)),
             \A q \in Q : /\ QueueOK(q) /\ Seated(q) /\ Ordered(q)
                          /\ q.items # <<>>
      PROVE  Sure(System')
  <2>1. \A q \in Q : current(q) # NoEntry
    BY <1>2, CurrentThere
  <2>2. \A t \in Start(System, Q) : Sure(t)
    BY <1>0, <1>2, <2>1, StartSure
  <2>3. \A t \in Start(System, Q) : Moves(System, t)
    BY <1>2, StartMoves
  <2> QED
    BY <1>1, <1>2, <2>2, <2>3
<1>3. CASE PlaySequence
  <2>1. PICK items \in Playlists, start \in {0, 1} :
          Become(Start(System, play_sequence(queue, items, start)))
    BY <1>3 DEF PlaySequence
  <2>2. items \in Seq(Entries) /\ items # <<>> /\ start \in Int
    BY PlaylistsAssumption DEF Straight
  <2>3. \A q \in play_sequence(queue, items, start) :
          QueueOK(q) /\ Seated(q) /\ Ordered(q) /\ q.items # <<>>
    BY <1>0, <2>2, PlayStraight, PlaySeated
  <2> QED
    BY <1>2, <2>1, <2>3
<1>4. CASE PlayItem
  <2>1. PICK item \in Entries : Become(Start(System, play_now(queue, item)))
    BY <1>4 DEF PlayItem
  <2>2. \A q \in play_now(queue, item) :
          QueueOK(q) /\ Seated(q) /\ Ordered(q) /\ q.items # <<>>
    BY <1>0, PlayNowStraight, PlayNowSeated
  <2> QED
    BY <1>2, <2>1, <2>2
<1>5. CASE PlayQueueIndex
  <2>1. PICK i \in 0..(MaxItems - 1) : Become(play_queue_index(System, i))
    BY <1>5 DEF PlayQueueIndex
  <2> QED
    BY <1>0, <1>1, <2>1, play_queue_indexMoves, play_queue_indexSure
<1>6. CASE SkipNext
  BY <1>0, <1>1, <1>6, PlayerNextMoves, PlayerNextSure DEF SkipNext
<1>7. CASE SkipPrevious
  <2> DEFINE S == PlayerPrevious(System)
  <2>2. Become(S) /\ \A t \in S : Good(t)
    BY <1>0, <1>7, PlayerPreviousMoves DEF SkipPrevious, Moves
  <2> HIDE DEF S
  <2>3. System' \in S
    BY <2>2, Becomes
  <2>4. System' \in PlayerPrevious(System)
    BY <2>3 DEF S
  <2> QED
    BY <1>0, <2>4, PlayerPreviousSure
<1>8. CASE Seek
  <2>1. PICK pos \in SeekTargets : Become({seek_inner(System, pos)})
    BY <1>8 DEF Seek
  <2>2. pos \in Nat
    BY <1>8, TargetsAssumption
  <2> DEFINE S == {seek_inner(System, pos)}
  <2>3. Become(S) /\ \A t \in S : Good(t)
    BY <1>0, <2>1, <2>2, seek_innerMoves DEF Moves
  <2> HIDE DEF S
  <2>4. System' \in S
    BY <2>3, Becomes
  <2>5. System' = seek_inner(System, pos)
    BY <2>4 DEF S
  <2> QED
    BY <1>0, <2>2, <2>5, seek_innerSure
<1>9. CASE Stop
  <2>1. \A t \in {stop_inner(System)} : Moves(System, t) /\ Sure(t)
    BY <1>0, stop_innerMoves, stop_innerSure
  <2> QED
    BY <1>1, <1>9, <2>1 DEF Stop
<1>10. CASE Teardown
  <2>1. \A t \in {teardown_inner(System)} : Moves(System, t) /\ Sure(t)
    BY <1>0, teardown_innerMoves, teardown_innerSure
  <2> QED
    BY <1>1, <1>10, <2>1 DEF Teardown
<1>11. CASE TogglePlay
  <2>1. \A t \in {toggle_play_inner(System)} : Moves(System, t) /\ Sure(t)
    BY <1>0, toggle_play_innerMoves, toggle_play_innerSure
  <2> QED
    BY <1>1, <1>11, <2>1 DEF TogglePlay
<1>12. CASE EditQueue
  BY <1>12 DEF EditQueue, Straight
<1> QED
  BY <1>3, <1>4, <1>5, <1>6, <1>7, <1>8, <1>9, <1>10, <1>11, <1>12 DEF Interrupt

(* The initial state is sure, *)
LEMMA InitSure ==
  ASSUME Init
  PROVE  Sure(System)
<1>1. System.q = EmptyQueue /\ System.p = NewPlayer /\ System.e = ClosedEngine
  BY SystemParts DEF Init
<1>2. Calm(System)
  BY InitKeeps
<1>3. /\ ~HasSession(ClosedEngine) /\ Unstarted(ClosedEngine.standby) /\ ~ClosedEngine.error
  BY DEF HasSession, ClosedEngine, NoSession, Session, Unstarted
<1>4. Learnt(NewPlayer.lengths) /\ NewPlayer.crossfade = 0 /\ ~NewPlayer.pending_ended
  BY DEF Learnt, NewPlayer
<1>5. Ordered(EmptyQueue)
  BY DEF Ordered, EmptyQueue, Length, at
<1> QED
  BY <1>1, <1>2, <1>3, <1>4, <1>5 DEF Sure, Cut, Calm, Still

(* ... and every step keeps it so. *)
LEMMA NextSure ==
  ASSUME Straight, Good(System), Sure(System), [Next]_vars
  PROVE  Sure(System')
<1>1. CASE UNCHANGED vars
  <2>1. System' = System
    BY <1>1 DEF vars, System
  <2> QED
    BY <2>1
<1>2. CASE Next /\ ~UNCHANGED vars
  BY <1>2, HostSure, AdjustSure, InterruptSure DEF Next
<1> QED
  BY <1>1, <1>2

-----------------------------------------------------------------------------
(***************************************************************************)
(* While there is sound, the cursor is on the entry that is heard, where   *)
(* tracks are cut and played in their order, hints are not too long, and a *)
(* preload cannot take a repeated queue back to its start: Boundary,       *)
(* Promoted and on_tick's catch-up then never leave the entry that plays.  *)
(***************************************************************************)
THEOREM CursorAlwaysAudible ==
  ASSUME Fades \subseteq {0}, {"shuffle", "edit", "anytime"} \cap Commands = {},
         \A i \in Entries : Hint[i] <= TrackLen[i],
         PreloadNext => "all" \notin Modes /\ \A i \in Entries : TrackLen[i] > 0
  PROVE  Spec => []CursorIsAudible
<1> DEFINE Inv == Good(System) /\ Sure(System)
<1>0. Straight
  BY DEF Straight, Hinted
<1>1. Init => Inv
  BY InitKeeps, InitSure
<1>2. Inv /\ [Next]_vars => Inv'
  <2> SUFFICES ASSUME Inv, [Next]_vars PROVE Inv'
    OBVIOUS
  <2>1. Good(System') /\ Sure(System')
    BY <1>0, NextKeeps, NextSure
  <2> QED
    BY <2>1
<1>3. Inv => CursorIsAudible
  <2> SUFFICES ASSUME Inv, HasSession(engine) PROVE current(queue) = engine.current.item
    BY DEF CursorIsAudible, Audible
  <2> QED
    BY SystemParts, SureParts DEF Heard
<1> QED
  BY <1>1, <1>2, <1>3, PTL DEF Spec

(***************************************************************************)
(* Nor does the album clock ever run ahead of the sound there, preloading  *)
(* or not: promotions restart the engine's counter and not reset_offset,   *)
(* which leaves the clock behind, but the catch-up and HasEnded, which go  *)
(* by it, never move on before the track has been heard.                   *)
(***************************************************************************)
THEOREM ClockStaysBehind ==
  ASSUME Fades \subseteq {0}, {"shuffle", "edit", "anytime"} \cap Commands = {},
         \A i \in Entries : Hint[i] <= TrackLen[i],
         PreloadNext => "all" \notin Modes /\ \A i \in Entries : TrackLen[i] > 0
  PROVE  Spec => []ClockNeverAhead
<1> DEFINE Inv == Good(System) /\ Sure(System)
<1>0. Straight
  BY DEF Straight, Hinted
<1>1. Init => Inv
  BY InitKeeps, InitSure
<1>2. Inv /\ [Next]_vars => Inv'
  <2> SUFFICES ASSUME Inv, [Next]_vars PROVE Inv'
    OBVIOUS
  <2>1. Good(System') /\ Sure(System')
    BY <1>0, NextKeeps, NextSure
  <2> QED
    BY <2>1
<1>3. Inv => ClockNeverAhead
  <2> SUFFICES ASSUME Inv, HasSession(engine), player.state \in {"buffering", "playing"}
               PROVE  album_position(System)
                      <= offset(System, queue.index) + engine.current.from + engine.current.read
    BY DEF ClockNeverAhead, Audible
  <2>1. /\ System.e.current.base = 0 /\ Lag(System) >= 0 /\ System.p.attached
    BY SystemParts, SureParts DEF Heard
  <2>2. /\ System.p.reset_offset \in Nat /\ System.e.current.read \in Nat
        /\ System.e.current.from \in Nat /\ offset(System, System.q.index) \in Nat
    BY GoodParts
  <2>3. album_position(System) = System.p.reset_offset + System.e.current.read
    BY <2>1, <2>2 DEF album_position, rendered_samples, rendered_frames
  <2>4. offset(System, System.q.index) + System.e.current.from - System.p.reset_offset >= 0
    BY <2>1 DEF Lag
  <2>5. album_position(System)
        <= offset(System, System.q.index) + System.e.current.from + System.e.current.read
    BY <2>2, <2>3, <2>4
  <2> QED
    BY <2>5, SystemParts
<1> QED
  BY <1>1, <1>2, <1>3, PTL DEF Spec

-----------------------------------------------------------------------------
(***************************************************************************)
(* What is left of a track.  A callback reads no more frames than it was   *)
(* asked for, ...                                                          *)
(***************************************************************************)
LEMMA ReadTail ==
  ASSUME NEW e, EngineOK(e), HasSession(e), NEW n \in 1..(HighWater - 1)
  PROVE  /\ ReadCurrent(e, n).current.item = e.current.item
         /\ Unplayed(e.current) <= Unplayed(ReadCurrent(e, n).current) + n
<1> DEFINE filled == PumpTo(e.current, HighWater)
           atEnd  == available_frames(filled) < HighWater /\ ~e.current.eos
           failed == atEnd /\ e.current.item \in Truncated
           c == [filled EXCEPT !.eos = @ \/ (atEnd /\ ~failed)]
           g == fill_current(e)
           k == Least(n, available_frames(g.current))
           f == ReadCurrent(e, n)
<1>1. n \in Nat /\ e.current \in SessionType /\ TrackLen[e.current.item] \in Nat
  BY RingAssumption, TrackLenAssumption DEF EngineOK, SessionOK, SessionType, HasSession, Maybe
<1>2. EngineOK(g) /\ g.current.item = e.current.item /\ HasSession(g) /\ g.current \in SessionType
  BY FillOK DEF HasSession, EngineOK, SessionOK
<1>3. g.current.read = e.current.read
  <2>1. filled.read = e.current.read
    BY <1>1 DEF PumpTo, SessionType
  <2>2. c.read = filled.read
    BY <1>1 DEF PumpTo, SessionType
  <2>3. g = e \/ g = [e EXCEPT !.current = c, !.error = @ \/ failed]
    BY DEF fill_current
  <2> HIDE DEF c, failed, g, filled
  <2> QED
    BY <2>1, <2>2, <2>3 DEF EngineOK, EngineType
<1>4. f = [g EXCEPT !.current = read_frames(@, n)]
  BY <1>2 DEF ReadCurrent
<1> HIDE DEF g, f
<1>5. k \in Nat /\ k <= n
  <2>1. available_frames(g.current) \in Nat
    BY <1>2 DEF EngineOK, SessionOK, SessionType, available_frames
  <2> QED
    BY <1>1, <2>1, LeastMinus
<1>6. f.current = [g.current EXCEPT !.read = @ + k]
  BY <1>2, <1>4 DEF read_frames, EngineOK, EngineType
<1> HIDE DEF k
<1>7. f.current.read = e.current.read + k /\ f.current.item = e.current.item
  BY <1>2, <1>3, <1>6 DEF SessionType
<1>8. f.current.from = e.current.from
  BY ReadPlace DEF f
<1> QED
  BY <1>1, <1>5, <1>7, <1>8 DEF Unplayed, SessionType, f

(* ... and a session is drained only when its track has been read to the end. *)
LEMMA DrainedPlayed ==
  ASSUME NEW e, EngineOK(e), is_output_drained(e)
  PROVE  Unplayed(e.current) = 0
<1>1. /\ SessionOK(e.current) /\ e.current \in SessionType
      /\ e.current.item # NoEntry /\ e.current.eos /\ e.current.write - e.current.read = 0
      /\ TrackLen[e.current.item] \in Nat
  BY TrackLenAssumption
     DEF EngineOK, SessionOK, SessionType, is_output_drained, HasSession, exhausted,
         available_frames, Maybe
<1> QED
  BY <1>1 DEF SessionOK, SessionType, Unplayed

(* Feeding back a fade or an error does not touch the session being heard. *)
LEMMA SyncCurrent ==
  ASSUME NEW s, Good(s)
  PROVE  LET v == SyncError(SyncCrossfade(s)) IN Good(v) /\ v.e.current = s.e.current
<1> DEFINE u == SyncCrossfade(s)
           v == SyncError(u)
<1>1. Good(u)
  BY SyncCrossfadeKeeps
<1>2. u.e.current = s.e.current
  <2>1. CASE s.e.result = NoResult
    BY <2>1 DEF SyncCrossfade
  <2>2. CASE s.e.result # NoResult
    <3> DEFINE a == [s EXCEPT !.e.result = NoResult]
               b == apply_crossfade_result(a, s.e.result)
               c == finish_eos_race(b, a.p.xfade.race)
    <3>1. SystemOK(a) /\ a.p = s.p /\ a.e.current = s.e.current /\ s.e.result \in Nat
      <4> DEFINE y == [s.e EXCEPT !.result = NoResult]
      <4>1. /\ s = [q |-> s.q, p |-> s.p, e |-> s.e] /\ QueueOK(s.q) /\ s.p \in PlayerType
            /\ EngineOK(s.e) /\ s.e.result \in Nat
        BY <2>2 DEF Good, SystemOK, EngineOK, EngineType
      <4>2. EngineOK(y) /\ y.current = s.e.current
        BY <4>1, EngineEdits DEF EngineOK, EngineType
      <4>3. a = [s EXCEPT !.e = y]
        BY <4>1
      <4> HIDE DEF y, a
      <4> QED
        BY <4>1, <4>2, <4>3, SystemEdits, SystemIs
    <3>2. u = on_crossfade_complete(a, s.e.result)
      BY <2>2 DEF SyncCrossfade
    <3> HIDE DEF a
    <3>3. a.p.xfade.race \in RaceType
      BY <3>1 DEF SystemOK, PlayerType, XfadeType, RaceType
    <3>4. CanApply(a) => SystemOK(b) /\ b.e.current = a.e.current
      BY <3>1, ApplyOK
    <3> HIDE DEF b
    <3>5. CanApply(a) => c.e.current = a.e.current
      BY <3>3, <3>4, RaceOK
    <3> DEFINE w == IF CanApply(a) THEN c ELSE a
    <3>6. u = a \/ u = [w EXCEPT !.p.xfade = NoXfade, !.p.in_progress = FALSE]
      BY <3>2 DEF on_crossfade_complete, b
    <3>7. w.e.current = a.e.current /\ w = [q |-> w.q, p |-> w.p, e |-> w.e]
      <4>1. CanApply(a) => SystemOK(c)
        BY <3>3, <3>4, RaceOK
      <4> QED
        BY <3>1, <3>5, <4>1 DEF SystemOK
    <3> HIDE DEF w, u
    <3>8. [w EXCEPT !.p.xfade = NoXfade, !.p.in_progress = FALSE].e = w.e
      BY <3>7
    <3> QED
      BY <3>1, <3>6, <3>7, <3>8 DEF u
  <2> QED
    BY <2>1, <2>2
<1> HIDE DEF u
<1>3. Good(v) /\ v.e.current = u.e.current
  <2>1. Good(v)
    BY <1>1, SyncErrorSteps DEF Steps
  <2>2. u = [q |-> u.q, p |-> u.p, e |-> u.e] /\ EngineOK(u.e)
    BY <1>1 DEF Good, SystemOK
  <2>3. SyncError(u).e.current = u.e.current
    BY <2>2 DEF SyncError, fail, pause_pumping, EngineOK, EngineType
  <2> QED
    BY <2>1, <2>3
<1> QED
  BY <1>2, <1>3 DEF u

(* So a synchronisation changes the session only when it found it drained. *)
LEMMA SyncTail ==
  ASSUME NEW s, Good(s), NEW t \in sync(s), t.e.current # s.e.current
  PROVE  is_output_drained(s.e)
<1> DEFINE v == SyncError(SyncCrossfade(s))
<1>1. Good(v) /\ v.e.current = s.e.current
  BY SyncCurrent
<1>2. PICK w \in BeforeTick(s) : t = on_tick(w)
  BY DEF sync
<1>3. \/ w = v
      \/ w \in on_eos(v) /\ is_output_drained(v.e)
  BY <1>2 DEF BeforeTick
<1> HIDE DEF v
<1>4. Good(w)
  BY <1>1, <1>3, on_eosSteps DEF Steps
<1>5. t.e.current = w.e.current
  BY <1>2, <1>4, on_tickSteps
<1>6. is_output_drained(v.e)
  BY <1>1, <1>3, <1>5
<1> QED
  BY <1>1, <1>6 DEF is_output_drained, HasSession

(***************************************************************************)
(* The tail of a track is heard: a callback that moves on to another track *)
(* (Boundary) leaves no more of the old one than that callback has read.   *)
(* When no fade is configured nothing else than an end of track changes    *)
(* the session in a callback, and DecodeSession::exhausted is true only    *)
(* when the decoder is at the end of its stream and the ring is empty.     *)
(***************************************************************************)
THEOREM TailNeverLost ==
  ASSUME Fades \subseteq {0}
  PROVE  Spec => NoTailLost
<1> DEFINE Inv == Good(System) /\ Ready(System)
           HeardOut == Render /\ HasSession(engine)
                              /\ engine'.current.item # engine.current.item
                       => \E n \in Quanta : Unplayed(engine.current) <= n
<1>1. Init => Inv
  BY InitKeeps
<1>2. Inv /\ [Next]_vars => Inv'
  <2> SUFFICES ASSUME Inv, [Next]_vars PROVE Inv'
    OBVIOUS
  <2>1. Good(System') /\ Ready(System')
    BY NextKeeps
  <2> QED
    BY <2>1 DEF Good, SystemOK, Hushed, Ready
<1>3. Inv /\ [Next]_vars => [HeardOut]_vars
  <2> SUFFICES ASSUME Inv, Render, HasSession(engine),
                      engine'.current.item # engine.current.item
               PROVE  \E n \in Quanta : Unplayed(engine.current) <= n
    OBVIOUS
  <2>1. PICK n \in Quanta : Become(sync([System EXCEPT !.e = consume(@, n)]))
    BY DEF Render
  <2> DEFINE y == consume(engine, n)
             s == [System EXCEPT !.e = y]
  <2>2. /\ System = [q |-> queue, p |-> player, e |-> engine] /\ System.e = engine
        /\ EngineOK(engine) /\ ~crossfade_pending(engine)
    BY SystemParts DEF Good, SystemOK, Ready
  <2>3. n \in 1..(HighWater - 1) /\ n \in Nat
    BY QuantaAssumption, RingAssumption
  <2>4. y = ReadCurrent(engine, n)
    BY <2>2 DEF consume
  <2>5. /\ y.current.item = engine.current.item
        /\ Unplayed(engine.current) <= Unplayed(y.current) + n
    BY <2>2, <2>3, <2>4, ReadTail
  <2>6. EngineOK(y)
    BY <2>2, <2>3, <2>4, ReadCurrentOK
  <2>7. [System EXCEPT !.e = consume(@, n)] = s
    BY <2>2
  <2>8. Good(s)
    BY <2>3, <2>7, ConsumedKeeps
  <2> HIDE DEF y
  <2>9. s.e = y
    BY <2>2
  <2> HIDE DEF s
  <2>10. \A t \in sync(s) : Good(t)
    BY <2>8, syncKeeps
  <2>11. PICK t \in sync(s) : t = System'
    BY <2>1, <2>7, <2>10, Becomes
  <2>12. t.e.current # s.e.current
    <3>1. t.e = engine'
      BY <2>11 DEF System
    <3> QED
      BY <2>5, <2>9, <3>1
  <2>13. Unplayed(y.current) = 0
    BY <2>6, <2>8, <2>9, <2>12, SyncTail, DrainedPlayed
  <2>14. Unplayed(engine.current) <= n
    BY <2>3, <2>5, <2>13
  <2> QED
    BY <2>1, <2>14
<1> QED
  BY <1>1, <1>2, <1>3, PTL DEF Spec, NoTailLost

=============================================================================
