--------------------------- MODULE Session_proofs ---------------------------
(***************************************************************************)
(* A decode session is the stream it promises (Session implements Stream)  *)
(* for every track, every pair of rates, every capacity and chunk size.    *)
(*                                                                         *)
(* What makes it so is in three parts.  Phases: the end of the decoder is  *)
(* reached with nothing pending, and the tail is flushed once.  Progress:  *)
(* the next output frame lies after the previous source frame, and the     *)
(* last one written lies within the track; with the tail flushed the two   *)
(* bounds meet in length_samples.  InOrder: what is unread in the ring is  *)
(* the run of output frames that ends with the last one written.           *)
(***************************************************************************)
EXTENDS Session, TLAPS

-----------------------------------------------------------------------------
(***************************************************************************)
(* What writing to and reading from the ring do to the frames it holds,    *)
(* for every capacity.  The slot of a count is found by %; all the proofs  *)
(* need of it is ModUnique and ModSplit, which the SMT backend knows.      *)
(***************************************************************************)
(***************************************************************************)
(* Division with remainder: a % C is the one r in 0..C-1 that differs from *)
(* a by a multiple of C.                                                   *)
(***************************************************************************)
LEMMA ModUnique ==
  ASSUME NEW C \in Nat \ {0}, NEW a \in Int, NEW q \in Int, NEW r \in 0..C-1, a = q * C + r
  PROVE  a % C = r
  OBVIOUS

LEMMA ModSplit ==
  ASSUME NEW C \in Nat \ {0}, NEW a \in Int
  PROVE  /\ a = (a \div C) * C + (a % C)
         /\ a % C \in 0..C-1
         /\ a \div C \in Int
  OBVIOUS

(***************************************************************************)
(* How far the slot of a count near the write count w lies behind w: the   *)
(* d frames after it are at their distance, the frames before it, which a  *)
(* reader may not have read, at the far end.                               *)
(***************************************************************************)
LEMMA SlotAhead ==
  ASSUME NEW C \in Nat \ {0}, NEW w \in Nat, NEW i \in 0..C-1
  PROVE  (((w + i) % C) - w) % C = i
<1> DEFINE q == (w + i) \div C
<1>1. ((w + i) % C) - w = (-q) * C + i
  BY ModSplit
<1>2. -q \in Int /\ ((w + i) % C) - w \in Int
  BY ModSplit
<1> HIDE DEF q
<1> QED
  BY <1>1, <1>2, ModUnique

LEMMA SlotBehind ==
  ASSUME NEW C \in Nat \ {0}, NEW w \in Nat, NEW k \in Nat, k < w, w - k <= C
  PROVE  ((k % C) - w) % C = C - (w - k)
<1> DEFINE q == k \div C
<1>1. (k % C) - w = (-q - 1) * C + (C - (w - k))
  BY ModSplit
<1>2. -q - 1 \in Int /\ (k % C) - w \in Int /\ C - (w - k) \in 0..C-1
  BY ModSplit
<1> HIDE DEF q
<1> QED
  BY <1>1, <1>2, ModUnique

-----------------------------------------------------------------------------
(***************************************************************************)
(* A write of n accepted frames leaves what is unread where it was, puts   *)
(* frame i of the chunk at count write_abs + i, and never over-fills.      *)
(***************************************************************************)
LEMMA WriteAppends ==
  ASSUME NEW F, NEW buffer, IsRing(buffer, F), NEW chunk \in Seq(F),
         NEW new, new = write_interleaved(buffer, chunk),
         NEW n, n = Accepted(buffer, chunk)
  PROVE  /\ IsRing(new, F)
         /\ n \in 0..free_frames(buffer)
         /\ new.capacity = buffer.capacity /\ new.reported_base = buffer.reported_base
         /\ new.read_abs = buffer.read_abs /\ new.write_abs = buffer.write_abs + n
         /\ \A k \in buffer.read_abs..buffer.write_abs - 1 :
              new.data[Slot(buffer, k)] = buffer.data[Slot(buffer, k)]
         /\ \A i \in 0..n - 1 : new.data[Slot(buffer, buffer.write_abs + i)] = chunk[i + 1]
<1> DEFINE C == buffer.capacity  w == buffer.write_abs  r == buffer.read_abs
<1>1. /\ C \in Nat \ {0} /\ w \in Nat /\ r \in Nat /\ w - r \in 0..C
      /\ buffer.data \in [0..C - 1 -> F] /\ buffer.reported_base \in Nat
  BY DEF IsRing, available_frames
<1>2. n \in 0..C - (w - r) /\ n <= Len(chunk)
  BY <1>1 DEF Accepted, AtMost, free_frames, available_frames
<1>3. /\ new.capacity = C /\ new.reported_base = buffer.reported_base
      /\ new.read_abs = r /\ new.write_abs = w + n
      /\ new = [data |-> new.data, capacity |-> C, read_abs |-> r, write_abs |-> w + n,
                reported_base |-> buffer.reported_base]
  BY <1>1 DEF write_interleaved, IsRing
<1>9. new.data = [slot \in 0..C - 1 |-> IF Ahead(buffer, slot) < n
                                          THEN chunk[Ahead(buffer, slot) + 1]
                                          ELSE buffer.data[slot]]
  BY <1>1 DEF write_interleaved, IsRing
<1> HIDE DEF C, w, r
<1>4. ASSUME NEW slot \in 0..C - 1 PROVE Ahead(buffer, slot) \in 0..C - 1
  <2>1. slot - w \in Int
    BY <1>1
  <2> QED
    BY <2>1, <1>1, ModSplit DEF Ahead, C, w
<1>5. new.data \in [0..C - 1 -> F]
  <2>1. ASSUME NEW slot \in 0..C - 1, Ahead(buffer, slot) < n
        PROVE  chunk[Ahead(buffer, slot) + 1] \in F
    <3>1. Ahead(buffer, slot) + 1 \in 1..Len(chunk)
      <4>1. Ahead(buffer, slot) \in Nat
        BY <1>1, <1>4
      <4>2. n \in Int /\ n <= Len(chunk)
        BY <1>1, <1>2
      <4> QED
        BY <2>1, <4>1, <4>2
    <3> QED
      BY <3>1
  <2> QED
    BY <1>1, <1>9, <2>1
<1>6. IsRing(new, F)
  <2>1. w + n \in Nat /\ (w + n) - r \in 0..C
    BY <1>1, <1>2
  <2> QED
    BY <1>1, <1>3, <1>5, <2>1 DEF IsRing, available_frames
<1>7. ASSUME NEW k \in r..w - 1 PROVE new.data[k % C] = buffer.data[k % C]
  <2>1. k \in Nat /\ k < w /\ w - k <= C
    BY <1>1
  <2>2. Ahead(buffer, k % C) = C - (w - k)
    BY <1>1, <2>1, SlotBehind DEF Ahead, C, w
  <2>3. k % C \in 0..C - 1
    BY <1>1, <2>1, ModSplit
  <2>4. ~(C - (w - k) < n)
    BY <1>1, <1>2, <2>1
  <2> QED
    BY <1>9, <2>2, <2>3, <2>4
<1>8. ASSUME NEW i \in 0..n - 1 PROVE new.data[(w + i) % C] = chunk[i + 1]
  <2>1. i \in 0..C - 1 /\ i < n /\ w + i \in Nat
    BY <1>1, <1>2
  <2>2. Ahead(buffer, (w + i) % C) = i
    BY <1>1, <2>1, SlotAhead DEF Ahead, C, w
  <2>3. (w + i) % C \in 0..C - 1
    BY <1>1, <2>1, ModSplit
  <2> QED
    BY <1>9, <2>1, <2>2, <2>3
<1> QED
  BY <1>1, <1>2, <1>3, <1>6, <1>7, <1>8 DEF Slot, free_frames, available_frames, C, w, r

(***************************************************************************)
(* A read yields the oldest unread frames, in order, and forgets only them.*)
(***************************************************************************)
LEMMA ReadTakes ==
  ASSUME NEW F, NEW buffer, IsRing(buffer, F), NEW m \in Nat,
         NEW new, new = AfterRead(buffer, m), NEW n, n = Readable(buffer, m)
  PROVE  /\ IsRing(new, F)
         /\ n \in 0..available_frames(buffer) /\ n <= m
         /\ FramesRead(buffer, m) \in Seq(F) /\ Len(FramesRead(buffer, m)) = n
         /\ \A i \in 1..n : FramesRead(buffer, m)[i] = buffer.data[Slot(buffer, buffer.read_abs + i - 1)]
<1> DEFINE C == buffer.capacity  w == buffer.write_abs  r == buffer.read_abs
<1>1. /\ C \in Nat \ {0} /\ w \in Nat /\ r \in Nat /\ w - r \in 0..C
      /\ buffer.data \in [0..C - 1 -> F] /\ buffer.reported_base \in Nat
  BY DEF IsRing, available_frames
<1>2. n \in 0..w - r /\ n <= m /\ n \in Nat
  BY <1>1 DEF Readable, AtMost, available_frames
<1>3. /\ new.capacity = C /\ new.reported_base = buffer.reported_base
      /\ new.read_abs = r + n /\ new.write_abs = w /\ new.data = buffer.data
      /\ new = [data |-> buffer.data, capacity |-> C, read_abs |-> r + n, write_abs |-> w,
                reported_base |-> buffer.reported_base]
  BY <1>1 DEF AfterRead, IsRing
<1>4. IsRing(new, F)
  BY <1>1, <1>2, <1>3 DEF IsRing, available_frames
<1>5. ASSUME NEW i \in 1..n PROVE buffer.data[Slot(buffer, r + i - 1)] \in F
  <2>1. r + i - 1 \in Int
    BY <1>1, <1>2
  <2> QED
    BY <1>1, <2>1, ModSplit DEF Slot
<1>6. FramesRead(buffer, m) = [i \in 1..n |-> buffer.data[Slot(buffer, r + i - 1)]]
  BY DEF FramesRead
<1>7. FramesRead(buffer, m) \in Seq(F) /\ Len(FramesRead(buffer, m)) = n
  BY <1>2, <1>5, <1>6
<1> QED
  BY <1>2, <1>3, <1>4, <1>6, <1>7 DEF available_frames

-----------------------------------------------------------------------------
Phases ==
  /\ tail_done <=> resampler.done
  /\ eos => pending = << >> /\ handed = track.frames
  /\ resampler.done => eos
  /\ pc = "process" => ~eos
  /\ pc = "finish" => eos /\ ~resampler.done

Progress ==
  /\ resampler.seen = handed - Len(pending) + offset
  /\ resampler.have_previous <=> resampler.seen > 0
  /\ ~resampler.have_previous => resampler.written = 0
  /\ resampler.have_previous =>
       /\ resampler.previous = resampler.seen - 1
       /\ resampler.written > 0
       /\ (resampler.seen - 1) * track.output_rate < resampler.written * track.source_rate
       /\ (resampler.written - 1) * track.source_rate < track.frames * track.output_rate
  /\ resampler.done =>
       resampler.seen * track.output_rate <= resampler.written * track.source_rate

InOrder ==
  /\ ring.write_abs <= resampler.written
  /\ \A k \in ring.read_abs..ring.write_abs - 1 :
       ring.data[Slot(ring, k)] = OutputFrame(track, resampler.written - ring.write_abs + k)

IInv == TypeOK /\ Phases /\ Progress /\ InOrder

-----------------------------------------------------------------------------
LEMMA DivUnique ==
  ASSUME NEW C \in Nat \ {0}, NEW a \in Int, NEW q \in Int, NEW r \in 0..C-1, a = q * C + r
  PROVE  a \div C = q
  OBVIOUS

LEMMA TrackType ==
  ASSUME NEW t \in Tracks
  PROVE  t.frames \in Nat /\ t.source_rate \in Nat \ {0} /\ t.output_rate \in Nat \ {0}
  BY TracksAssumption

(***************************************************************************)
(* w output frames, the last of them within the track, are no more than    *)
(* length_samples; and as many when the next would lie past the end.       *)
(***************************************************************************)
LEMMA WithinLength ==
  ASSUME NEW t \in Tracks, NEW w \in Nat \ {0},
         (w - 1) * t.source_rate < t.frames * t.output_rate
  PROVE  w <= length_samples(t)
<1> DEFINE s == t.source_rate  b == t.frames * t.output_rate  q == (b + s - 1) \div s
<1>1. s \in Nat \ {0} /\ b \in Nat
  BY TrackType
<1>2. (w - 1) * s < b
  OBVIOUS
<1>4. length_samples(t) = q
  BY DEF length_samples
<1> HIDE DEF s, b
<1>8. b + s - 1 \in Int
  BY <1>1
<1>3. b + s - 1 = q * s + ((b + s - 1) % s) /\ (b + s - 1) % s \in 0..s - 1 /\ q \in Int
  BY <1>1, <1>8, ModSplit
<1> HIDE DEF q
<1>5. b < (q + 1) * s - s + 1
  BY <1>1, <1>3
<1>6. (w - 1) * s < q * s
  BY <1>1, <1>2, <1>3, <1>5
<1>7. w - 1 < q
  BY <1>1, <1>3, <1>6
<1> QED
  BY <1>3, <1>4, <1>7

LEMMA FullLength ==
  ASSUME NEW t \in Tracks, NEW w \in Nat,
         w > 0 => (w - 1) * t.source_rate < t.frames * t.output_rate,
         t.frames * t.output_rate <= w * t.source_rate
  PROVE  length_samples(t) = w
<1> DEFINE s == t.source_rate  b == t.frames * t.output_rate
<1>1. s \in Nat \ {0} /\ b \in Nat /\ b <= w * s /\ (w > 0 => (w - 1) * s < b)
  BY TrackType
<1>2. length_samples(t) = (b + s - 1) \div s
  BY DEF length_samples
<1> HIDE DEF s, b
<1>3. w * s - s < b
  <2>1. CASE w > 0
    BY <1>1, <2>1
  <2>2. CASE w = 0
    BY <1>1, <2>2
  <2> QED
    BY <2>1, <2>2
<1>4. (b + s - 1) - w * s \in 0..s - 1
  BY <1>1, <1>3
<1>5. b + s - 1 = w * s + ((b + s - 1) - w * s)
  BY <1>1
<1> QED
  BY <1>1, <1>2, <1>4, <1>5, DivUnique

(***************************************************************************)
(* The frames the resampler writes are those of the whole interpolation.   *)
(***************************************************************************)
LEMMA FrameFirst ==
  ASSUME NEW t \in Tracks, t.frames > 0
  PROVE  OutputFrame(t, 0) = Blend(0, 0, 0, t.output_rate)
<1>1. t.frames \in Nat /\ t.source_rate \in Nat \ {0} /\ t.output_rate \in Nat \ {0}
  BY TrackType
<1>2. 0 \div t.output_rate = 0 /\ 0 % t.output_rate = 0
  BY <1>1, DivUnique, ModUnique
<1> QED
  BY <1>1, <1>2 DEF OutputFrame, Blend

LEMMA FrameBetween ==
  ASSUME NEW t \in Tracks, NEW w \in Nat, NEW seen \in Nat \ {0}, seen < t.frames,
         (seen - 1) * t.output_rate < w * t.source_rate,
         w * t.source_rate <= seen * t.output_rate
  PROVE  OutputFrame(t, w) =
           Blend(seen - 1, seen, w * t.source_rate - (seen - 1) * t.output_rate, t.output_rate)
<1> DEFINE at == w * t.source_rate  o == t.output_rate  part == at - (seen - 1) * o
<1>1. at \in Nat /\ o \in Nat \ {0} /\ t.frames \in Nat
  BY TrackType
<1>2. (seen - 1) * o < at /\ at <= seen * o
  OBVIOUS
<1>3. OutputFrame(t, w) = IF at \div o >= t.frames - 1 THEN <<t.frames - 1, t.frames - 1, 0>>
                          ELSE Blend(at \div o, at \div o + 1, at % o, o)
  BY DEF OutputFrame
<1> HIDE DEF at, o
<1>4. part \in 1..o
  BY <1>1, <1>2
<1>5. CASE part = o
  <2>1. at = seen * o + 0 /\ 0 \in 0..o - 1
    BY <1>1, <1>5
  <2>2. at \div o = seen /\ at % o = 0
    <3> at \in Int /\ seen \in Int
      BY <1>1
    <3> HIDE DEF part
    <3>1. at \div o = seen
      BY <1>1, <2>1, DivUnique
    <3>2. at % o = 0
      BY <1>1, <2>1, ModUnique
    <3> QED
      BY <3>1, <3>2
  <2>3. OutputFrame(t, w) = <<seen, seen, 0>>
    BY <1>1, <1>3, <2>2 DEF Blend
  <2> QED
    BY <1>1, <1>5, <2>3 DEF Blend, at, o
<1>6. CASE part # o
  <2>1. at = (seen - 1) * o + part /\ part \in 0..o - 1 /\ part # 0
    BY <1>1, <1>4, <1>6
  <2> HIDE DEF part
  <2>2. at \div o = seen - 1 /\ at % o = part
    <3> at \in Int /\ seen - 1 \in Int
      BY <1>1
    <3>1. at \div o = seen - 1
      BY <1>1, <2>1, DivUnique
    <3>2. at % o = part
      BY <1>1, <2>1, ModUnique
    <3> QED
      BY <3>1, <3>2
  <2>3. OutputFrame(t, w) = Blend(seen - 1, seen, part, o)
    <3>1. ~(seen - 1 >= t.frames - 1) /\ (seen - 1) + 1 = seen
      BY <1>1
    <3> QED
      BY <1>3, <2>2, <3>1
  <2> QED
    BY <2>3 DEF part, at, o
<1> QED
  BY <1>5, <1>6

LEMMA FrameHeld ==
  ASSUME NEW t \in Tracks, NEW w \in Nat, t.frames > 0,
         (t.frames - 1) * t.output_rate < w * t.source_rate
  PROVE  OutputFrame(t, w) = Blend(t.frames - 1, t.frames - 1, 0, t.output_rate)
<1> DEFINE at == w * t.source_rate  o == t.output_rate  q == at \div o
<1>1. at \in Nat /\ o \in Nat \ {0} /\ t.frames \in Nat
  BY TrackType
<1>2. (t.frames - 1) * o < at
  OBVIOUS
<1>3. OutputFrame(t, w) = IF q >= t.frames - 1 THEN <<t.frames - 1, t.frames - 1, 0>>
                          ELSE Blend(q, q + 1, at % o, o)
  BY DEF OutputFrame
<1> HIDE DEF at, o
<1>4. at = q * o + (at % o) /\ at % o \in 0..o - 1 /\ q \in Int
  <2>1. at \in Int
    BY <1>1
  <2> QED
    BY <1>1, <2>1, ModSplit
<1> HIDE DEF q
<1>5. (t.frames - 1) * o < (q + 1) * o
  BY <1>1, <1>2, <1>4
<1>6. t.frames - 1 < q + 1
  BY <1>1, <1>4, <1>5
<1> QED
  BY <1>1, <1>3, <1>4, <1>6 DEF Blend, o

-----------------------------------------------------------------------------
(***************************************************************************)
(* The facts a state satisfies, spelled out for the arithmetic.            *)
(***************************************************************************)
Numbers ==
  /\ track \in Tracks
  /\ track.frames \in Nat /\ track.source_rate \in Nat \ {0}
  /\ track.output_rate \in Nat \ {0}
  /\ handed \in 0..track.frames /\ Len(pending) \in 0..handed
  /\ offset \in 0..Len(pending)
  /\ resampler.seen \in Nat /\ resampler.written \in Nat /\ resampler.previous \in Nat
  /\ resampler.have_previous \in BOOLEAN /\ resampler.done \in BOOLEAN
  /\ ring.read_abs \in Nat /\ ring.write_abs \in Nat /\ ring.reported_base \in Nat
  /\ ring.capacity = Capacity /\ Capacity \in Nat \ {0}
  /\ available_frames(ring) \in 0..Capacity /\ free_frames(ring) \in 0..Capacity
  /\ available_frames(ring) = ring.write_abs - ring.read_abs
  /\ room \in 0..Capacity

LEMMA Facts == IInv => Numbers
<1> SUFFICES ASSUME IInv PROVE Numbers
  OBVIOUS
<1>1. TypeOK
  BY DEF IInv
<1>2. track \in Tracks /\ track.frames \in Nat /\ track.source_rate \in Nat \ {0}
      /\ track.output_rate \in Nat \ {0}
  BY <1>1, TrackType DEF TypeOK
<1>3. handed \in 0..track.frames /\ Len(pending) \in 0..handed
  BY <1>1, <1>2 DEF TypeOK
<1>4. offset \in 0..Len(pending) /\ room \in 0..Capacity
  BY <1>1 DEF TypeOK, PendingHolds
<1>5. /\ resampler.seen \in Nat /\ resampler.written \in Nat /\ resampler.previous \in Nat
      /\ resampler.have_previous \in BOOLEAN /\ resampler.done \in BOOLEAN
  BY <1>1 DEF TypeOK, Resamplers
<1>6. /\ ring.read_abs \in Nat /\ ring.write_abs \in Nat /\ ring.reported_base \in Nat
      /\ ring.capacity = Capacity /\ Capacity \in Nat \ {0}
      /\ available_frames(ring) \in 0..Capacity
  BY <1>1, SizesAssumption DEF TypeOK, IsRing
<1>7. /\ free_frames(ring) \in 0..Capacity
      /\ available_frames(ring) = ring.write_abs - ring.read_abs
  BY <1>6 DEF free_frames, available_frames
<1> QED
  BY <1>2, <1>3, <1>4, <1>5, <1>6, <1>7 DEF Numbers

(* The numbers the conversion multiplies are natural numbers, the rates not zero. *)
LEMMA Counts ==
  Numbers => /\ track.source_rate \in Nat /\ track.source_rate \in Int /\ track.source_rate > 0
             /\ track.output_rate \in Nat /\ track.output_rate \in Int /\ track.output_rate > 0
             /\ track.frames \in Nat /\ track.frames \in Int
             /\ resampler.seen \in Nat /\ resampler.seen \in Int
             /\ resampler.written \in Nat /\ resampler.written \in Int
             /\ resampler.written + 1 \in Nat
<1>1. ASSUME NEW n \in Nat PROVE n \in Int /\ n + 1 \in Nat
  OBVIOUS
<1>2. ASSUME NEW n \in Nat \ {0} PROVE n \in Nat /\ n > 0
  OBVIOUS
<1> QED
  BY <1>1, <1>2 DEF Numbers

(* Before anything is written or handed over, the first product is below any other. *)
LEMMA BelowProduct ==
  ASSUME NEW a \in Nat, NEW b \in Nat, a > 0, b > 0
  PROVE  (1 - 1) * a < b * a /\ (1 - 1) * b < b * a /\ (1 - 1) * b < 1 * a
<1>1. (1 - 1) * a = 0 /\ (1 - 1) * b = 0 /\ 1 * a = a
  OBVIOUS
<1>2. b * a > 0
  OBVIOUS
<1> QED
  BY <1>1, <1>2

LEMMA SourceIsNext ==
  ASSUME IInv, Converting
  PROVE  Source = resampler.seen /\ resampler.seen < track.frames
<1>0. Numbers
  BY Facts
<1>1. offset + 1 \in 1..Len(pending) /\ resampler.seen = handed - Len(pending) + offset
  <2>1. offset < Len(pending) /\ resampler.seen = handed - Len(pending) + offset
    BY DEF IInv, Progress, Converting
  <2> QED
    BY <2>1, <1>0 DEF Numbers
<1>2. pending[offset + 1] = handed - Len(pending) + (offset + 1) - 1
  BY <1>1 DEF IInv, TypeOK, PendingHolds
<1> QED
  BY <1>1, <1>2, <1>0, SMTT(30) DEF Numbers, Source

LEMMA BlendIsFrame ==
  ASSUME NEW l \in Nat, NEW r \in Nat, NEW part \in Nat, NEW rate
  PROVE  Blend(l, r, part, rate) \in Frames
  BY DEF Blend, Frames

(***************************************************************************)
(* Writing the next output frame keeps the ring in order.                  *)
(***************************************************************************)
LEMMA EmitKeeps ==
  ASSUME IInv, MayWrite, NEW frame \in Frames, Emit(frame),
         frame = OutputFrame(track, resampler.written),
         track' = track, resampler'.written = resampler.written + 1
  PROVE  /\ IsRing(ring', Slots) /\ ring'.capacity = Capacity /\ room' \in 0..Capacity
         /\ InOrder'
         /\ available_frames(ring') = available_frames(ring) + 1
         /\ rendered_frames(ring') = rendered_frames(ring)
<1>0. Numbers
  BY Facts
<1>1. IsRing(ring, Slots) /\ ring.capacity = Capacity
  BY DEF IInv, TypeOK
<1>2. <<frame>> \in Seq(Slots) /\ Len(<<frame>>) = 1 /\ <<frame>>[1] = frame
  BY DEF Slots
<1>3. Accepted(ring, <<frame>>) = 1
  BY <1>2, <1>0 DEF Numbers, Accepted, AtMost, MayWrite
<1>4. ring' = write_interleaved(ring, <<frame>>)
  BY DEF Emit
<1>5. /\ IsRing(ring', Slots)
      /\ ring'.capacity = ring.capacity /\ ring'.reported_base = ring.reported_base
      /\ ring'.read_abs = ring.read_abs /\ ring'.write_abs = ring.write_abs + 1
      /\ \A k \in ring.read_abs..ring.write_abs - 1 :
           ring'.data[Slot(ring, k)] = ring.data[Slot(ring, k)]
      /\ \A i \in 0..1 - 1 : ring'.data[Slot(ring, ring.write_abs + i)] = <<frame>>[i + 1]
  <2> DEFINE chunk == <<frame>>  n == Accepted(ring, chunk)
  <2>1. chunk \in Seq(Slots)
    BY <1>2
  <2> HIDE DEF chunk, n
  <2>2. ring' = write_interleaved(ring, chunk)
    BY <1>4 DEF chunk
  <2>3. /\ IsRing(ring', Slots)
        /\ ring'.capacity = ring.capacity /\ ring'.reported_base = ring.reported_base
        /\ ring'.read_abs = ring.read_abs /\ ring'.write_abs = ring.write_abs + n
        /\ \A k \in ring.read_abs..ring.write_abs - 1 :
             ring'.data[Slot(ring, k)] = ring.data[Slot(ring, k)]
        /\ \A i \in 0..n - 1 : ring'.data[Slot(ring, ring.write_abs + i)] = chunk[i + 1]
    BY <1>1, <2>1, <2>2, WriteAppends DEF n
  <2>4. n = 1
    BY <1>3 DEF n, chunk
  <2> QED
    BY <2>3, <2>4 DEF chunk
<1>6. ring'.data[Slot(ring, ring.write_abs)] = frame
  BY <1>2, <1>5, <1>0, SMTT(30) DEF Numbers
<1>7. InOrder'
  <2>0. /\ ring'.write_abs = ring.write_abs + 1 /\ resampler'.written = resampler.written + 1
        /\ ring.write_abs \in Nat /\ resampler.written \in Nat
    BY <1>5, <1>0 DEF Numbers
  <2>1. ring'.write_abs <= resampler'.written
    BY <1>5, <1>0 DEF Numbers, IInv, InOrder
  <2>2. ASSUME NEW k \in ring'.read_abs..ring'.write_abs - 1
        PROVE  ring'.data[Slot(ring', k)]
                 = OutputFrame(track', resampler'.written - ring'.write_abs + k)
    <3>0. k \in Int
      OBVIOUS
    <3>1. /\ resampler'.written - ring'.write_abs + k = resampler.written - ring.write_abs + k
          /\ Slot(ring', k) = Slot(ring, k)
      <4>1. resampler'.written - ring'.write_abs + k = resampler.written - ring.write_abs + k
        BY <2>0, <3>0
      <4>2. Slot(ring', k) = Slot(ring, k)
        BY <1>5 DEF Slot
      <4> QED
        BY <4>1, <4>2
    <3>2. CASE k = ring.write_abs
      <4>1. resampler.written - ring.write_abs + k = resampler.written
        BY <3>2, <1>0 DEF Numbers
      <4> QED
        BY <1>6, <3>1, <3>2, <4>1
    <3>3. CASE k # ring.write_abs
      <4>1. k \in ring.read_abs..ring.write_abs - 1
        BY <1>5, <3>3, <1>0 DEF Numbers
      <4> QED
        BY <1>5, <3>1, <4>1 DEF IInv, InOrder
    <3> QED
      BY <3>2, <3>3
  <2> QED
    BY <2>1, <2>2 DEF InOrder
<1>8. room' \in 0..Capacity
  BY <1>0 DEF Numbers, Emit, MayWrite
<1>9. /\ available_frames(ring') = available_frames(ring) + 1
      /\ rendered_frames(ring') = rendered_frames(ring)
  BY <1>5, <1>0 DEF Numbers, available_frames, rendered_frames
<1> QED
  BY <1>1, <1>5, <1>7, <1>8, <1>9

-----------------------------------------------------------------------------
(***************************************************************************)
(* One lemma per action.  What leaves track, resampler and ring alone      *)
(* keeps the ring in order.                                                *)
(***************************************************************************)
LEMMA OrderStays ==
  ASSUME InOrder, UNCHANGED <<track, resampler, ring>>
  PROVE  InOrder'
  BY DEF InOrder, Slot

LEMMA PumpKeeps ==
  ASSUME IInv, NEW n \in 0..Capacity, pump(n), seeking' \in {"no", "pump", "take"}
  PROVE  IInv'
<1>0. Numbers
  BY Facts
<1>1. /\ UNCHANGED <<track, resampler, tail_done, ring, remaining, out, seeks>>
      /\ pc = "idle" /\ room' = n
  BY DEF pump
<1>2. InOrder'
  BY <1>1, OrderStays DEF IInv
<1>3. CASE (eos \/ (pending = << >> /\ handed = track.frames)) /\ AtEnd
  <2>1. pending = << >> /\ handed = track.frames
    BY <1>3 DEF IInv, Phases
  <2>2. TypeOK'
    BY <1>1, <1>3, <1>0 DEF AtEnd, TypeOK, IInv, PendingHolds
  <2>3. Phases'
    BY <1>1, <1>3, <2>1 DEF AtEnd, IInv, Phases, TypeOK
  <2>4. Progress'
    BY <1>1, <1>3 DEF AtEnd, IInv, Progress
  <2> QED
    BY <1>2, <2>2, <2>3, <2>4 DEF IInv
<1>4. ASSUME ~eos, pending = << >>,
             NEW m \in 1..AtMost(Chunk, track.frames - handed), Decoded(m)
      PROVE  IInv'
  <2>1. m \in Nat /\ handed + m <= track.frames
    <3>1. Chunk \in Nat
      BY SizesAssumption
    <3>2. handed \in Nat /\ track.frames \in Nat
      BY <1>0 DEF Numbers
    <3>3. AtMost(Chunk, track.frames - handed) \in Int
          /\ AtMost(Chunk, track.frames - handed) <= track.frames - handed
      BY <3>1, <3>2 DEF AtMost
    <3> QED
      BY <1>4, <3>2, <3>3
  <2>2. /\ pending' = [i \in 1..m |-> handed + i - 1] /\ handed' = handed + m
        /\ offset' = 0 /\ pc' = "process" /\ eos' = eos
    BY <1>4 DEF Decoded
  <2>3. \A i \in 1..m : handed + i - 1 \in Nat
    BY <1>0, <2>1 DEF Numbers
  <2>4. pending' \in Seq(Nat) /\ Len(pending') = m
    BY <2>1, <2>2, <2>3
  <2>5. PendingHolds'
    <3>1. \A i \in 1..m : handed' - m + i - 1 = handed + i - 1
      BY <1>0, <2>1, <2>2 DEF Numbers
    <3> QED
      BY <2>1, <2>2, <2>4, <3>1 DEF PendingHolds
  <2>6. handed' \in 0..track.frames /\ m <= handed'
    BY <1>0, <2>1, <2>2 DEF Numbers
  <2>7. TypeOK'
    BY <1>1, <2>2, <2>4, <2>5, <2>6 DEF IInv, TypeOK
  <2>8. Phases'
    BY <1>1, <1>4, <2>2 DEF IInv, Phases
  <2>9. Progress'
    <3>1. resampler.seen = handed - 0 + 0
      BY <1>0, <1>4 DEF IInv, Progress, TypeOK, PendingHolds, Numbers
    <3>2. resampler.seen = handed' - m + 0
      BY <1>0, <2>1, <2>2, <3>1 DEF Numbers
    <3> QED
      BY <1>1, <2>2, <2>4, <3>2 DEF IInv, Progress
  <2> QED
    BY <1>2, <2>7, <2>8, <2>9 DEF IInv
<1>5. CASE ~eos /\ pending # << >> /\ pc' = "process" /\ UNCHANGED <<handed, eos, pending, offset>>
  <2>1. TypeOK'
    BY <1>1, <1>5 DEF IInv, TypeOK, PendingHolds
  <2>2. Phases' /\ Progress'
    BY <1>1, <1>5 DEF IInv, Phases, Progress
  <2> QED
    BY <1>2, <2>1, <2>2 DEF IInv
<1> QED
  BY <1>3, <1>4, <1>5 DEF pump

LEMMA FirstKeeps ==
  ASSUME IInv, First
  PROVE  IInv' /\ available_frames(ring') = available_frames(ring) + 1
         /\ rendered_frames(ring') = rendered_frames(ring)
<1>0. Numbers
  BY Facts
<1>1. Source = resampler.seen /\ resampler.seen < track.frames
  BY SourceIsNext DEF First
<1>2. resampler.seen = 0 /\ resampler.written = 0
  BY <1>0 DEF First, IInv, Progress, Numbers
<1>3. Blend(Source, Source, 0, track.output_rate) = OutputFrame(track, resampler.written)
  BY <1>0, <1>1, <1>2, FrameFirst DEF Numbers
<1>4. Blend(Source, Source, 0, track.output_rate) \in Frames
  BY <1>0, <1>1, BlendIsFrame DEF Numbers
<1>5. /\ resampler' = [previous |-> 0, have_previous |-> TRUE, seen |-> 1, written |-> 1, done |-> FALSE]
      /\ offset' = offset + 1
      /\ UNCHANGED <<track, handed, eos, pending, tail_done, pc, seeking, remaining, out, seeks>>
  BY <1>1, <1>2 DEF First
<1>6. /\ IsRing(ring', Slots) /\ ring'.capacity = Capacity /\ room' \in 0..Capacity
      /\ InOrder'
      /\ available_frames(ring') = available_frames(ring) + 1
      /\ rendered_frames(ring') = rendered_frames(ring)
  <2>1. resampler'.written = resampler.written + 1
    BY <1>2, <1>5
  <2> QED
    BY <1>3, <1>4, <1>5, <2>1, EmitKeeps DEF First
<1>7. offset' \in 0..Len(pending)
  BY <1>0, <1>5 DEF First, Converting, Numbers
<1>8. TypeOK'
  BY <1>5, <1>6, <1>7 DEF IInv, TypeOK, Resamplers, PendingHolds
<1>9. Phases'
  BY <1>5 DEF First, Converting, IInv, Phases
<1>10. Progress'
  <2>1. resampler'.seen = handed' - Len(pending') + offset'
    BY <1>0, <1>2, <1>5, SMTT(30) DEF IInv, Progress, Numbers
  <2>2. (1 - 1) * track.output_rate < 1 * track.source_rate
    BY <1>0, Counts, BelowProduct
  <2>3. (1 - 1) * track.source_rate < track.frames * track.output_rate
    BY <1>0, <1>1, Counts, BelowProduct
  <2> QED
    BY <1>5, <2>1, <2>2, <2>3 DEF Progress
<1> QED
  BY <1>6, <1>8, <1>9, <1>10 DEF IInv

LEMMA BetweenKeeps ==
  ASSUME IInv, Between
  PROVE  IInv' /\ available_frames(ring') = available_frames(ring) + 1
         /\ rendered_frames(ring') = rendered_frames(ring)
<1>0. Numbers
  BY Facts
<1> DEFINE s == track.source_rate  o == track.output_rate  f == track.frames
           w == resampler.written  n == resampler.seen
<1>1. Source = n /\ n < f
  BY SourceIsNext DEF Between
<1>2. /\ n > 0 /\ n \in Nat /\ resampler.previous = n - 1 /\ w > 0 /\ w \in Nat
      /\ (n - 1) * o < w * s
  BY <1>0 DEF Between, IInv, Progress, Numbers
<1>3. w * s <= n * o
  BY DEF Between, DueBy, output_position
<1>4. Interpolated = OutputFrame(track, w)
  <2>1. OutputFrame(track, w) = Blend(n - 1, n, w * s - (n - 1) * o, o)
    <3>1. track \in Tracks
      BY <1>0 DEF Numbers
    <3>2. n \in Nat \ {0}
      BY <1>2
    <3> QED
      BY <1>1, <1>2, <1>3, <3>1, <3>2, FrameBetween
  <2> QED
    BY <1>1, <1>2, <2>1 DEF Interpolated, output_position
<1>5. Interpolated \in Frames
  <2>1. w * s - (n - 1) * o \in Nat
    <3>1. w * s \in Int /\ (n - 1) * o \in Int
      <4>1. s \in Int /\ o \in Int /\ w \in Int /\ n - 1 \in Int
        <5>1. s \in Int /\ o \in Int
          BY <1>0, Counts DEF s, o
        <5>2. w \in Int /\ n - 1 \in Int
          BY <1>2
        <5> QED
          BY <5>1, <5>2
      <4> HIDE DEF s, o, w, n
      <4> QED
        BY <4>1
    <3> QED
      BY <1>2, <3>1
  <2>2. n - 1 \in Nat
    BY <1>2
  <2> QED
    BY <1>1, <1>2, <2>1, <2>2, BlendIsFrame DEF Interpolated, output_position
<1>6. /\ resampler' = [resampler EXCEPT !.written = @ + 1]
      /\ resampler'.written = w + 1
      /\ UNCHANGED <<track, handed, eos, pending, offset, tail_done, pc, seeking, remaining, out, seeks>>
  BY DEF Between, IInv, TypeOK, Resamplers
<1>7. /\ IsRing(ring', Slots) /\ ring'.capacity = Capacity /\ room' \in 0..Capacity
      /\ InOrder'
      /\ available_frames(ring') = available_frames(ring) + 1
      /\ rendered_frames(ring') = rendered_frames(ring)
  BY <1>4, <1>5, <1>6, EmitKeeps DEF Between
<1>8. TypeOK'
  <2>1. resampler' \in Resamplers
    BY <1>2, <1>6 DEF IInv, TypeOK, Resamplers
  <2> QED
    BY <1>6, <1>7, <2>1 DEF IInv, TypeOK, PendingHolds
<1>9. Phases'
  BY <1>6 DEF IInv, Phases, TypeOK, Resamplers
<1>10. Progress'
  <2>1. (n - 1) * o < (w + 1) * s /\ ((w + 1) - 1) * s < f * o
    <3> HIDE DEF s, o, f, w, n
    <3>1. s \in Nat \ {0} /\ o \in Nat \ {0} /\ f \in Nat
      BY <1>0 DEF Numbers, s, o, f
    <3>2. n * o < f * o
      BY <1>1, <1>2, <3>1
    <3>3. w * s < (w + 1) * s
      BY <1>2, <3>1
    <3>4. (w + 1) - 1 = w
      BY <1>2
    <3> QED
      BY <1>2, <1>3, <3>1, <3>2, <3>3, <3>4
  <2>2. /\ resampler'.seen = n /\ resampler'.have_previous /\ resampler'.previous = n - 1
        /\ resampler'.done = FALSE
    BY <1>2, <1>6 DEF IInv, TypeOK, Resamplers, Between, Converting
  <2>3. n = handed - Len(pending) + offset
    BY DEF IInv, Progress
  <2> QED
    BY <1>2, <1>6, <2>1, <2>2, <2>3 DEF Progress
<1> QED
  BY <1>7, <1>8, <1>9, <1>10 DEF IInv

LEMMA ConsumeKeeps ==
  ASSUME IInv, Consume
  PROVE  IInv'
<1>0. Numbers
  BY Facts
<1> DEFINE s == track.source_rate  o == track.output_rate  f == track.frames
           w == resampler.written  n == resampler.seen
<1>1. Source = n /\ n < f
  BY SourceIsNext DEF Consume
<1>2. ~(w * s <= n * o)
  BY DEF Consume, DueBy, output_position
<1>3. w > 0 /\ n > 0 /\ (w - 1) * s < f * o /\ n = handed - Len(pending) + offset
  BY DEF Consume, IInv, Progress
<1>4. /\ resampler' = [resampler EXCEPT !.previous = n, !.seen = n + 1]
      /\ offset' = offset + 1
      /\ UNCHANGED <<track, handed, eos, pending, tail_done, ring, pc, room, seeking, remaining, out, seeks>>
  BY <1>1 DEF Consume
<1>5. /\ resampler'.previous = n /\ resampler'.seen = n + 1 /\ resampler'.written = w
      /\ resampler'.have_previous = resampler.have_previous /\ resampler'.done = resampler.done
      /\ resampler' \in Resamplers
  <2>1. n \in Nat /\ n + 1 \in Nat
    BY <1>0, Counts DEF n
  <2> QED
    BY <1>4, <2>1 DEF IInv, TypeOK, Resamplers
<1>6. TypeOK'
  <2>1. offset' \in 0..Len(pending)
    <3>1. offset < Len(pending)
      BY DEF Consume, Converting
    <3>2. offset \in 0..Len(pending) /\ Len(pending) \in Nat
      BY <1>0 DEF Numbers
    <3>3. offset' = offset + 1
      BY <1>4
    <3> QED
      BY <3>1, <3>2, <3>3
  <2> QED
    BY <1>4, <1>5, <2>1 DEF IInv, TypeOK, PendingHolds
<1>7. Phases'
  BY <1>4, <1>5 DEF IInv, Phases
<1>8. Progress'
  <2>1. ((n + 1) - 1) * o < w * s
    <3>1. w * s \in Int /\ n * o \in Int /\ (n + 1) - 1 = n
      <4>1. s \in Int /\ o \in Int /\ w \in Int /\ n \in Int
        BY <1>0, Counts DEF s, o, w, n
      <4> HIDE DEF s, o, w, n
      <4> QED
        BY <4>1
    <3> QED
      BY <1>2, <3>1
  <2>2. n + 1 = handed - Len(pending) + (offset + 1) /\ n + 1 > 0 /\ (n + 1) - 1 = n
    BY <1>0, <1>3 DEF Numbers
  <2>3. resampler.have_previous /\ ~resampler.done
    BY DEF Consume, Converting
  <2> QED
    BY <1>3, <1>4, <1>5, <2>1, <2>2, <2>3 DEF Progress
<1>9. InOrder'
  BY <1>4, <1>5 DEF IInv, InOrder, Slot
<1> QED
  BY <1>6, <1>7, <1>8, <1>9 DEF IInv

LEMMA ReturnKeeps ==
  ASSUME IInv, Return
  PROVE  IInv'
<1>0. Numbers
  BY Facts
<1>1. UNCHANGED <<track, handed, eos, resampler, tail_done, ring, room, seeking, remaining, out, seeks>>
      /\ pc' = "idle"
  BY DEF Return
<1>2. InOrder'
  BY <1>1, OrderStays DEF IInv
<1>3. CASE offset >= Len(pending) /\ pending' = << >> /\ offset' = 0
  <2>1. PendingHolds'
    BY <1>3 DEF PendingHolds
  <2>2. TypeOK'
    BY <1>0, <1>1, <1>3, <2>1 DEF IInv, TypeOK, Numbers
  <2>3. Len(pending) - offset = 0 /\ handed - Len(pending) + offset = handed - 0 + 0
    <3>1. handed \in Nat /\ Len(pending) \in Nat /\ offset \in 0..Len(pending)
      BY <1>0 DEF Numbers
    <3> QED
      BY <1>3, <3>1
  <2>4. Phases' /\ Progress'
    BY <1>1, <1>3, <2>3 DEF IInv, Phases, Progress
  <2> QED
    BY <1>2, <2>2, <2>4 DEF IInv
<1>4. CASE UNCHANGED <<pending, offset>>
  BY <1>1, <1>2, <1>4 DEF IInv, TypeOK, PendingHolds, Phases, Progress
<1> QED
  BY <1>3, <1>4 DEF Return

LEMMA HeldKeeps ==
  ASSUME IInv, Held
  PROVE  IInv' /\ available_frames(ring') = available_frames(ring) + 1
         /\ rendered_frames(ring') = rendered_frames(ring)
<1>0. Numbers
  BY Facts
<1> DEFINE s == track.source_rate  o == track.output_rate  f == track.frames
           w == resampler.written  n == resampler.seen
           frame == Blend(resampler.previous, resampler.previous, 0, track.output_rate)
<1>1. n = f /\ n > 0
  <2>1. pending = << >> /\ handed = f /\ n = handed - Len(pending) + offset /\ n > 0
    BY DEF Held, IInv, Phases, Progress
  <2> QED
    BY <1>0, <2>1 DEF Numbers
<1>2. /\ resampler.previous = n - 1 /\ w > 0 /\ (n - 1) * o < w * s /\ w * s < n * o
  BY DEF Held, IInv, Progress, DueBefore, output_position
<1>3. frame = OutputFrame(track, w)
  <2>1. track \in Tracks /\ w \in Nat
    BY <1>0 DEF Numbers
  <2>2. OutputFrame(track, w) = Blend(f - 1, f - 1, 0, o)
    BY <1>1, <1>2, <2>1, FrameHeld
  <2> QED
    BY <1>1, <1>2, <2>2
<1>4. frame \in Frames
  BY <1>0, BlendIsFrame DEF Numbers
<1>5. /\ resampler' = [resampler EXCEPT !.written = @ + 1]
      /\ resampler'.written = w + 1
      /\ UNCHANGED <<track, handed, eos, pending, offset, tail_done, pc, seeking, remaining, out, seeks>>
  BY DEF Held, IInv, TypeOK, Resamplers
<1>6. /\ IsRing(ring', Slots) /\ ring'.capacity = Capacity /\ room' \in 0..Capacity
      /\ InOrder'
      /\ available_frames(ring') = available_frames(ring) + 1
      /\ rendered_frames(ring') = rendered_frames(ring)
  BY <1>3, <1>4, <1>5, EmitKeeps DEF Held
<1>7. TypeOK'
  <2>1. w \in Nat /\ w + 1 \in Nat
    BY <1>0, Counts DEF w
  <2>2. resampler' \in Resamplers
    BY <1>5, <2>1 DEF IInv, TypeOK, Resamplers
  <2> QED
    BY <1>5, <1>6, <2>2 DEF IInv, TypeOK, PendingHolds
<1>8. Phases'
  BY <1>5 DEF IInv, Phases, TypeOK, Resamplers
<1>9. Progress'
  <2>1. (n - 1) * o < (w + 1) * s /\ ((w + 1) - 1) * s < f * o
    <3> HIDE DEF s, o, f, w, n, frame
    <3>1. s \in Nat \ {0} /\ o \in Nat \ {0} /\ f \in Nat /\ w \in Nat /\ n \in Nat
      BY <1>0 DEF Numbers, s, o, f, w, n
    <3>2. w * s < (w + 1) * s /\ (w + 1) - 1 = w
      BY <3>1
    <3> QED
      BY <1>1, <1>2, <3>1, <3>2
  <2>2. /\ resampler'.seen = n /\ resampler'.have_previous /\ resampler'.previous = n - 1
        /\ resampler'.done = FALSE
    BY <1>2, <1>5 DEF IInv, TypeOK, Resamplers, Held
  <2>3. n = handed - Len(pending) + offset /\ w + 1 > 0
    BY <1>0, SMTT(30) DEF IInv, Progress, Numbers
  <2> QED
    BY <1>1, <1>5, <2>1, <2>2, <2>3 DEF Progress
<1> QED
  BY <1>6, <1>7, <1>8, <1>9 DEF IInv

LEMMA FinishLaterKeeps ==
  ASSUME IInv, FinishLater
  PROVE  IInv'
<1>1. UNCHANGED <<track, handed, eos, pending, offset, resampler, tail_done, ring, room,
                  seeking, remaining, out, seeks>> /\ pc' = "idle"
  BY DEF FinishLater, decode
<1>2. InOrder'
  BY <1>1, OrderStays DEF IInv
<1> QED
  BY <1>1, <1>2 DEF IInv, TypeOK, PendingHolds, Phases, Progress

LEMMA FinishKeeps ==
  ASSUME IInv, Finish
  PROVE  IInv'
<1>0. Numbers
  BY Facts
<1> DEFINE s == track.source_rate  o == track.output_rate
           w == resampler.written  n == resampler.seen
<1>1. /\ resampler' = [resampler EXCEPT !.done = TRUE] /\ tail_done' = TRUE /\ pc' = "idle"
      /\ UNCHANGED <<track, handed, eos, pending, offset, ring, room, seeking, remaining, out, seeks>>
  BY DEF Finish
<1>2. /\ resampler'.done = TRUE /\ resampler'.written = w /\ resampler'.seen = n
      /\ resampler'.previous = resampler.previous
      /\ resampler'.have_previous = resampler.have_previous
      /\ resampler' \in Resamplers
  BY <1>1 DEF IInv, TypeOK, Resamplers
<1>3. TypeOK'
  BY <1>1, <1>2 DEF IInv, TypeOK, PendingHolds
<1>4. Phases'
  BY <1>1, <1>2 DEF Finish, IInv, Phases
<1>5. n * o <= w * s
  <2>1. CASE resampler.have_previous
    <3>1. ~(w * s < n * o)
      BY <2>1 DEF Finish, IInv, Phases, DueBefore, output_position
    <3>2. s \in Int /\ o \in Int /\ w \in Int /\ n \in Int
      BY <1>0, Counts DEF s, o, w, n
    <3> HIDE DEF s, o, w, n
    <3> QED
      BY <3>1, <3>2
  <2>2. CASE ~resampler.have_previous
    <3>1. n = 0 /\ w = 0
      BY <1>0, <2>2 DEF IInv, Progress, Numbers
    <3>2. s \in Int /\ o \in Int
      BY <1>0, Counts DEF s, o
    <3> HIDE DEF s, o, w, n
    <3> QED
      BY <3>1, <3>2
  <2> QED
    BY <2>1, <2>2
<1>6. Progress'
  BY <1>1, <1>2, <1>5 DEF IInv, Progress
<1>7. InOrder'
  BY <1>1, <1>2 DEF IInv, InOrder, Slot
<1> QED
  BY <1>3, <1>4, <1>6, <1>7 DEF IInv

(***************************************************************************)
(* Reading: by the device, by the loop of a seek, and to rebuild the ring. *)
(***************************************************************************)
LEMMA TakeKeeps ==
  ASSUME IInv, NEW m \in Nat, ring' = AfterRead(ring, m), UNCHANGED <<track, resampler>>
  PROVE  /\ IsRing(ring', Slots) /\ ring'.capacity = Capacity
         /\ InOrder'
         /\ Readable(ring, m) \in 0..available_frames(ring) /\ Readable(ring, m) <= m
         /\ available_frames(ring') = available_frames(ring) - Readable(ring, m)
         /\ rendered_frames(ring') = rendered_frames(ring) + Readable(ring, m)
         /\ FramesRead(ring, m) \in Seq(Slots)
         /\ FramesRead(ring, m)
              = [i \in 1..Readable(ring, m) |-> OutputFrame(track, Position + i - 1)]
<1>0. Numbers
  BY Facts
<1> DEFINE n == Readable(ring, m)
<1> HIDE DEF n
<1>1. IsRing(ring, Slots) /\ ring.capacity = Capacity
  BY DEF IInv, TypeOK
<1>2. /\ IsRing(ring', Slots)
      /\ n \in 0..available_frames(ring) /\ n <= m
      /\ ring'.capacity = ring.capacity /\ ring'.reported_base = ring.reported_base
      /\ ring'.read_abs = ring.read_abs + n /\ ring'.write_abs = ring.write_abs
      /\ ring'.data = ring.data
      /\ FramesRead(ring, m) \in Seq(Slots)
  <2>1. n = Readable(ring, m)
    BY DEF n
  <2>2. ring' = AfterRead(ring, m)
    OBVIOUS
  <2>3. /\ ring'.capacity = ring.capacity /\ ring'.reported_base = ring.reported_base
        /\ ring'.read_abs = ring.read_abs + n /\ ring'.write_abs = ring.write_abs
        /\ ring'.data = ring.data
    BY <1>1, <2>1, <2>2 DEF AfterRead, IsRing
  <2> QED
    BY <1>1, <2>1, <2>2, <2>3, ReadTakes
<1>3. /\ n \in Nat /\ n <= ring.write_abs - ring.read_abs
      /\ ring.write_abs \in Nat /\ ring.read_abs \in Nat /\ ring.reported_base \in Nat
      /\ resampler.written \in Nat
  BY <1>0, <1>2 DEF Numbers
<1>4. InOrder'
  <2>1. ring'.write_abs <= resampler'.written
    BY <1>2 DEF IInv, InOrder
  <2>2. ASSUME NEW k \in ring'.read_abs..ring'.write_abs - 1
        PROVE  ring'.data[Slot(ring', k)]
                 = OutputFrame(track', resampler'.written - ring'.write_abs + k)
    <3>1. k \in ring.read_abs..ring.write_abs - 1
      BY <1>0, <1>2, <1>3, SMTT(30) DEF Numbers
    <3>2. Slot(ring', k) = Slot(ring, k)
      BY <1>2 DEF Slot
    <3> QED
      BY <1>2, <3>1, <3>2 DEF IInv, InOrder
  <2> QED
    BY <2>1, <2>2 DEF InOrder
<1>5. /\ available_frames(ring') = available_frames(ring) - n
      /\ rendered_frames(ring') = rendered_frames(ring) + n
  BY <1>2, <1>3 DEF available_frames, rendered_frames
<1>6. FramesRead(ring, m) = [i \in 1..n |-> OutputFrame(track, Position + i - 1)]
  <2>1. ASSUME NEW i \in 1..n
        PROVE  ring.data[Slot(ring, ring.read_abs + i - 1)] = OutputFrame(track, Position + i - 1)
    <3>1. ring.read_abs + i - 1 \in ring.read_abs..ring.write_abs - 1
      BY <1>3
    <3>2. resampler.written - ring.write_abs + (ring.read_abs + i - 1) = Position + i - 1
      BY <1>3 DEF Position, available_frames
    <3> QED
      BY <3>1, <3>2 DEF IInv, InOrder
  <2> QED
    BY <2>1 DEF FramesRead, n
<1> QED
  BY <1>1, <1>2, <1>4, <1>5, <1>6 DEF n

LEMMA ReadKeeps ==
  ASSUME IInv, NEW m \in Nat, Read(m)
  PROVE  IInv'
<1>1. ring' = AfterRead(ring, m) /\ out' = FramesRead(ring, m)
      /\ UNCHANGED <<track, handed, eos, pending, offset, resampler, tail_done, pc, room,
                     seeking, remaining, seeks>>
  BY DEF Read, decode
<1>2. IsRing(ring', Slots) /\ ring'.capacity = Capacity /\ InOrder' /\ out' \in Seq(Slots)
  BY <1>1, TakeKeeps
<1> QED
  BY <1>1, <1>2 DEF IInv, TypeOK, PendingHolds, Phases, Progress

LEMMA SkipTakes ==
  ASSUME IInv, Skip
  PROVE  AtMost(remaining, Scratch) \in Nat /\ AtMost(remaining, Scratch) <= remaining
  BY SizesAssumption DEF AtMost, IInv, TypeOK

LEMMA SkipKeeps ==
  ASSUME IInv, Skip
  PROVE  IInv'
<1> DEFINE m == AtMost(remaining, Scratch)
<1>1. m \in Nat /\ m <= remaining /\ remaining \in Nat
  BY SkipTakes DEF IInv, TypeOK
<1>2. ring' = AfterRead(ring, m) /\ remaining' = remaining - Readable(ring, m)
      /\ seeking' = "pump"
      /\ UNCHANGED <<track, handed, eos, pending, offset, resampler, tail_done, pc, room, out, seeks>>
  BY DEF Skip, decode
<1> HIDE DEF m
<1>3. /\ IsRing(ring', Slots) /\ ring'.capacity = Capacity /\ InOrder'
      /\ Readable(ring, m) \in 0..available_frames(ring) /\ Readable(ring, m) <= m
  BY <1>1, <1>2, TakeKeeps
<1>4. Numbers
  BY Facts
<1>5. remaining' \in Nat
  <2>1. Readable(ring, m) \in Nat
    BY <1>3, <1>4 DEF Numbers
  <2> QED
    BY <1>1, <1>2, <1>3, <2>1
<1> QED
  BY <1>2, <1>3, <1>5 DEF IInv, TypeOK, PendingHolds, Phases, Progress

LEMMA NewRingIsRing ==
  /\ IsRing(NewRing(Capacity, Silence), Slots)
  /\ available_frames(NewRing(Capacity, Silence)) = 0
  /\ rendered_frames(NewRing(Capacity, Silence)) = 0
  /\ free_frames(NewRing(Capacity, Silence)) = Capacity
<1>1. Capacity \in Nat \ {0} /\ Silence \in Slots
  BY SizesAssumption DEF Slots
<1>2. [slot \in 0..Capacity - 1 |-> Silence] \in [0..Capacity - 1 -> Slots]
  BY <1>1
<1> QED
  BY <1>1, <1>2 DEF NewRing, IsRing, available_frames, rendered_frames, free_frames

LEMMA SeekKeeps ==
  ASSUME IInv, NEW target \in Targets, Seek(target)
  PROVE  IInv'
<1>0. Numbers
  BY Facts
<1>1. /\ handed' = 0 /\ eos' = FALSE /\ pending' = << >> /\ offset' = 0
      /\ resampler' = NewResampler /\ tail_done' = FALSE
      /\ ring' = NewRing(Capacity, Silence)
      /\ seeking' = "pump" /\ remaining' = target /\ target \in Nat
      /\ pc = "idle" /\ seeks' \in 0..MaxSeeks
      /\ UNCHANGED <<track, pc, room, out>>
  <2>1. seeks' \in 0..MaxSeeks
    BY SizesAssumption DEF Seek, IInv, TypeOK
  <2> QED
    BY <2>1, TargetsAssumption DEF Seek
<1>2. IsRing(ring', Slots) /\ ring'.capacity = Capacity
  BY <1>1, NewRingIsRing DEF NewRing
<1>3. TypeOK'
  <2>1. resampler' \in Resamplers
    BY <1>1 DEF NewResampler, Resamplers
  <2>2. PendingHolds'
    BY <1>1 DEF PendingHolds
  <2> QED
    <3>1. 0 \in 0..track.frames /\ << >> \in Seq(Nat) /\ Len(<< >>) = 0
      BY <1>0 DEF Numbers
    <3>2. /\ track' \in Tracks /\ eos' \in BOOLEAN /\ tail_done' \in BOOLEAN
          /\ room' \in 0..Capacity /\ out' \in Seq(Slots) /\ remaining' \in Nat
          /\ pc' \in {"idle", "process", "finish"} /\ seeking' \in {"no", "pump", "take"}
      BY <1>1 DEF IInv, TypeOK
    <3>3. /\ handed' \in 0..track'.frames /\ pending' \in Seq(Nat) /\ Len(pending') <= handed'
      BY <1>1, <3>1
    <3> QED
      BY <1>1, <1>2, <2>1, <2>2, <3>2, <3>3 DEF TypeOK
<1>4. Phases' /\ Progress'
  <2>1. /\ resampler'.seen = 0 /\ resampler'.have_previous = FALSE
        /\ resampler'.written = 0 /\ resampler'.done = FALSE
    BY <1>1 DEF NewResampler
  <2>2. Phases'
    BY <1>1, <2>1 DEF Phases
  <2>3. Len(<< >>) = 0 /\ 0 = 0 - 0 + 0
    OBVIOUS
  <2>4. Progress'
    <3>1. resampler'.seen = handed' - Len(pending') + offset'
      BY <1>1, <2>1, <2>3
    <3>2. ~(0 > 0)
      OBVIOUS
    <3> QED
      BY <1>1, <2>1, <3>1, <3>2 DEF Progress
  <2> QED
    BY <2>2, <2>4
<1>5. InOrder'
  BY <1>1 DEF InOrder, NewRing, NewResampler
<1> QED
  BY <1>3, <1>4, <1>5 DEF IInv

LEMMA LandKeeps ==
  ASSUME IInv, Land
  PROVE  /\ IInv'
         /\ available_frames(ring') = available_frames(ring)
         /\ rendered_frames(ring') = 0
<1>0. Numbers
  BY Facts
<1> DEFINE n == available_frames(ring)  fresh == NewRing(Capacity, Silence)  kept == Content(ring)
<1>1. /\ IsRing(ring, Slots) /\ n \in Nat /\ n <= Capacity /\ ring.capacity = Capacity
      /\ Capacity \in Nat
  BY <1>0 DEF IInv, TypeOK, Numbers
<1>11. /\ ring.read_abs \in Nat /\ ring.write_abs \in Nat /\ resampler.written \in Nat
       /\ n = ring.write_abs - ring.read_abs
  BY <1>0 DEF Numbers
<1>2. /\ ring' = write_interleaved(fresh, kept)
      /\ seeking' = "no" /\ remaining' = 0
      /\ UNCHANGED <<track, handed, eos, pending, offset, resampler, tail_done, pc, room, out, seeks>>
  BY <1>1 DEF Land, rebase_playhead, decode
<1>3. Readable(ring, n) = n
  BY <1>1 DEF Readable, AtMost
<1>4. /\ kept \in Seq(Slots) /\ Len(kept) = n
      /\ \A i \in 1..n : kept[i] = ring.data[Slot(ring, ring.read_abs + i - 1)]
  <2>1. n = Readable(ring, n)
    BY <1>3
  <2>2. FramesRead(ring, n) \in Seq(Slots) /\ Len(FramesRead(ring, n)) = n
        /\ \A i \in 1..n : FramesRead(ring, n)[i] = ring.data[Slot(ring, ring.read_abs + i - 1)]
    <3> HIDE DEF n
    <3> QED
      BY <1>1, <2>1, ReadTakes
  <2> QED
    BY <2>2 DEF Content
<1>5. /\ IsRing(fresh, Slots) /\ free_frames(fresh) = Capacity
      /\ fresh.capacity = Capacity /\ fresh.reported_base = 0
      /\ fresh.read_abs = 0 /\ fresh.write_abs = 0
  BY NewRingIsRing DEF NewRing
<1> HIDE DEF n, fresh, kept
<1>6. Accepted(fresh, kept) = n
  <2>1. Len(kept) = n /\ free_frames(fresh) = Capacity
    BY <1>4, <1>5
  <2> QED
    BY <1>1, <2>1 DEF Accepted, AtMost
<1>7. /\ IsRing(ring', Slots)
      /\ ring'.capacity = Capacity /\ ring'.reported_base = 0
      /\ ring'.read_abs = 0 /\ ring'.write_abs = n
      /\ \A i \in 0..n - 1 : ring'.data[Slot(fresh, 0 + i)] = kept[i + 1]
  <2> DEFINE m == Accepted(fresh, kept)
  <2> HIDE DEF m
  <2>1. /\ IsRing(ring', Slots)
        /\ ring'.capacity = fresh.capacity /\ ring'.reported_base = fresh.reported_base
        /\ ring'.read_abs = fresh.read_abs /\ ring'.write_abs = fresh.write_abs + m
        /\ \A i \in 0..m - 1 : ring'.data[Slot(fresh, fresh.write_abs + i)] = kept[i + 1]
    <3>1. kept \in Seq(Slots) /\ m = Accepted(fresh, kept)
      BY <1>4 DEF m
    <3>2. IsRing(fresh, Slots)
      BY <1>5
    <3>3. ring' = write_interleaved(fresh, kept)
      BY <1>2
    <3>4. /\ IsRing(ring', Slots)
          /\ \A i \in 0..m - 1 : ring'.data[Slot(fresh, fresh.write_abs + i)] = kept[i + 1]
      BY <3>1, <3>2, <3>3, WriteAppends
    <3>5. /\ ring'.capacity = fresh.capacity /\ ring'.reported_base = fresh.reported_base
          /\ ring'.read_abs = fresh.read_abs /\ ring'.write_abs = fresh.write_abs + m
      BY <3>1, <3>2, <3>3 DEF write_interleaved, IsRing
    <3> QED
      BY <3>4, <3>5
  <2>2. m = n /\ 0 + n = n
    BY <1>1, <1>6 DEF m
  <2> QED
    BY <1>5, <2>1, <2>2
<1>8. InOrder'
  <2>1. ring'.write_abs <= resampler'.written
    BY <1>0, <1>2, <1>7, SMTT(30) DEF n, IInv, InOrder, Numbers
  <2>2. ASSUME NEW k \in ring'.read_abs..ring'.write_abs - 1
        PROVE  ring'.data[Slot(ring', k)]
                 = OutputFrame(track', resampler'.written - ring'.write_abs + k)
    <3>1. k \in 0..n - 1 /\ k + 1 \in 1..n /\ 0 + k = k
      BY <1>1, <1>7
    <3>2. ring'.data[Slot(ring', k)] = kept[k + 1]
      <4>1. Slot(ring', k) = Slot(fresh, 0 + k)
        BY <1>5, <1>7, <3>1 DEF Slot
      <4> QED
        BY <1>7, <3>1, <4>1
    <3>3. kept[k + 1] = ring.data[Slot(ring, ring.read_abs + k)]
      <4>1. ring.read_abs + (k + 1) - 1 = ring.read_abs + k
        BY <1>0, <3>1 DEF Numbers
      <4> QED
        BY <1>4, <3>1, <4>1
    <3>4. ring.read_abs + k \in ring.read_abs..ring.write_abs - 1
      BY <1>11, <3>1
    <3>5. resampler.written - ring.write_abs + (ring.read_abs + k)
            = resampler'.written - ring'.write_abs + k
      <4>1. ring'.write_abs = n /\ resampler'.written = resampler.written /\ k \in Int
        BY <1>2, <1>7, <3>1
      <4> QED
        BY <1>11, <4>1
    <3> QED
      BY <1>2, <3>2, <3>3, <3>4, <3>5 DEF IInv, InOrder
  <2> QED
    BY <2>1, <2>2 DEF InOrder
<1>9. TypeOK' /\ Phases' /\ Progress'
  BY <1>2, <1>7 DEF IInv, TypeOK, PendingHolds, Phases, Progress
<1>10. available_frames(ring') = n /\ rendered_frames(ring') = 0
  BY <1>1, <1>7 DEF available_frames, rendered_frames
<1> QED
  BY <1>8, <1>9, <1>10 DEF IInv, n

LEMMA PromoteKeeps ==
  ASSUME IInv, NEW delta \in Deltas, Promote(delta)
  PROVE  /\ IInv'
         /\ available_frames(ring') = available_frames(ring)
         /\ rendered_frames(ring') = rendered_frames(ring) + delta
<1>0. Numbers
  BY Facts
<1>1. ring' = [ring EXCEPT !.reported_base = @ + delta] /\ delta \in Nat
      /\ UNCHANGED <<track, handed, eos, pending, offset, resampler, tail_done, pc, room,
                     seeking, remaining, out, seeks>>
  BY DeltasAssumption DEF Promote, continue_playhead_from, decode
<1>2. IsRing(ring, Slots)
  BY DEF IInv, TypeOK
<1>3. /\ ring'.data = ring.data /\ ring'.capacity = ring.capacity
      /\ ring'.read_abs = ring.read_abs /\ ring'.write_abs = ring.write_abs
      /\ ring'.reported_base = ring.reported_base + delta
      /\ ring' = [data |-> ring.data, capacity |-> ring.capacity, read_abs |-> ring.read_abs,
                  write_abs |-> ring.write_abs, reported_base |-> ring.reported_base + delta]
  BY <1>1, <1>2 DEF IsRing
<1>4. ring.reported_base + delta \in Nat
  <2>1. ring.reported_base \in Nat /\ delta \in Nat
    BY <1>0, <1>1 DEF Numbers
  <2> QED
    BY <2>1
<1>5. IsRing(ring', Slots)
  BY <1>2, <1>3, <1>4 DEF IsRing, available_frames
<1>6. InOrder'
  BY <1>1, <1>3 DEF IInv, InOrder, Slot
<1>7. TypeOK' /\ Phases' /\ Progress'
  BY <1>1, <1>3, <1>5 DEF IInv, TypeOK, PendingHolds, Phases, Progress
<1>8. /\ available_frames(ring') = available_frames(ring)
      /\ rendered_frames(ring') = rendered_frames(ring) + delta
  BY <1>0, <1>1, <1>3 DEF available_frames, rendered_frames, Numbers
<1> QED
  BY <1>6, <1>7, <1>8 DEF IInv

LEMMA InitHolds ==
  ASSUME Init
  PROVE  IInv
<1>1. IsRing(ring, Slots) /\ ring.capacity = Capacity /\ ring.read_abs = 0 /\ ring.write_abs = 0
  BY NewRingIsRing DEF Init, Open, NewRing
<1>2. track.frames \in Nat /\ Capacity \in Nat /\ MaxSeeks \in Nat
  BY TrackType, SizesAssumption DEF Init
<1>3. /\ resampler \in Resamplers /\ resampler.seen = 0 /\ resampler.have_previous = FALSE
      /\ resampler.written = 0 /\ resampler.done = FALSE
  BY DEF Init, Open, NewResampler, Resamplers
<1>4. << >> \in Seq(Nat) /\ << >> \in Seq(Slots) /\ Len(<< >>) = 0
  OBVIOUS
<1>10. handed = 0 /\ eos = FALSE /\ tail_done = FALSE /\ pending = << >> /\ offset = 0
  BY DEF Init, Open
<1>5. PendingHolds
  BY DEF Init, Open, PendingHolds
<1>6. TypeOK
  <2>1. /\ track \in Tracks /\ handed \in 0..track.frames /\ eos \in BOOLEAN /\ tail_done \in BOOLEAN
        /\ pending \in Seq(Nat) /\ Len(pending) <= handed
    <3>1. 0 \in 0..track.frames /\ 0 <= 0
      BY <1>2
    <3>2. track \in Tracks
      BY DEF Init
    <3> QED
      BY <1>4, <1>10, <3>1, <3>2
  <2>2. /\ pc \in {"idle", "process", "finish"} /\ room \in 0..Capacity
        /\ seeking \in {"no", "pump", "take"} /\ remaining \in Nat
        /\ out \in Seq(Slots) /\ seeks \in 0..MaxSeeks
    BY <1>2, <1>4 DEF Init
  <2> QED
    BY <1>1, <1>3, <1>5, <2>1, <2>2 DEF TypeOK
<1>7. Phases
  BY <1>3 DEF Init, Open, Phases
<1>8. Progress
  <2>1. resampler.seen = handed - Len(pending) + offset
    <3>1. 0 = 0 - 0 + 0
      OBVIOUS
    <3> QED
      BY <1>3, <1>4, <1>10, <3>1
  <2>2. ~(0 > 0)
    OBVIOUS
  <2> QED
    BY <1>3, <2>1, <2>2 DEF Progress
<1>9. InOrder
  BY <1>1, <1>3 DEF InOrder
<1> QED
  BY <1>6, <1>7, <1>8, <1>9 DEF IInv

LEMMA StepKeeps ==
  ASSUME IInv, [Next]_vars
  PROVE  IInv'
<1>1. CASE Refill
  <2>1. PICK n \in 1..free_frames(ring) : Pump(n)
    BY <1>1 DEF Refill
  <2>2. n \in 0..Capacity
    BY <2>1, Facts DEF Numbers
  <2>3. pump(n) /\ seeking' \in {"no", "pump", "take"}
    BY <2>1 DEF Pump
  <2> QED
    BY <2>2, <2>3, PumpKeeps
<1>2. CASE Convert
  BY <1>2, FirstKeeps, BetweenKeeps, ConsumeKeeps, ReturnKeeps, HeldKeeps, FinishLaterKeeps,
     FinishKeeps DEF Convert
<1>3. ASSUME NEW n \in 0..Capacity, Read(n) PROVE IInv'
  <2>1. n \in Nat
    BY SizesAssumption
  <2> QED
    BY <1>3, <2>1, ReadKeeps
<1>4. ASSUME NEW target \in Targets, Seek(target) PROVE IInv'
  BY <1>4, SeekKeeps
<1>5. CASE SkipPump
  <2>1. free_frames(ring) \in 0..Capacity
    BY Facts DEF Numbers
  <2>2. pump(free_frames(ring)) /\ seeking' \in {"no", "pump", "take"}
    BY <1>5 DEF SkipPump
  <2> QED
    BY <2>1, <2>2, PumpKeeps
<1>6. CASE Skip
  BY <1>6, SkipKeeps
<1>7. CASE Land
  BY <1>7, LandKeeps
<1>8. ASSUME NEW delta \in Deltas, Promote(delta) PROVE IInv'
  BY <1>8, PromoteKeeps
<1>9. CASE UNCHANGED vars
  BY <1>9, OrderStays DEF vars, decode, IInv, TypeOK, PendingHolds, Phases, Progress
<1> QED
  BY <1>1, <1>2, <1>3, <1>4, <1>5, <1>6, <1>7, <1>8, <1>9 DEF Next

LEMMA Invariance == Spec => []IInv
<1>1. Init => IInv
  BY InitHolds
<1>2. IInv /\ [Next]_vars => IInv'
  BY StepKeeps
<1> QED
  BY <1>1, <1>2, PTL DEF Spec

(***************************************************************************)
(* Type correctness, and what comes with it: no write over-fills the ring  *)
(* and no count runs under, whatever the rates, the chunks and the         *)
(* caller's requests (DecodeSession::pump and RingBuffer).                 *)
(***************************************************************************)
THEOREM TypeCorrect == Spec => []TypeOK
<1>1. IInv => TypeOK
  BY DEF IInv
<1> QED
  BY <1>1, Invariance, PTL

-----------------------------------------------------------------------------
LEMMA LengthIsNat ==
  ASSUME NEW t \in Tracks
  PROVE  length_samples(t) \in Nat
<1> DEFINE s == t.source_rate  b == t.frames * t.output_rate  q == (b + s - 1) \div s
<1>1. s \in Nat \ {0} /\ b \in Nat
  BY TrackType
<1>2. length_samples(t) = q
  BY DEF length_samples
<1> HIDE DEF s, b
<1>3. b + s - 1 \in Nat
  BY <1>1
<1>4. b + s - 1 = q * s + ((b + s - 1) % s) /\ (b + s - 1) % s \in 0..s - 1 /\ q \in Int
  BY <1>1, <1>3, ModSplit
<1> HIDE DEF q
<1>5. 0 < (q + 1) * s
  BY <1>1, <1>3, <1>4
<1>6. 0 < q + 1
  BY <1>1, <1>4, <1>5
<1> QED
  BY <1>2, <1>4, <1>6

(***************************************************************************)
(* Where the stream is: within the track, and at its end when exhausted.   *)
(***************************************************************************)
LEMMA PositionFacts ==
  ASSUME IInv
  PROVE  /\ length_samples(track) \in Nat
         /\ Position \in 0..length_samples(track)
         /\ exhausted => Position = length_samples(track)
<1>0. Numbers
  BY Facts
<1> DEFINE w == resampler.written  n == available_frames(ring)  L == length_samples(track)
<1>1. w \in Nat /\ n \in Nat /\ n <= w /\ track \in Tracks
  <2>1. ring.write_abs <= w
    BY DEF IInv, InOrder
  <2> QED
    BY <1>0, <2>1 DEF Numbers
<1>2. L \in Nat
  BY <1>1, LengthIsNat
<1>3. w <= L
  <2>1. CASE w > 0
    <3>1. (w - 1) * track.source_rate < track.frames * track.output_rate
      BY <2>1 DEF IInv, Progress
    <3>2. w \in Nat \ {0}
      BY <1>1, <2>1
    <3> QED
      BY <1>1, <3>1, <3>2, WithinLength
  <2>2. CASE w = 0
    BY <1>2, <2>2
  <2> QED
    BY <1>1, <2>1, <2>2
<1>4. ASSUME exhausted PROVE w = L /\ n = 0
  <2>1. n = 0 /\ resampler.done /\ eos /\ pending = << >> /\ handed = track.frames
    BY <1>4 DEF exhausted, IInv, Phases
  <2>2. resampler.seen = track.frames
    <3>1. resampler.seen = handed - Len(pending) + offset /\ Len(pending) = 0
      BY <2>1 DEF IInv, Progress
    <3> QED
      BY <1>0, <2>1, <3>1 DEF Numbers
  <2>3. track.frames * track.output_rate <= w * track.source_rate
    BY <2>1, <2>2 DEF IInv, Progress
  <2>4. w > 0 => (w - 1) * track.source_rate < track.frames * track.output_rate
    BY DEF IInv, Progress
  <2> QED
    BY <1>1, <2>1, <2>3, <2>4, FullLength
<1>5. Position = w - n
  BY DEF Position
<1> HIDE DEF w, n, L
<1> QED
  BY <1>1, <1>2, <1>3, <1>4, <1>5 DEF L

-----------------------------------------------------------------------------
(***************************************************************************)
(* The refinement.  Over is what the mapping substitutes for over.  An     *)
(* action that changes nothing the stream shows leaves the view Same.      *)
(***************************************************************************)
Over == seeking = "no" /\ exhausted

Same == UNCHANGED <<track, NextFrame, out, Reported, Over>>

View == Promised!StreamNext \/ Same

AtPosition ==
  /\ Position \in 0..length_samples(track)
  /\ exhausted => Position = length_samples(track)

LEMMA Located == IInv => AtPosition /\ length_samples(track) \in Nat
  BY PositionFacts DEF AtPosition

LEMMA LocatedNext == IInv' => AtPosition'
  BY Located, PTL

LEMMA SameFrames ==
  /\ \A t : Promised!length_samples(t) = length_samples(t)
  /\ \A t, k : Promised!OutputFrame(t, k) = OutputFrame(t, k)
  BY DEF Promised!length_samples, length_samples, Promised!OutputFrame, OutputFrame,
         Promised!Blend, Blend

LEMMA ExhaustedIs ==
  ASSUME IInv
  PROVE  exhausted <=> resampler.done /\ available_frames(ring) = 0
  BY DEF IInv, Phases, exhausted

LEMMA SameView ==
  ASSUME IInv, IInv', UNCHANGED <<track, seeking, remaining, out>>,
         Position' = Position, rendered_frames(ring') = rendered_frames(ring),
         exhausted' <=> exhausted
  PROVE  Same
  BY DEF Same, NextFrame, Reported, Over

LEMMA PumpIsSame ==
  ASSUME IInv, IInv', NEW n, pump(n),
         seeking' = seeking \/ (seeking = "pump" /\ seeking' = "take")
  PROVE  Same
<1>1. UNCHANGED <<track, resampler, ring, remaining, out>>
  BY DEF pump
<1>2. exhausted' <=> exhausted
  <2>1. exhausted <=> resampler.done /\ available_frames(ring) = 0
    BY ExhaustedIs
  <2>2. exhausted' <=> resampler'.done /\ available_frames(ring') = 0
    BY DEF IInv, Phases, exhausted
  <2> QED
    BY <1>1, <2>1, <2>2 DEF available_frames
<1>3. Position' = Position /\ rendered_frames(ring') = rendered_frames(ring)
  BY <1>1 DEF Position, available_frames, rendered_frames
<1>4. CASE seeking' = seeking
  BY <1>1, <1>2, <1>3, <1>4, SameView
<1>5. CASE seeking = "pump" /\ seeking' = "take"
  BY <1>1, <1>3, <1>5 DEF Same, NextFrame, Reported, Over
<1> QED
  BY <1>4, <1>5

(***************************************************************************)
(* A frame written moves from the resampler to the ring: the stream's next *)
(* frame stays the same.                                                   *)
(***************************************************************************)
LEMMA WriteIsSame ==
  ASSUME IInv, IInv', UNCHANGED <<track, seeking, remaining, out>>,
         resampler'.written = resampler.written + 1,
         available_frames(ring') = available_frames(ring) + 1,
         rendered_frames(ring') = rendered_frames(ring),
         ~resampler.done, ~resampler'.done
  PROVE  Same
<1>1. ~exhausted /\ ~exhausted'
  BY DEF exhausted
<1>2. Position' = Position
  <2>1. Numbers
    BY Facts
  <2>2. resampler.written \in Int /\ available_frames(ring) \in Int
    BY <2>1 DEF Numbers
  <2> QED
    BY <2>2 DEF Position
<1> QED
  BY <1>1, <1>2, SameView

LEMMA ConvertIsView ==
  ASSUME IInv, IInv', Convert
  PROVE  View
<1>1. CASE First
  <2>1. ~resampler.have_previous /\ ~resampler.done
    BY <1>1 DEF First, Converting
  <2>2. resampler.written = 0
    BY <2>1 DEF IInv, Progress
  <2>3. resampler'.written = resampler.written + 1 /\ ~resampler'.done
    BY <1>1, <2>2 DEF First
  <2>4. UNCHANGED <<track, seeking, remaining, out>>
    BY <1>1 DEF First
  <2> QED
    BY <1>1, <2>1, <2>3, <2>4, FirstKeeps, WriteIsSame DEF View
<1>2. CASE Between
  <2>1. /\ ~resampler.done /\ resampler' = [resampler EXCEPT !.written = @ + 1]
        /\ UNCHANGED <<track, seeking, remaining, out>>
    BY <1>2 DEF Between, Converting
  <2>2. resampler'.written = resampler.written + 1 /\ ~resampler'.done
    BY <2>1 DEF IInv, TypeOK, Resamplers
  <2> QED
    BY <1>2, <2>1, <2>2, BetweenKeeps, WriteIsSame DEF View
<1>3. CASE Held
  <2>1. /\ ~resampler.done /\ resampler' = [resampler EXCEPT !.written = @ + 1]
        /\ UNCHANGED <<track, seeking, remaining, out>>
    BY <1>3 DEF Held
  <2>2. resampler'.written = resampler.written + 1 /\ ~resampler'.done
    BY <2>1 DEF IInv, TypeOK, Resamplers
  <2> QED
    BY <1>3, <2>1, <2>2, HeldKeeps, WriteIsSame DEF View
<1>4. CASE Consume \/ Return \/ FinishLater
  <2>1. UNCHANGED <<track, ring, seeking, remaining, out>>
    BY <1>4 DEF Consume, Return, FinishLater
  <2>2. resampler'.written = resampler.written /\ resampler'.done = resampler.done
    BY <1>4 DEF Consume, Return, FinishLater, decode, IInv, TypeOK, Resamplers
  <2>3. Position' = Position /\ rendered_frames(ring') = rendered_frames(ring)
    BY <2>1, <2>2 DEF Position, available_frames, rendered_frames
  <2>4. exhausted' <=> exhausted
    <3>1. exhausted <=> resampler.done /\ available_frames(ring) = 0
      BY ExhaustedIs
    <3>2. exhausted' <=> resampler'.done /\ available_frames(ring') = 0
      BY DEF IInv, Phases, exhausted
    <3> QED
      BY <2>1, <2>2, <3>1, <3>2 DEF available_frames
  <2> QED
    BY <2>1, <2>3, <2>4, SameView DEF View
<1>5. CASE Finish
  <2>1. UNCHANGED <<track, ring, seeking, remaining, out>>
    BY <1>5 DEF Finish
  <2>2. resampler'.written = resampler.written
    BY <1>5 DEF Finish, IInv, TypeOK, Resamplers
  <2>3. Position' = Position /\ rendered_frames(ring') = rendered_frames(ring)
    BY <2>1, <2>2 DEF Position, available_frames, rendered_frames
  <2>4. CASE exhausted' /\ seeking = "no"
    <3>1. Position' = length_samples(track')
      BY <2>4, LocatedNext DEF AtPosition
    <3>2. NextFrame = length_samples(track) /\ NextFrame' = NextFrame
      BY <2>1, <2>3, <2>4, <3>1 DEF NextFrame
    <3>3. Over' = TRUE /\ Reported' = Reported
      BY <2>1, <2>3, <2>4 DEF Over, Reported
    <3> QED
      BY <2>1, <3>2, <3>3, SameFrames DEF View, Promised!StreamNext, Promised!End, Over
  <2>5. CASE ~(exhausted' /\ seeking = "no")
    <3>1. ~resampler.done
      <4>1. pc = "finish"
        BY <1>5 DEF Finish
      <4> QED
        BY <4>1 DEF IInv, Phases
    <3>2. ~Over /\ ~Over'
      BY <2>1, <2>5, <3>1 DEF Over, exhausted
    <3> QED
      BY <2>1, <2>3, <3>2 DEF View, Same, NextFrame, Reported, Over
  <2> QED
    BY <2>4, <2>5
<1> QED
  BY <1>1, <1>2, <1>3, <1>4, <1>5 DEF Convert

LEMMA ReadIsView ==
  ASSUME IInv, IInv', NEW m \in Nat, Read(m)
  PROVE  View
<1> DEFINE n == Readable(ring, m)  L == length_samples(track)
<1>1. /\ ring' = AfterRead(ring, m) /\ out' = FramesRead(ring, m) /\ seeking = "no"
      /\ UNCHANGED <<track, handed, eos, pending, resampler, seeking, remaining>>
  BY DEF Read, decode
<1>2. /\ n \in 0..available_frames(ring)
      /\ available_frames(ring') = available_frames(ring) - n
      /\ rendered_frames(ring') = rendered_frames(ring) + n
      /\ out' = [i \in 1..n |-> OutputFrame(track, Position + i - 1)]
  BY <1>1, TakeKeeps
<1>3. /\ resampler.written \in Nat /\ available_frames(ring) \in Nat
  BY Facts DEF Numbers
<1>4. Position \in 0..L /\ Position' \in 0..L /\ L \in Nat /\ (exhausted' => Position' = L)
  BY <1>1, Located, LocatedNext DEF AtPosition
<1>5. Position' = Position + n
  <2> HIDE DEF n
  <2> QED
    BY <1>1, <1>2, <1>3 DEF Position
<1>6. Position = NextFrame /\ Position' = NextFrame' /\ Reported = rendered_frames(ring)
      /\ Reported' = rendered_frames(ring')
  BY <1>1 DEF NextFrame, Reported
<1>7. n \in 0..L - Position
  <2>1. n \in Nat
    BY <1>2, <1>3
  <2> HIDE DEF n, L
  <2>2. Position \in Nat /\ Position + n <= L
    BY <1>4, <1>5
  <2> QED
    BY <1>4, <2>1, <2>2
<1>8. Over => Over'
  <2>1. CASE exhausted
    <3>1. available_frames(ring) = 0
      BY <2>1 DEF exhausted
    <3>2. available_frames(ring') = 0
      <4>1. n = 0
        BY <1>2, <3>1
      <4> HIDE DEF n
      <4> QED
        BY <1>2, <3>1, <4>1
    <3> QED
      BY <1>1, <2>1, <3>2 DEF Over, exhausted
  <2> QED
    BY <2>1 DEF Over
<1>9. Over' \in BOOLEAN /\ (Over' => Position' = L)
  BY <1>4 DEF Over
<1> HIDE DEF n, L
<1>10. Promised!Deliver
  <2>1. /\ out' = [i \in 1..n |-> Promised!OutputFrame(track, NextFrame + i - 1)]
        /\ NextFrame' = NextFrame + n /\ Reported' = Reported + n
    BY <1>2, <1>5, <1>6, SameFrames
  <2>2. n \in 0..Promised!length_samples(track) - NextFrame
    BY <1>6, <1>7, SameFrames DEF L
  <2>3. Over' => NextFrame' = Promised!length_samples(track')
    BY <1>1, <1>6, <1>9, SameFrames DEF L
  <2>4. \E k \in 0..Promised!length_samples(track) - NextFrame :
          /\ out' = [i \in 1..k |-> Promised!OutputFrame(track, NextFrame + i - 1)]
          /\ NextFrame' = NextFrame + k /\ Reported' = Reported + k
    BY <2>1, <2>2
  <2> QED
    BY <1>1, <1>8, <1>9, <2>3, <2>4 DEF Promised!Deliver, Over
<1> QED
  BY <1>10 DEF View, Promised!StreamNext

LEMMA SeekIsView ==
  ASSUME IInv, NEW target \in Targets, Seek(target)
  PROVE  View
<1>1. /\ resampler'.written = 0 /\ available_frames(ring') = 0 /\ remaining' = target
      /\ seeking' = "pump" /\ UNCHANGED <<track, out>>
  BY SizesAssumption DEF Seek, NewResampler, NewRing, available_frames
<1>2. target \in Nat
  BY TargetsAssumption
<1>3. Position' = 0 /\ 0 + target = target
  BY <1>1, <1>2 DEF Position
<1>4. NextFrame' = IF target < length_samples(track) THEN target ELSE length_samples(track)
  BY <1>1, <1>3 DEF NextFrame, AtMost
<1>5. Reported' = 0 /\ Over' = FALSE
  BY <1>1 DEF Reported, Over
<1> QED
  BY <1>1, <1>4, <1>5, SameFrames DEF View, Promised!StreamNext, Promised!Reposition, Over

LEMMA SkipIsSame ==
  ASSUME IInv, Skip
  PROVE  Same
<1> DEFINE take == AtMost(remaining, Scratch)  n == Readable(ring, take)
<1>1. /\ ring' = AfterRead(ring, take) /\ remaining' = remaining - n
      /\ seeking = "take" /\ seeking' = "pump" /\ UNCHANGED <<track, out, resampler>>
  BY DEF Skip, decode
<1>2. take \in Nat
  BY SkipTakes
<1>3. /\ n \in 0..available_frames(ring)
      /\ available_frames(ring') = available_frames(ring) - n
  <2> HIDE DEF take
  <2> QED
    BY <1>1, <1>2, TakeKeeps
<1>4. /\ resampler.written \in Nat /\ available_frames(ring) \in Nat
  BY Facts DEF Numbers
<1>5. remaining \in Nat
  BY DEF IInv, TypeOK
<1> HIDE DEF n
<1>6. Position' + remaining' = Position + remaining
  BY <1>1, <1>3, <1>4, <1>5 DEF Position
<1> QED
  BY <1>1, <1>6 DEF Same, NextFrame, Reported, Over

LEMMA LandIsView ==
  ASSUME IInv, IInv', Land
  PROVE  View
<1>1. /\ UNCHANGED <<track, resampler, out>> /\ seeking # "no" /\ seeking' = "no"
  BY DEF Land, decode
<1>2. available_frames(ring') = available_frames(ring) /\ rendered_frames(ring') = 0
  BY LandKeeps
<1>3. Position' = Position
  BY <1>1, <1>2 DEF Position
<1>4. /\ Position \in 0..length_samples(track) /\ length_samples(track) \in Nat
      /\ (exhausted => Position = length_samples(track))
      /\ (exhausted' => Position' = length_samples(track'))
  BY Located, LocatedNext DEF AtPosition
<1>5. remaining \in Nat /\ (remaining = 0 \/ exhausted)
  BY DEF Land, IInv, TypeOK
<1>6. NextFrame' = NextFrame
  <2>1. AtMost(Position + remaining, length_samples(track)) = Position
    BY <1>4, <1>5 DEF AtMost
  <2> QED
    BY <1>1, <1>3, <2>1 DEF NextFrame
<1>7. Reported = 0 /\ Reported' = 0 /\ ~Over
  BY <1>1, <1>2 DEF Reported, Over
<1>8. CASE Over'
  <2>1. NextFrame = length_samples(track)
    BY <1>1, <1>3, <1>4, <1>6, <1>8 DEF Over, NextFrame
  <2> QED
    BY <1>1, <1>6, <1>7, <1>8, <2>1, SameFrames
    DEF View, Promised!StreamNext, Promised!End, Over
<1>9. CASE ~Over'
  BY <1>1, <1>6, <1>7, <1>9 DEF View, Same, Over
<1> QED
  BY <1>8, <1>9

LEMMA PromoteIsView ==
  ASSUME IInv, NEW delta \in Deltas, Promote(delta)
  PROVE  View
<1>1. /\ seeking = "no"
      /\ UNCHANGED <<track, handed, eos, pending, resampler, seeking, remaining, out>>
  BY DEF Promote, decode
<1>2. /\ available_frames(ring') = available_frames(ring)
      /\ rendered_frames(ring') = rendered_frames(ring) + delta
  BY PromoteKeeps
<1>3. NextFrame' = NextFrame /\ Reported' = Reported + delta /\ (Over' <=> Over)
  BY <1>1, <1>2 DEF NextFrame, Position, Reported, Over, exhausted
<1> QED
  BY <1>1, <1>3 DEF View, Promised!StreamNext, Promised!Continue, Over

LEMMA StepIsView ==
  ASSUME IInv, IInv', [Next]_vars
  PROVE  View
<1>1. CASE Refill
  <2>1. PICK n \in 1..free_frames(ring) : Pump(n)
    BY <1>1 DEF Refill
  <2>2. pump(n) /\ seeking' = seeking
    BY <2>1 DEF Pump
  <2> QED
    BY <2>2, PumpIsSame DEF View
<1>2. CASE Convert
  BY <1>2, ConvertIsView
<1>3. ASSUME NEW n \in 0..Capacity, Read(n) PROVE View
  <2>1. n \in Nat
    BY SizesAssumption
  <2> QED
    BY <1>3, <2>1, ReadIsView
<1>4. ASSUME NEW target \in Targets, Seek(target) PROVE View
  BY <1>4, SeekIsView
<1>5. CASE SkipPump
  <2>1. pump(free_frames(ring)) /\ seeking = "pump" /\ seeking' = "take"
    BY <1>5 DEF SkipPump
  <2> QED
    BY <2>1, PumpIsSame DEF View
<1>6. CASE Skip
  BY <1>6, SkipIsSame DEF View
<1>7. CASE Land
  BY <1>7, LandIsView
<1>8. ASSUME NEW delta \in Deltas, Promote(delta) PROVE View
  BY <1>8, PromoteIsView
<1>9. CASE UNCHANGED vars
  <2>1. UNCHANGED <<track, ring, resampler, eos, pending, seeking, remaining, out>>
    BY <1>9 DEF vars, decode
  <2> QED
    BY <2>1 DEF View, Same, NextFrame, Position, Reported, Over, exhausted
<1> QED
  BY <1>1, <1>2, <1>3, <1>4, <1>5, <1>6, <1>7, <1>8, <1>9 DEF Next

LEMMA InitIsPromised ==
  ASSUME Init
  PROVE  Promised!StreamInit
<1>1. track \in Tracks /\ seeking = "no" /\ out = << >> /\ resampler.written = 0
      /\ resampler.done = FALSE
  BY DEF Init, Open, NewResampler
<1>2. available_frames(ring) = 0 /\ rendered_frames(ring) = 0
  BY DEF Init, Open, NewRing, available_frames, rendered_frames
<1>3. NextFrame = 0 /\ Reported = 0 /\ Over = FALSE
  BY <1>1, <1>2 DEF NextFrame, Position, Reported, Over, exhausted
<1> QED
  BY <1>1, <1>3 DEF Promised!StreamInit, Over

(***************************************************************************)
(* A decode session (DecodeSession with its StreamResampler and RingBuffer)*)
(* delivers the frames of its track once each and in order, as many as its *)
(* StreamInfo announces, and is exhausted only after the last; a seek      *)
(* changes where it goes on, and nothing else.                             *)
(***************************************************************************)
THEOREM SessionIsStream == Spec => IsStream
<1>1. Init => Promised!StreamInit
  BY InitIsPromised
<1>2. IInv /\ IInv' /\ [Next]_vars => [Promised!StreamNext]_(Promised!streamVars)
  BY StepIsView DEF View, Same, Over, Promised!streamVars
<1> QED
  BY <1>1, <1>2, Invariance, PTL DEF Spec, IsStream, Promised!StreamSpec
=============================================================================
