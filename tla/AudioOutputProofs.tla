-------------------------- MODULE AudioOutputProofs --------------------------
(***************************************************************************)
(* Proofs about AudioOutput, for every pool, target and chunk: the backlog *)
(* is exact and a buffer on the voice is left alone, whatever the feeder,  *)
(* the engine and the application do in between, no submit meets a closed  *)
(* output, and a pulling feeder whose target the pool can hold never meets *)
(* a full pool.                                                            *)
(***************************************************************************)
EXTENDS AudioOutput, FiniteSetTheorems, WellFoundedInduction, TLAPS

Buffers == [slot : Slots, frames : 1..Chunk]

\* What TypeOK says of the state the proofs use.
Types ==
  /\ core \in {"none", "push", "pull", "stopping"}
  /\ after \in {"none", "push", "pull"}
  /\ opening \in BOOLEAN /\ open \in BOOLEAN
  /\ in_use \in [Slots -> BOOLEAN]
  /\ bufs \in [Slots -> 0..Chunk]
  /\ queued_frames \in Nat
  /\ voice \in Seq(Buffers)
  /\ pc \in {"poll", "pick", "fill", "add", "submit", "refund", "lost"}
  /\ want \in Nat /\ n \in 0..Chunk /\ slot \in Slots
  /\ done \in 0..Chunk

\* When the application opens and closes the output under a feeder: none runs
\* without a core, a driven core waits, and without a core only a reset keeps
\* an output.
Lifecycle ==
  /\ core = "none" => pc = "poll" /\ want = 0
  /\ core = "none" /\ after = "none" => ~open
  /\ core \in {"push", "pull"} => after = "none"
  /\ core \in {"none", "stopping"} => ~opening
  /\ opening /\ core = "push" => pc = "poll" /\ want = 0
  /\ core = "stopping" /\ after = "push" => pc = "poll" /\ want = 0

\* Without an output nothing is queued.
Fresh ==
  ~open => /\ voice = <<>> /\ done = 0 /\ queued_frames = 0
           /\ \A s \in Slots : ~in_use[s]

\* A submit under way has frames, and its slot holds them once it is filled.
SubmitHolds ==
  /\ pc # "poll" => n > 0
  /\ pc \in {"add", "submit"} => bufs[slot] = n

\* BacklogExact with totals that never fall.
Totals(t) ==
  /\ RunningTotal(t)
  /\ \A i, j \in 0..Len(voice) : i <= j => t[i] <= t[j]
  /\ queued_frames = t[Len(voice)] + done + InHand

Backlog == \E t \in [0..Len(voice) -> Nat] : Totals(t)

\* The inductive invariant.
IInv ==
  /\ Types /\ Lifecycle /\ NoSubmitAfterClose /\ Fresh /\ SubmitHolds
  /\ VoiceBuffersIntact /\ Backlog

-----------------------------------------------------------------------------
\* Facts about the operators.

\* The least element of a set of numbers, as FiniteSetsExt's Min picks it.
LEMMA LeastElement ==
  ASSUME NEW S, S \subseteq Nat, S # {}
  PROVE  Min(S) \in S /\ \A y \in S : Min(S) <= y
<1> DEFINE R == OpToRel(<, Nat)
<1>1. \A y, x \in Nat : y < x => <<y, x>> \in R
  BY DEF OpToRel
<1>2. IsWellFoundedOn(R, Nat)
  BY NatLessThanWellFounded
<1> HIDE DEF R
<1>3. PICK x \in S : \A y \in S : ~(<<y, x>> \in R)
  BY <1>2, WFMin
<1>4. \A y \in S : x <= y
  <2>1. \A y \in S : y \in Nat /\ x \in Nat
    OBVIOUS
  <2>2. \A y \in S : ~(y < x)
    BY <1>1, <1>3, <2>1, Zenon
  <2> QED BY <2>1, <2>2
<1> QED BY <1>4 DEF Min

\* audio_pick_free_slot returns a slot that is free, or -1.
LEMMA PickedIsFree ==
  \/ audio_pick_free_slot = -1 /\ FreeSlots = {}
  \/ audio_pick_free_slot \in Slots /\ ~in_use[audio_pick_free_slot]
<1>1. FreeSlots \subseteq Nat
  BY PoolAssumption DEF FreeSlots, Slots
<1>2. FreeSlots # {} => Min(FreeSlots) \in FreeSlots
  BY <1>1, LeastElement
<1> QED BY <1>2 DEF audio_pick_free_slot, FreeSlots

\* A chunk is what is wanted or the most there is in one submit.
LEMMA ChunkTaken ==
  ASSUME NEW w \in Nat
  PROVE  Min({w, Chunk}) = IF w <= Chunk THEN w ELSE Chunk
BY ChunkAssumption, LeastElement

\* The buffers on the voice and their places.
LEMMA VoiceTyped ==
  ASSUME Types
  PROVE  /\ Len(voice) \in Nat /\ DOMAIN voice = 1..Len(voice)
         /\ \A i \in DOMAIN voice :
              voice[i].slot \in Slots /\ voice[i].frames \in 1..Chunk
<1>1. voice \in Seq(Buffers)
  BY DEF Types
<1>2. Len(voice) \in Nat /\ DOMAIN voice = 1..Len(voice)
  BY <1>1
<1>3. \A i \in DOMAIN voice : voice[i] \in Buffers
  BY <1>1
<1> QED BY <1>2, <1>3 DEF Buffers

\* A backlog of a voice with nothing on it is what is in hand.
LEMMA EmptyBacklog ==
  ASSUME voice = <<>>, queued_frames = done + InHand,
         done \in Nat, InHand \in Nat
  PROVE  Backlog
<1> DEFINE t == [i \in 0..0 |-> 0]
<1>1. Len(voice) = 0 /\ DOMAIN voice = {}
  OBVIOUS
<1>2. t \in [0..Len(voice) -> Nat] /\ Totals(t)
  BY <1>1 DEF Totals, RunningTotal
<1> QED BY <1>2 DEF Backlog

-----------------------------------------------------------------------------
\* There is no output yet.
LEMMA InitIInv == Init => IInv
<1> SUFFICES ASSUME Init PROVE IInv
  OBVIOUS
<1> USE DEF Init
<1>1. Types
  <2>1. 0 \in Slots
    BY PoolAssumption DEF Slots
  <2>2. voice \in Seq(Buffers)
    OBVIOUS
  <2> QED BY <2>1, <2>2, ChunkAssumption DEF Types
<1>2. Lifecycle /\ NoSubmitAfterClose /\ Fresh /\ SubmitHolds
        /\ VoiceBuffersIntact
  BY DEF Lifecycle, NoSubmitAfterClose, Fresh, SubmitHolds, VoiceBuffersIntact
<1>3. Backlog
  BY EmptyBacklog DEF InHand
<1> QED BY <1>1, <1>2, <1>3 DEF IInv

\* A step that neither counts, queues nor ends frames keeps the backlog.
LEMMA BacklogKept ==
  ASSUME Backlog, UNCHANGED <<voice, queued_frames, done>>, InHand' = InHand
  PROVE  Backlog'
BY DEF Backlog, Totals, RunningTotal

\* The count covers the frames of a callback and of a submit.
LEMMA CountCovers ==
  ASSUME Types, Backlog PROVE queued_frames >= done + InHand
<1>1. PICK t \in [0..Len(voice) -> Nat] : Totals(t)
  BY DEF Backlog
<1>2. t[Len(voice)] \in Nat
  BY <1>1, VoiceTyped
<1>3. InHand \in Nat
  BY DEF InHand, Types
<1> QED BY <1>1, <1>2, <1>3 DEF Totals, Types

\* Between two presents or callbacks the application opens a fresh output or
\* closes the old one.
LEMMA FreshStep ==
  ASSUME IInv, FreshOutput, pc' = IF pc = "poll" THEN "poll" ELSE "lost",
         UNCHANGED <<want, n, slot>>
  PROVE  /\ VoiceBuffersIntact' /\ Backlog' /\ Fresh' /\ SubmitHolds'
         /\ in_use' \in [Slots -> BOOLEAN] /\ bufs' \in [Slots -> 0..Chunk]
         /\ queued_frames' \in Nat /\ voice' \in Seq(Buffers)
         /\ done' \in 0..Chunk
<1>1. VoiceBuffersIntact' /\ Fresh' /\ SubmitHolds'
  BY DEF FreshOutput, VoiceBuffersIntact, Fresh, SubmitHolds, IInv
<1>2. (voice = <<>> /\ queued_frames = done + InHand /\ done \in Nat
         /\ InHand \in Nat)'
  BY DEF FreshOutput, InHand
<1>3. Backlog'
  BY <1>2, EmptyBacklog, PTL
<1> QED
  BY <1>1, <1>3, ChunkAssumption DEF FreshOutput

\* The steps that count frames: the backlog grows before the buffer is live,
\* and shrinks by what was refunded or played.
LEMMA CountStep ==
  ASSUME IInv, AddQueued \/ Refund \/ ShrinkQueued
  PROVE  queued_frames' \in Nat /\ Backlog'
<1> USE DEF IInv
<1>1. PICK t \in [0..Len(voice) -> Nat] : Totals(t)
  BY DEF Backlog
<1>2. /\ t[Len(voice)] \in Nat
      /\ queued_frames \in Nat /\ done \in Nat /\ n \in Nat
  BY <1>1, VoiceTyped, ChunkAssumption, SMTT(30) DEF Types
<1>3. queued_frames = t[Len(voice)] + done + InHand
  BY <1>1 DEF Totals
<1>4. /\ queued_frames' \in Nat
      /\ queued_frames' = t[Len(voice)] + done' + InHand'
  <2>1. CASE AddQueued
    BY <2>1, <1>2, <1>3 DEF AddQueued, NextStep, InHand
  <2>2. CASE Refund
    BY <2>2, <1>2, <1>3 DEF Refund, Shrunk, InHand
  <2>3. CASE ShrinkQueued
    BY <2>3, <1>2, <1>3 DEF ShrinkQueued, Shrunk, InHand, feeder_vars
  <2> QED BY <2>1, <2>2, <2>3
<1>5. voice' = voice
  BY DEF AddQueued, Refund, ShrinkQueued
<1>6. t \in [0..Len(voice') -> Nat] /\ Totals(t)'
  BY <1>1, <1>4, <1>5 DEF Totals, RunningTotal
<1> QED BY <1>4, <1>6 DEF Backlog

\* A buffer that goes onto the voice takes its frames out of the feeder's hand.
LEMMA SubmitStep ==
  ASSUME IInv, SubmitSourceBuffer
  PROVE  voice' \in Seq(Buffers) /\ VoiceBuffersIntact' /\ Backlog'
<1> USE DEF IInv
<1> DEFINE b == [slot |-> slot, frames |-> n]
           L == Len(voice)
<1>1. b \in Buffers /\ n \in Nat /\ n > 0
  BY ChunkAssumption DEF Types, Buffers, SubmitHolds, SubmitSourceBuffer
<1>2. /\ L \in Nat /\ DOMAIN voice = 1..L
      /\ voice' \in Seq(Buffers) /\ Len(voice') = L + 1
      /\ DOMAIN voice' = 1..(L + 1)
      /\ \A i \in 1..L : voice'[i] = voice[i]
      /\ voice'[L + 1] = b
  <2>1. voice' = Append(voice, b)
    BY DEF SubmitSourceBuffer
  <2>2. voice \in Seq(Buffers)
    BY DEF Types
  <2> QED BY <2>1, <2>2, <1>1
<1>3. VoiceBuffersIntact'
  <2>1. /\ in_use[b.slot] /\ bufs[b.slot] = b.frames
        /\ \A i \in 1..L : voice[i].slot # b.slot
    BY <1>2 DEF VoiceBuffersIntact, SubmitHolds, SubmitSourceBuffer
  <2>2. UNCHANGED <<in_use, bufs>> /\ pc' = "poll"
    BY DEF SubmitSourceBuffer, pool_vars, NextStep
  <2>3. \A i \in 1..(L + 1) : i \in 1..L \/ i = L + 1
    BY <1>2
  <2>4. \A i \in DOMAIN voice' :
          in_use'[voice'[i].slot] /\ bufs'[voice'[i].slot] = voice'[i].frames
    BY <1>2, <2>1, <2>2, <2>3 DEF VoiceBuffersIntact
  <2>5. \A i, j \in DOMAIN voice' :
          voice'[i].slot = voice'[j].slot => i = j
    BY <1>2, <2>1, <2>3 DEF VoiceBuffersIntact
  <2> QED BY <2>2, <2>4, <2>5 DEF VoiceBuffersIntact
<1>4. PICK t \in [0..L -> Nat] : Totals(t)
  BY DEF Backlog
<1>5. PICK u \in [0..(L + 1) -> Nat] :
        u = [i \in 0..(L + 1) |-> IF i = L + 1 THEN t[L] + n ELSE t[i]]
  BY <1>1, <1>2, <1>4
<1>u. u[L + 1] = t[L] + n /\ \A i \in 0..L : u[i] = t[i]
  BY <1>2, <1>5
<1>6. queued_frames' = u[L + 1] + done' + InHand'
  <2>1. queued_frames = t[L] + done + n
    BY <1>4 DEF Totals, InHand, SubmitSourceBuffer
  <2>2. InHand' = 0 /\ UNCHANGED <<queued_frames, done>>
    BY DEF InHand, SubmitSourceBuffer, NextStep
  <2>3. t[L] \in Nat /\ done \in Nat
    BY <1>2, <1>4, ChunkAssumption DEF Types
  <2> QED BY <1>1, <1>u, <2>1, <2>2, <2>3
<1>7. u[0] = 0 /\ \A i \in 1..(L + 1) : u[i] = u[i - 1] + voice'[i].frames
  <2>1. u[0] = 0
    BY <1>2, <1>4, <1>u DEF Totals, RunningTotal
  <2>2. ASSUME NEW i \in 1..L PROVE u[i] = u[i - 1] + voice'[i].frames
    <3>1. i \in 0..L /\ i - 1 \in 0..L
      BY <1>2
    <3>2. t[i] = t[i - 1] + voice[i].frames
      BY <1>2, <1>4 DEF Totals, RunningTotal
    <3> QED BY <1>2, <1>u, <3>1, <3>2
  <2>3. u[L + 1] = u[(L + 1) - 1] + voice'[L + 1].frames
    <3>1. L \in 0..L /\ (L + 1) - 1 = L
      BY <1>2
    <3> QED BY <1>2, <1>u, <3>1
  <2>4. \A i \in 1..(L + 1) : i \in 1..L \/ i = L + 1
    BY <1>2
  <2> QED BY <2>1, <2>2, <2>3, <2>4
<1>8. \A i, j \in 0..(L + 1) : i <= j => u[i] <= u[j]
  BY <1>1, <1>2, <1>4, <1>u, SMTT(30) DEF Totals
<1>9. u \in [0..Len(voice') -> Nat] /\ Totals(u)'
  BY <1>2, <1>5, <1>6, <1>7, <1>8 DEF Totals, RunningTotal
<1> QED BY <1>2, <1>3, <1>9 DEF Backlog

\* A buffer that has been played leaves the voice, its frames to the callback.
LEMMA EndStep ==
  ASSUME IInv, BufferEnd
  PROVE  /\ voice' \in Seq(Buffers) /\ VoiceBuffersIntact' /\ Backlog'
         /\ in_use[Head(voice).slot] /\ done' \in 1..Chunk
<1> USE DEF IInv
<1> DEFINE L == Len(voice)
           h == voice[1]
<1>1. /\ L \in Nat /\ L > 0 /\ DOMAIN voice = 1..L /\ Head(voice) = h
      /\ voice' \in Seq(Buffers) /\ Len(voice') = L - 1
      /\ DOMAIN voice' = 1..(L - 1)
      /\ \A i \in 1..(L - 1) : voice'[i] = voice[i + 1]
  <2>1. voice \in Seq(Buffers) /\ voice # <<>> /\ voice' = Tail(voice)
    BY DEF Types, BufferEnd
  <2> QED BY <2>1
<1>2. /\ in_use[h.slot] /\ bufs[h.slot] = h.frames /\ done' = h.frames
      /\ h.slot \in Slots /\ h.frames \in 1..Chunk
      /\ in_use' = [in_use EXCEPT ![h.slot] = FALSE] /\ bufs' = bufs
  <2>1. 1 \in DOMAIN voice
    BY <1>1
  <2>2. in_use[h.slot] /\ bufs[h.slot] = h.frames
    BY <2>1 DEF VoiceBuffersIntact
  <2>3. h.slot \in Slots /\ h.frames \in 1..Chunk
    BY <2>1, VoiceTyped
  <2> QED BY <1>1, <2>2, <2>3 DEF BufferEnd
<1>3. VoiceBuffersIntact'
  <2>1. \A i \in 1..(L - 1) : i + 1 \in 1..L /\ i + 1 # 1
    BY <1>1
  <2>2. \A i \in 1..(L - 1) : voice[i + 1].slot # h.slot
    BY <1>1, <2>1 DEF VoiceBuffersIntact
  <2>3. \A s \in Slots : s # h.slot => in_use'[s] = in_use[s]
    BY <1>2 DEF Types
  <2>4. ASSUME NEW i \in DOMAIN voice'
        PROVE  /\ in_use'[voice'[i].slot]
               /\ bufs'[voice'[i].slot] = voice'[i].frames
    <3>1. voice'[i] = voice[i + 1] /\ i + 1 \in DOMAIN voice
      BY <1>1, <2>1
    <3>2. /\ in_use[voice[i + 1].slot]
          /\ bufs[voice[i + 1].slot] = voice[i + 1].frames
      BY <3>1 DEF VoiceBuffersIntact
    <3>3. voice[i + 1].slot \in Slots /\ voice[i + 1].slot # h.slot
      BY <1>1, <2>2, <3>1, VoiceTyped
    <3> QED BY <1>2, <2>3, <3>1, <3>2, <3>3
  <2>5. \A i, j \in DOMAIN voice' :
          voice'[i].slot = voice'[j].slot => i = j
    BY <1>1, <2>1 DEF VoiceBuffersIntact
  <2>6. UNCHANGED <<pc, slot>>
    BY DEF BufferEnd, feeder_vars
  <2>7. pc \in {"fill", "add", "submit"} =>
          in_use'[slot] /\ \A i \in DOMAIN voice' : voice'[i].slot # slot
    <3> SUFFICES ASSUME pc \in {"fill", "add", "submit"}
                 PROVE  /\ in_use'[slot]
                        /\ \A i \in DOMAIN voice' : voice'[i].slot # slot
      OBVIOUS
    <3>1. in_use[slot] /\ \A i \in 1..L : voice[i].slot # slot
      BY <1>1 DEF VoiceBuffersIntact
    <3>2. slot \in Slots /\ slot # h.slot
      BY <1>1, <3>1 DEF Types
    <3> QED BY <1>1, <2>1, <2>3, <3>1, <3>2
  <2> QED BY <2>4, <2>5, <2>6, <2>7 DEF VoiceBuffersIntact
<1>4. PICK t \in [0..L -> Nat] : Totals(t)
  BY DEF Backlog
<1>5. \A i \in 0..(L - 1) : i + 1 \in 0..L /\ t[i + 1] \in Nat
                            /\ t[1] \in Nat /\ t[1] <= t[i + 1]
  BY <1>1, <1>4, SMTT(30) DEF Totals
<1>6. PICK u \in [0..(L - 1) -> Nat] :
        u = [i \in 0..(L - 1) |-> t[i + 1] - t[1]]
  <2>1. \A i \in 0..(L - 1) : t[i + 1] - t[1] \in Nat
    BY <1>5
  <2> QED BY <2>1
<1>u. \A i \in 0..(L - 1) : u[i] = t[i + 1] - t[1]
  BY <1>6
<1>7. queued_frames' = u[L - 1] + done' + InHand'
  <2>1. queued_frames = t[L] + done + InHand /\ done = 0
    BY <1>4 DEF Totals, BufferEnd
  <2>2. u[L - 1] = t[L] - t[1]
    BY <1>1, <1>u
  <2>3. t[1] = h.frames
    <3>1. 1 \in 1..L
      BY <1>1
    <3>2. t[1] = t[1 - 1] + h.frames /\ t[0] = 0
      BY <1>1, <1>4, <3>1 DEF Totals, RunningTotal
    <3> QED BY <1>2, <3>2
  <2>4. InHand' = InHand /\ queued_frames' = queued_frames
    BY DEF InHand, BufferEnd, feeder_vars, count_vars
  <2>5. t[L] \in Nat /\ InHand \in Nat
    BY <1>1, <1>4, ChunkAssumption DEF Types, InHand
  <2> QED BY <1>1, <1>2, <2>1, <2>2, <2>3, <2>4, <2>5
<1>8. u[0] = 0 /\ \A i \in 1..(L - 1) : u[i] = u[i - 1] + voice'[i].frames
  <2>1. u[0] = 0
    BY <1>1, <1>5, <1>u
  <2>2. ASSUME NEW i \in 1..(L - 1)
        PROVE  u[i] = u[i - 1] + voice'[i].frames
    <3>1. /\ i \in 0..(L - 1) /\ i - 1 \in 0..(L - 1) /\ (i - 1) + 1 = i
          /\ i + 1 \in 1..L /\ (i + 1) - 1 = i
      BY <1>1
    <3>2. t[i + 1] = t[i] + voice[i + 1].frames
      BY <1>1, <1>4, <3>1 DEF Totals, RunningTotal
    <3>3. u[i] = t[i + 1] - t[1] /\ u[i - 1] = t[i] - t[1]
      BY <1>u, <3>1
    <3>4. t[i] \in Nat /\ t[1] \in Nat
      BY <1>1, <1>5, <3>1
    <3>5. voice[i + 1].frames \in Nat
      BY <1>1, <3>1, VoiceTyped
    <3> QED BY <1>1, <3>2, <3>3, <3>4, <3>5
  <2> QED BY <2>1, <2>2
<1>9. ASSUME NEW i \in 0..(L - 1), NEW j \in 0..(L - 1), i <= j
      PROVE  u[i] <= u[j]
  <2>1. i + 1 <= j + 1 /\ i + 1 \in 0..L /\ j + 1 \in 0..L
    BY <1>1, <1>9
  <2>2. t[i + 1] <= t[j + 1]
    BY <1>4, <2>1 DEF Totals
  <2> QED BY <1>5, <1>u, <2>2
<1>10. u \in [0..Len(voice') -> Nat] /\ Totals(u)'
  BY <1>1, <1>6, <1>7, <1>8, <1>9 DEF Totals, RunningTotal
<1> QED BY <1>1, <1>2, <1>3, <1>10 DEF Backlog

\* One step per action of the three threads.
LEMMA NextIInv == IInv /\ [Next]_vars => IInv'
<1> SUFFICES ASSUME IInv, [Next]_vars PROVE IInv'
  OBVIOUS
<1> USE DEF IInv
<1>1. ASSUME NEW kind \in {"push", "pull"}, StartCore(kind) PROVE IInv'
  <2>1. Types' /\ Lifecycle' /\ NoSubmitAfterClose' /\ Fresh' /\ SubmitHolds'
          /\ VoiceBuffersIntact'
    BY <1>1
    DEF StartCore, pool_vars, count_vars, feeder_vars, Types, Lifecycle,
        NoSubmitAfterClose, Fresh, SubmitHolds, VoiceBuffersIntact
  <2>2. InHand' = InHand /\ UNCHANGED <<voice, queued_frames, done>>
    BY <1>1 DEF StartCore, count_vars, feeder_vars, InHand
  <2> QED BY <2>1, <2>2, BacklogKept
<1>2. ASSUME NEW opened \in BOOLEAN, open_audio(opened) PROVE IInv'
  <2>1. CASE ~opened
    <3>1. /\ UNCHANGED <<core, after, open, in_use, bufs, queued_frames, voice, pc,
                         want, n, slot, done>>
          /\ opening' = FALSE
      BY <1>2, <2>1 DEF open_audio, pool_vars, count_vars
    <3>2. Types' /\ Lifecycle' /\ NoSubmitAfterClose' /\ Fresh'
            /\ SubmitHolds' /\ VoiceBuffersIntact'
      BY <3>1
      DEF Types, Lifecycle, NoSubmitAfterClose, Fresh, SubmitHolds,
          VoiceBuffersIntact
    <3>3. InHand' = InHand
      BY <3>1 DEF InHand
    <3> QED BY <3>1, <3>2, <3>3, BacklogKept
  <2>2. CASE opened
    <3>1. /\ FreshOutput /\ open' = TRUE /\ opening' = FALSE
          /\ pc' = IF pc = "poll" THEN "poll" ELSE "lost"
          /\ UNCHANGED <<core, after, want, n, slot>> /\ opening
      BY <1>2, <2>2 DEF open_audio
    <3>2. Types'
      BY <3>1, FreshStep DEF Types
    <3>3. Lifecycle' /\ NoSubmitAfterClose'
      BY <3>1 DEF Lifecycle, NoSubmitAfterClose, Types
    <3> QED BY <3>1, <3>2, <3>3, FreshStep
  <2> QED BY <2>1, <2>2
<1>3. CASE reload_content
  <2>1. Types' /\ Lifecycle' /\ NoSubmitAfterClose' /\ Fresh' /\ SubmitHolds'
          /\ VoiceBuffersIntact'
    BY <1>3
    DEF reload_content, ThreadFree, pool_vars, count_vars, feeder_vars, Types, Lifecycle,
        NoSubmitAfterClose, Fresh, SubmitHolds, VoiceBuffersIntact
  <2>2. InHand' = InHand /\ UNCHANGED <<voice, queued_frames, done>>
    BY <1>3 DEF reload_content, ThreadFree, count_vars, feeder_vars, InHand
  <2> QED BY <2>1, <2>2, BacklogKept
<1>4. CASE set_paused
  <2>1. Types' /\ Lifecycle' /\ NoSubmitAfterClose' /\ Fresh' /\ SubmitHolds'
          /\ VoiceBuffersIntact'
    BY <1>4
    DEF set_paused, pool_vars, count_vars, feeder_vars, Types, Lifecycle,
        NoSubmitAfterClose, Fresh, SubmitHolds, VoiceBuffersIntact
  <2>2. InHand' = InHand /\ UNCHANGED <<voice, queued_frames, done>>
    BY <1>4 DEF set_paused, count_vars, feeder_vars, InHand
  <2> QED BY <2>1, <2>2, BacklogKept
<1>5. ASSUME NEW next \in {"none", "push", "pull"}, destroy_core(next)
      PROVE  IInv'
  <2>1. Types' /\ Lifecycle' /\ NoSubmitAfterClose' /\ Fresh' /\ SubmitHolds'
          /\ VoiceBuffersIntact'
    BY <1>5
    DEF destroy_core, ThreadFree, pool_vars, count_vars, feeder_vars, Types,
        Lifecycle, NoSubmitAfterClose, Fresh, SubmitHolds, VoiceBuffersIntact
  <2>2. InHand' = InHand /\ UNCHANGED <<voice, queued_frames, done>>
    BY <1>5 DEF destroy_core, count_vars, feeder_vars, InHand
  <2> QED BY <2>1, <2>2, BacklogKept
<1>17. CASE reset
  <2>1. Types' /\ Lifecycle' /\ NoSubmitAfterClose' /\ Fresh' /\ SubmitHolds'
          /\ VoiceBuffersIntact'
    BY <1>17
    DEF reset, Joined, pool_vars, count_vars, feeder_vars, Types, Lifecycle,
        NoSubmitAfterClose, Fresh, SubmitHolds, VoiceBuffersIntact
  <2>2. InHand' = InHand /\ UNCHANGED <<voice, queued_frames, done>>
    BY <1>17 DEF reset, count_vars, feeder_vars, InHand
  <2> QED BY <2>1, <2>2, BacklogKept
<1>6. CASE close
  <2>1. /\ FreshOutput /\ open' = FALSE /\ core' = "none" /\ after' = "none"
        /\ pc = "poll" /\ want = 0 /\ UNCHANGED <<opening, pc, want, n, slot>>
        /\ core \in {"none", "stopping"}
    BY <1>6 DEF close, Joined, feeder_vars
  <2>2. Types'
    BY <2>1, FreshStep DEF Types
  <2>3. Lifecycle' /\ NoSubmitAfterClose'
    BY <2>1 DEF Lifecycle, NoSubmitAfterClose
  <2> QED BY <2>1, <2>2, <2>3, FreshStep
<1>18. CASE LostSubmit
  <2>1. Types' /\ Lifecycle' /\ NoSubmitAfterClose' /\ Fresh' /\ SubmitHolds'
          /\ VoiceBuffersIntact'
    BY <1>18
    DEF LostSubmit, core_vars, pool_vars, count_vars, Types, Lifecycle,
        NoSubmitAfterClose, Fresh, SubmitHolds, VoiceBuffersIntact
  <2>2. InHand' = InHand /\ UNCHANGED <<voice, queued_frames, done>>
    BY <1>18 DEF LostSubmit, count_vars, InHand
  <2> QED BY <2>1, <2>2, BacklogKept
<1>7. CASE on_audio_want
  <2>1. want' \in Nat
    BY <1>7, ChunkAssumption, TargetAssumption
    DEF on_audio_want, want_frames, Deficit, Types
  <2>2. /\ UNCHANGED <<core, after, opening, open, in_use, bufs, queued_frames,
                       voice, pc, n, slot, done>>
        /\ core = "pull"
    BY <1>7 DEF on_audio_want, core_vars, pool_vars
  <2>3. Types' /\ Lifecycle' /\ NoSubmitAfterClose' /\ Fresh' /\ SubmitHolds'
          /\ VoiceBuffersIntact'
    BY <2>1, <2>2
    DEF Types, Lifecycle, NoSubmitAfterClose, Fresh, SubmitHolds,
        VoiceBuffersIntact
  <2>4. InHand' = InHand
    BY <2>2 DEF InHand
  <2> QED BY <2>2, <2>3, <2>4, BacklogKept
<1>8. ASSUME NEW frames \in 1..Chunk, RunFrame(frames) PROVE IInv'
  <2>1. Types' /\ Lifecycle' /\ NoSubmitAfterClose' /\ Fresh' /\ SubmitHolds'
          /\ VoiceBuffersIntact'
    BY <1>8, ChunkAssumption
    DEF RunFrame, core_vars, pool_vars, count_vars, Types, Lifecycle,
        NoSubmitAfterClose, Fresh, SubmitHolds, VoiceBuffersIntact
  <2>2. InHand' = InHand /\ UNCHANGED <<voice, queued_frames, done>>
    BY <1>8 DEF RunFrame, count_vars, InHand
  <2> QED BY <2>1, <2>2, BacklogKept
<1>9. CASE on_audio_sample
  <2>1. /\ n' = (IF want <= Chunk THEN want ELSE Chunk)
        /\ want' = want - n' /\ want > 0 /\ want \in Nat
    BY <1>9, ChunkTaken DEF on_audio_sample, Types
  <2>2. want' \in Nat /\ n' \in 1..Chunk
    BY <2>1, ChunkAssumption
  <2>3. /\ UNCHANGED <<core, after, opening, open, in_use, bufs, queued_frames,
                       voice, slot, done>>
        /\ pc = "poll" /\ pc' \in {"poll", "pick"}
        /\ pc' = "pick" => open
    BY <1>9 DEF on_audio_sample, core_vars, pool_vars, count_vars
  <2>4. Types' /\ Lifecycle' /\ NoSubmitAfterClose' /\ Fresh' /\ SubmitHolds'
          /\ VoiceBuffersIntact'
    BY <2>1, <2>2, <2>3
    DEF Types, Lifecycle, NoSubmitAfterClose, Fresh, SubmitHolds,
        VoiceBuffersIntact
  <2>5. InHand' = InHand
    BY <2>3 DEF InHand
  <2> QED BY <2>3, <2>4, <2>5, BacklogKept
<1>10. CASE Pick
  <2>1. /\ UNCHANGED <<core, after, opening, open, bufs, queued_frames, voice, want,
                       n, done>>
        /\ pc = "pick" /\ pc' \in {"poll", "fill"} /\ open
    BY <1>10
    DEF Pick, core_vars, count_vars, NoSubmitAfterClose
  <2>2. pc' = "poll" => UNCHANGED <<in_use, slot>>
    BY <1>10 DEF Pick
  <2>3. pc' = "fill" =>
          /\ slot' \in Slots /\ ~in_use[slot']
          /\ in_use' = [in_use EXCEPT ![slot'] = TRUE]
    BY <1>10, PickedIsFree DEF Pick
  <2>4. Types'
    BY <2>1, <2>2, <2>3 DEF Types
  <2>5. Lifecycle' /\ NoSubmitAfterClose' /\ Fresh' /\ SubmitHolds'
    BY <2>1 DEF Lifecycle, NoSubmitAfterClose, Fresh, SubmitHolds
  <2>6. VoiceBuffersIntact'
    <3>1. CASE pc' = "poll"
      BY <2>1, <2>2, <3>1 DEF VoiceBuffersIntact
    <3>2. CASE pc' = "fill"
      <4>1. \A i \in DOMAIN voice : voice[i].slot # slot'
        BY <2>3, <3>2 DEF VoiceBuffersIntact
      <4>2. in_use'[slot'] /\ \A i \in DOMAIN voice : in_use'[voice[i].slot]
        BY <2>3, <3>2, <4>1, VoiceTyped DEF VoiceBuffersIntact, Types
      <4> QED BY <2>1, <3>2, <4>1, <4>2 DEF VoiceBuffersIntact
    <3> QED BY <2>1, <3>1, <3>2
  <2>7. InHand' = InHand
    BY <2>1 DEF InHand
  <2> QED BY <2>1, <2>4, <2>5, <2>6, <2>7, BacklogKept
<1>11. CASE Fill
  <2>1. /\ UNCHANGED <<core, after, opening, open, in_use, queued_frames, voice,
                       want, n, slot, done>>
        /\ bufs' = [bufs EXCEPT ![slot] = n] /\ pc = "fill" /\ pc' = "add"
    BY <1>11 DEF Fill, core_vars, count_vars, NextStep
  <2>2. Types'
    BY <2>1 DEF Types
  <2>3. Lifecycle' /\ NoSubmitAfterClose' /\ Fresh' /\ SubmitHolds'
    BY <2>1
    DEF Lifecycle, NoSubmitAfterClose, Fresh, SubmitHolds, Types
  <2>4. VoiceBuffersIntact'
    <3>1. \A i \in DOMAIN voice : voice[i].slot # slot
      BY <2>1 DEF VoiceBuffersIntact
    <3>2. \A i \in DOMAIN voice :
            bufs'[voice[i].slot] = bufs[voice[i].slot]
      BY <2>1, <3>1, VoiceTyped DEF Types
    <3> QED BY <2>1, <3>1, <3>2 DEF VoiceBuffersIntact
  <2>5. InHand' = InHand
    BY <2>1 DEF InHand
  <2> QED BY <2>1, <2>2, <2>3, <2>4, <2>5, BacklogKept
<1>12. CASE AddQueued \/ Refund \/ ShrinkQueued
  <2>1. /\ UNCHANGED <<core, after, opening, open, in_use, bufs, voice, want, n, slot>>
        /\ \/ pc' = pc
           \/ pc = "add" /\ pc' = "submit"
           \/ pc = "refund" /\ pc' = "poll"
        /\ done' \in {done, 0}
        /\ open
    BY <1>12
    DEF AddQueued, Refund, ShrinkQueued, core_vars, pool_vars, feeder_vars,
        NextStep, NoSubmitAfterClose, Fresh
  <2>2. Types'
    BY <1>12, <2>1, CountStep, ChunkAssumption DEF Types
  <2>3. Lifecycle' /\ NoSubmitAfterClose' /\ Fresh' /\ SubmitHolds'
    BY <2>1 DEF Lifecycle, NoSubmitAfterClose, Fresh, SubmitHolds
  <2>4. VoiceBuffersIntact'
    BY <2>1 DEF VoiceBuffersIntact
  <2> QED BY <1>12, <2>2, <2>3, <2>4, CountStep
<1>13. CASE SubmitSourceBuffer
  <2>1. /\ UNCHANGED <<core, after, opening, open, in_use, bufs, queued_frames, want,
                       n, slot, done>>
        /\ pc = "submit" /\ pc' = "poll" /\ open
    BY <1>13
    DEF SubmitSourceBuffer, core_vars, pool_vars, NextStep,
        NoSubmitAfterClose
  <2>2. Types'
    BY <1>13, <2>1, SubmitStep DEF Types
  <2>3. Lifecycle' /\ NoSubmitAfterClose' /\ Fresh' /\ SubmitHolds'
    BY <2>1 DEF Lifecycle, NoSubmitAfterClose, Fresh, SubmitHolds
  <2> QED BY <1>13, <2>2, <2>3, SubmitStep
<1>14. CASE SubmitFails
  <2>1. /\ UNCHANGED <<core, after, opening, open, bufs, queued_frames, voice, want,
                       n, slot, done>>
        /\ in_use' = [in_use EXCEPT ![slot] = FALSE]
        /\ pc = "submit" /\ pc' = "refund" /\ open
    BY <1>14 DEF SubmitFails, core_vars, count_vars, NoSubmitAfterClose
  <2>2. Types'
    BY <2>1 DEF Types
  <2>3. Lifecycle' /\ NoSubmitAfterClose' /\ Fresh' /\ SubmitHolds'
    BY <2>1 DEF Lifecycle, NoSubmitAfterClose, Fresh, SubmitHolds
  <2>4. VoiceBuffersIntact'
    <3>1. \A i \in DOMAIN voice : voice[i].slot # slot
      BY <2>1 DEF VoiceBuffersIntact
    <3>2. \A i \in DOMAIN voice :
            in_use'[voice[i].slot] = in_use[voice[i].slot]
      BY <2>1, <3>1, VoiceTyped DEF Types
    <3> QED BY <2>1, <3>1, <3>2 DEF VoiceBuffersIntact
  <2>5. InHand' = InHand
    BY <2>1 DEF InHand
  <2> QED BY <2>1, <2>2, <2>3, <2>4, <2>5, BacklogKept
<1>15. CASE BufferEnd
  <2>1. /\ UNCHANGED <<core, after, opening, open, bufs, queued_frames, pc, want, n,
                       slot>>
        /\ in_use' = [in_use EXCEPT ![Head(voice).slot] = FALSE]
        /\ open
    BY <1>15 DEF BufferEnd, core_vars, count_vars, feeder_vars, Fresh
  <2>2. Types'
    <3>1. voice' \in Seq(Buffers) /\ done' \in 0..Chunk
      BY <1>15, EndStep, ChunkAssumption
    <3>2. in_use' \in [Slots -> BOOLEAN]
      BY <2>1 DEF Types
    <3> QED BY <2>1, <3>1, <3>2 DEF Types
  <2>3. Lifecycle' /\ NoSubmitAfterClose' /\ Fresh' /\ SubmitHolds'
    BY <2>1 DEF Lifecycle, NoSubmitAfterClose, Fresh, SubmitHolds
  <2> QED BY <1>15, <2>2, <2>3, EndStep
<1>16. CASE UNCHANGED vars
  <2>1. Types' /\ Lifecycle' /\ NoSubmitAfterClose' /\ Fresh' /\ SubmitHolds'
          /\ VoiceBuffersIntact'
    BY <1>16
    DEF vars, core_vars, pool_vars, count_vars, feeder_vars, Types, Lifecycle,
        NoSubmitAfterClose, Fresh, SubmitHolds, VoiceBuffersIntact
  <2>2. InHand' = InHand /\ UNCHANGED <<voice, queued_frames, done>>
    BY <1>16 DEF vars, core_vars, count_vars, feeder_vars, InHand
  <2> QED BY <2>1, <2>2, BacklogKept
<1> QED
  BY <1>1, <1>2, <1>3, <1>4, <1>5, <1>6, <1>7, <1>8, <1>9, <1>10, <1>11,
     <1>12, <1>13, <1>14, <1>15, <1>16, <1>17, <1>18
  DEF Next, Application, Feeder, Engine

\* Every reachable state satisfies the inductive invariant.
THEOREM AudioInvariant == Spec => []IInv
BY InitIInv, NextIInv, PTL DEF Spec

\* queued_frames_ counts exactly the frames on the voice, in a callback and in
\* a submit, however submit and on_buffer_end interleave.
THEOREM BacklogIsExact == Spec => []BacklogExact
<1>1. IInv => BacklogExact
  <2> SUFFICES ASSUME IInv PROVE BacklogExact
    OBVIOUS
  <2> USE DEF IInv
  <2>1. PICK t \in [0..Len(voice) -> Nat] : Totals(t)
    BY DEF Backlog
  <2>2. /\ Len(voice) \in Nat /\ queued_frames \in Nat
        /\ done \in Nat /\ InHand \in Nat
    BY VoiceTyped, ChunkAssumption DEF Types, InHand
  <2>3. \A i \in 0..Len(voice) : t[i] \in 0..queued_frames
    BY <2>1, <2>2 DEF Totals
  <2>4. t \in [0..Len(voice) -> 0..queued_frames]
    BY <2>1, <2>3
  <2> QED BY <2>1, <2>4 DEF Totals, BacklogExact
<1> QED BY AudioInvariant, <1>1, PTL

\* submit and on_buffer_end leave the slot and the samples of every buffer in
\* flight alone.
THEOREM BuffersStayIntact == Spec => []VoiceBuffersIntact
<1>1. IInv => VoiceBuffersIntact
  BY DEF IInv
<1> QED BY AudioInvariant, <1>1, PTL

\* unload_core never closes the output under a submit, and open_audio destroys
\* one only under a submit of a presenting core, whose destroy waits for it.
THEOREM NoLateSubmit == Spec => []NoSubmitAfterClose
<1>1. IInv => NoSubmitAfterClose
  BY DEF IInv
<1> QED BY AudioInvariant, <1>1, PTL

-----------------------------------------------------------------------------
(***************************************************************************)
(* The pulling feeder and the pool.  A poll asks for the frames of the     *)
(* buffers that ended, and cuts them into at most as many chunks: each     *)
(* buffer is either in a slot, between slot and count (a callback, a chunk *)
(* about to be submitted, a refund), wanted, or not asked for yet.         *)
(***************************************************************************)

\* With c buffers about, w frames wanted and d more to the target, the pool has
\* room: the frames wanted and the rest make no more chunks than it has slots.
Room(c, w, d) ==
  \E a, b \in Nat : /\ w <= a * Chunk
                    /\ d <= b * Chunk
                    /\ c + a + b <= PoolSize

\* Frames taken off want and not counted yet.
Uncounted == IF pc \in {"pick", "fill", "add"} THEN n ELSE 0

\* Frames to the target that are not wanted yet.
Spare == Target - (queued_frames + Uncounted + want)

Taken == {s \in Slots : in_use[s]}

\* Buffers in a slot or between slot and count.
About == Cardinality(Taken) + (IF done > 0 THEN 1 ELSE 0)
           + (IF pc \in {"pick", "refund"} THEN 1 ELSE 0)

\* A core that pulls, or is brought back by a reset that keeps its output.
Pulling == "pull" \in {core, after}

PullBudget == Pulling => Spare >= 0 /\ Room(About, want, Spare)

\* A chunk off what is wanted is one buffer more.
LEMMA RoomTaken ==
  ASSUME NEW c \in Int, NEW w \in Nat, NEW d \in Int, Room(c, w, d), w > 0,
         NEW k \in Nat, k = IF w <= Chunk THEN w ELSE Chunk
  PROVE  Room(c + 1, w - k, d)
<1>1. PICK a \in Nat, b \in Nat :
        w <= a * Chunk /\ d <= b * Chunk /\ c + a + b <= PoolSize
  BY DEF Room
<1>2. a > 0
  BY <1>1, ChunkAssumption
<1>3. a - 1 \in Nat /\ (a - 1) * Chunk = a * Chunk - Chunk
  BY <1>2, ChunkAssumption
<1>4. (a - 1) * Chunk >= 0
  BY <1>3, ChunkAssumption
<1>5. a * Chunk \in Int
  BY ChunkAssumption
<1>6. w - k <= (a - 1) * Chunk
  BY <1>1, <1>3, <1>4, <1>5, ChunkAssumption
<1>7. (c + 1) + (a - 1) + b <= PoolSize
  BY <1>1, PoolAssumption
<1> QED BY <1>1, <1>3, <1>6, <1>7 DEF Room

\* A buffer less is at most a chunk more to the target.
LEMMA RoomReturned ==
  ASSUME NEW c \in Int, NEW w \in Nat, NEW d \in Int, Room(c + 1, w, d),
         NEW k \in 0..Chunk
  PROVE  Room(c, w, d + k)
<1>1. PICK a \in Nat, b \in Nat :
        w <= a * Chunk /\ d <= b * Chunk /\ (c + 1) + a + b <= PoolSize
  BY DEF Room
<1>2. b + 1 \in Nat /\ (b + 1) * Chunk = b * Chunk + Chunk
  BY ChunkAssumption
<1>3. b * Chunk \in Int
  BY ChunkAssumption
<1>4. d + k <= (b + 1) * Chunk
  BY <1>1, <1>2, <1>3, ChunkAssumption
<1>5. c + a + (b + 1) <= PoolSize
  BY <1>1, PoolAssumption
<1> QED BY <1>1, <1>2, <1>4, <1>5 DEF Room

\* A poll wants what there is to the target.
LEMMA RoomPolled ==
  ASSUME NEW c \in Int, NEW d \in Int, Room(c, 0, d)
  PROVE  Room(c, d, 0)
<1>1. PICK a \in Nat, b \in Nat :
        0 <= a * Chunk /\ d <= b * Chunk /\ c + a + b <= PoolSize
  BY DEF Room
<1>2. 0 * Chunk = 0 /\ c + b + 0 <= PoolSize
  BY <1>1, ChunkAssumption, PoolAssumption
<1> QED BY <1>1, <1>2 DEF Room

\* A poll without an output wants a chunk of it.
LEMMA RoomNominal ==
  ASSUME NEW c \in Int, NEW d \in Int, d > 0, Room(c, 0, d)
  PROVE  Room(c, Chunk, d - Chunk)
<1>1. PICK a \in Nat, b \in Nat :
        0 <= a * Chunk /\ d <= b * Chunk /\ c + a + b <= PoolSize
  BY DEF Room
<1>2. b > 0
  BY <1>1, ChunkAssumption
<1>3. b - 1 \in Nat /\ (b - 1) * Chunk = b * Chunk - Chunk
  BY <1>2, ChunkAssumption
<1>4. b * Chunk \in Int /\ 1 * Chunk = Chunk
  BY ChunkAssumption
<1>5. d - Chunk <= (b - 1) * Chunk /\ Chunk <= 1 * Chunk
  BY <1>1, <1>3, <1>4, ChunkAssumption
<1>6. c + 1 + (b - 1) <= PoolSize
  BY <1>1, PoolAssumption
<1> QED BY <1>3, <1>5, <1>6 DEF Room

\* A fresh output has room for what the one before it was asked for.
LEMMA RoomFresh ==
  ASSUME Target <= (PoolSize - 1) * Chunk + 1, NEW w \in Nat, w <= Target
  PROVE  Room(0, w, Target - w)
<1> DEFINE S == {a \in Nat : w <= a * Chunk}
<1>1. w <= w * Chunk
  <2>1. Chunk \in Nat /\ Chunk >= 1
    BY ChunkAssumption
  <2>2. w * Chunk = w + w * (Chunk - 1)
    BY <2>1
  <2>3. w * (Chunk - 1) \in Int /\ w * (Chunk - 1) >= 0
    BY <2>1
  <2> QED BY <2>2, <2>3
<1>2. S \subseteq Nat /\ w \in S
  BY <1>1
<1>3. PICK a \in Nat : a \in S /\ \A y \in S : a <= y
  BY <1>2, LeastElement
<1>4. (PoolSize - a) * Chunk = PoolSize * Chunk - a * Chunk
      /\ (PoolSize - 1) * Chunk = PoolSize * Chunk - Chunk
      /\ PoolSize * Chunk \in Int /\ a * Chunk \in Int
  BY PoolAssumption, ChunkAssumption
<1>5. w > a * Chunk - Chunk
  <2>1. CASE a = 0
    BY <2>1, ChunkAssumption
  <2>2. CASE a > 0
    <3>1. a - 1 \in Nat /\ ~(a <= a - 1)
      BY <2>2
    <3>2. a - 1 \notin S
      BY <1>3, <3>1
    <3>3. ~(w <= (a - 1) * Chunk)
      BY <3>1, <3>2
    <3>4. (a - 1) * Chunk = a * Chunk - Chunk
      BY ChunkAssumption
    <3> QED BY <1>4, <3>3, <3>4, ChunkAssumption
  <2> QED BY <2>1, <2>2
<1>6. Target - w <= (PoolSize - a) * Chunk
  BY <1>4, <1>5, TargetAssumption, ChunkAssumption
<1>7. PoolSize - a \in Nat
  <2>1. CASE PoolSize < a
    <3>1. a - PoolSize \in Nat /\ a - PoolSize >= 1
      BY <2>1, PoolAssumption
    <3>2. (a - PoolSize) * Chunk > 0 /\ (a - PoolSize) * Chunk \in Int
      BY <3>1, ChunkAssumption
    <3>3. (PoolSize - a) * Chunk = 0 - (a - PoolSize) * Chunk
      BY PoolAssumption, ChunkAssumption
    <3>4. (PoolSize - a) * Chunk < 0
      BY <3>2, <3>3, ChunkAssumption
    <3>5. (PoolSize - a) * Chunk >= 0
      BY <1>4, <1>6, TargetAssumption
    <3> QED BY <1>4, <3>4, <3>5
  <2> QED BY <2>1, PoolAssumption
<1>8. w <= a * Chunk
  BY <1>3
<1>9. 0 + a + (PoolSize - a) <= PoolSize
  BY PoolAssumption
<1> QED BY <1>6, <1>7, <1>8, <1>9 DEF Room

\* How many slots are taken.
LEMMA TakenCount ==
  ASSUME in_use \in [Slots -> BOOLEAN]
  PROVE  /\ IsFiniteSet(Taken) /\ Cardinality(Taken) \in Nat
         /\ FreeSlots = {} => Cardinality(Taken) = PoolSize
<1>1. IsFiniteSet(Slots) /\ Cardinality(Slots) = PoolSize
  BY FS_Interval, PoolAssumption DEF Slots
<1>2. Taken \in SUBSET Slots /\ (FreeSlots = {} => Taken = Slots)
  BY DEF Taken, FreeSlots
<1>3. IsFiniteSet(Taken)
  BY <1>1, <1>2, FS_Subset
<1> QED BY <1>1, <1>2, <1>3, FS_CardinalityType

\* Taking a free slot, and freeing a taken one.
LEMMA TakenStep ==
  ASSUME in_use \in [Slots -> BOOLEAN], NEW s \in Slots
  PROVE  /\ ~in_use[s] /\ in_use' = [in_use EXCEPT ![s] = TRUE] =>
              Cardinality(Taken') = Cardinality(Taken) + 1
         /\ in_use[s] /\ in_use' = [in_use EXCEPT ![s] = FALSE] =>
              Cardinality(Taken') = Cardinality(Taken) - 1
<1>1. ~in_use[s] /\ in_use' = [in_use EXCEPT ![s] = TRUE] =>
        Taken' = Taken \union {s} /\ s \notin Taken
  BY DEF Taken
<1>2. in_use[s] /\ in_use' = [in_use EXCEPT ![s] = FALSE] =>
        Taken' = Taken \ {s} /\ s \in Taken
  BY DEF Taken
<1> QED BY <1>1, <1>2, TakenCount, FS_AddElement, FS_RemoveElement

\* The numbers the budget is about.
LEMMA BudgetTyped ==
  ASSUME Types
  PROVE  /\ Cardinality(Taken) \in Nat /\ About \in Nat
         /\ Uncounted \in Nat /\ Spare \in Int
<1>1. Cardinality(Taken) \in Nat
  BY TakenCount DEF Types
<1>2. Uncounted \in Nat
  BY ChunkAssumption DEF Types, Uncounted
<1> QED
  BY <1>1, <1>2, TargetAssumption DEF Types, About, Spare

\* A pulling core starts with the whole pool, and no step takes more of it than
\* it gives back.
LEMMA PullBudgetStep ==
  ASSUME Chunk <= Target, Target <= (PoolSize - 1) * Chunk + 1,
         IInv, IInv', PullBudget, [Next]_vars
  PROVE  PullBudget'
<1> DEFINE Goal == Spare' >= 0 /\ Room(About', want', Spare')
<1> SUFFICES ASSUME Pulling' PROVE Goal
  BY DEF PullBudget, Room
<1> USE DEF IInv
<1>t. /\ Cardinality(Taken) \in Nat /\ About \in Nat
      /\ Uncounted \in Nat /\ Spare \in Int
      /\ want \in Nat /\ n \in Nat /\ queued_frames \in Nat /\ done \in Nat
  BY BudgetTyped, ChunkAssumption DEF Types
<1>k. ASSUME Pulling, UNCHANGED <<in_use, queued_frames, pc, want, n, done>>
      PROVE  Goal
  BY <1>k DEF PullBudget, Room, About, Taken, Spare, Uncounted
<1>f. ASSUME Spare' = Target - want', About' = 0, want' <= Target,
             want' \in Nat
      PROVE  Goal
  <2>1. PICK w \in Nat : w = want'
    BY <1>f
  <2>2. Room(0, w, Target - w)
    BY <1>f, <2>1, RoomFresh
  <2>3. Target - w >= 0
    <3>1. w <= Target
      BY <1>f, <2>1, Zenon
    <3> QED BY <3>1, TargetAssumption
  <2> QED BY <1>f, <2>1, <2>2, <2>3
<1>1. ASSUME NEW kind \in {"push", "pull"}, StartCore(kind)
      PROVE  Goal
  <2>1. /\ core = "none" /\ pc = "poll" /\ want = 0 /\ kind = "pull"
        /\ after \in {"none", "pull"}
    BY <1>1 DEF StartCore, Lifecycle, Pulling
  <2>2. UNCHANGED <<in_use, queued_frames, pc, want, n, done>>
    BY <1>1 DEF StartCore, pool_vars, count_vars, feeder_vars
  <2>3. CASE after = "pull"
    BY <2>2, <2>3, <1>k DEF Pulling
  <2>4. CASE after = "none"
    <3>1. ~open
      BY <2>1, <2>4 DEF Lifecycle
    <3>2. queued_frames = 0 /\ done = 0 /\ \A s \in Slots : ~in_use[s]
      BY <3>1 DEF Fresh
    <3>3. Taken' = {}
      BY <2>2, <3>2 DEF Taken
    <3>4. About' = 0 /\ Spare' = Target - want' /\ want' = 0
      BY <2>1, <2>2, <3>2, <3>3, FS_EmptySet, TargetAssumption
      DEF About, Spare, Uncounted
    <3> QED BY <3>4, <1>f, TargetAssumption
  <2> QED BY <2>1, <2>3, <2>4
<1>2. ASSUME NEW opened \in BOOLEAN, open_audio(opened) PROVE Goal
  <2>1. Pulling /\ UNCHANGED <<want, n>>
    BY <1>2 DEF open_audio, Pulling
  <2>2. CASE ~opened
    BY <1>2, <2>1, <2>2, <1>k DEF open_audio, pool_vars, count_vars
  <2>3. CASE opened
    <3>1. /\ FreshOutput /\ pc' \in {"poll", "lost"}
      BY <1>2, <2>3 DEF open_audio
    <3>2. Taken' = {} /\ queued_frames' = 0 /\ done' = 0
      BY <3>1 DEF FreshOutput, Taken
    <3>3. About' = 0 /\ Spare' = Target - want'
      BY <1>t, <2>1, <3>1, <3>2, FS_EmptySet, TargetAssumption
      DEF About, Spare, Uncounted
    <3>4. want <= Target
      BY <1>t, <2>1, TargetAssumption DEF PullBudget, Spare
    <3> QED BY <1>t, <2>1, <3>3, <3>4, <1>f
  <2> QED BY <2>2, <2>3
<1>3. CASE reload_content \/ set_paused
  <2>1. UNCHANGED <<core, after, in_use, queued_frames, pc, want, n, done>>
    BY <1>3
    DEF reload_content, set_paused, pool_vars, count_vars, feeder_vars
  <2> QED BY <2>1, <1>k DEF Pulling
<1>4. ASSUME \/ \E next \in {"none", "push", "pull"} : destroy_core(next)
             \/ reset \/ close
      PROVE  Goal
  <2>1. Pulling /\ UNCHANGED <<in_use, queued_frames, pc, want, n, done>>
    BY <1>4
    DEF destroy_core, reset, close, Pulling, pool_vars, count_vars, feeder_vars
  <2> QED BY <2>1, <1>k
<1>5. CASE on_audio_want
  <2>1. /\ UNCHANGED <<in_use, queued_frames, pc, n, done>>
        /\ pc = "poll" /\ want = 0 /\ Pulling
    BY <1>5 DEF on_audio_want, pool_vars, Pulling
  <2>2. /\ About' = About /\ Uncounted = 0 /\ Uncounted' = 0
        /\ Spare = Target - queued_frames /\ Spare >= 0
        /\ Room(About, 0, Spare)
    BY <1>t, <2>1, TargetAssumption
    DEF About, Taken, Uncounted, Spare, PullBudget
  <2>3. CASE want' = want
    BY <2>1, <2>2, <2>3 DEF Spare
  <2>4. CASE want' = Deficit
    <3>1. want' = Spare
      BY <1>t, <2>2, <2>4, TargetAssumption DEF Deficit
    <3>2. Spare' = 0
      BY <1>t, <2>1, <2>2, <3>1, TargetAssumption DEF Spare
    <3> QED BY <1>t, <2>2, <3>1, <3>2, RoomPolled
  <2>5. CASE want' = Chunk /\ ~open
    <3>1. queued_frames = 0
      BY <2>5 DEF Fresh
    <3>2. Spare = Target /\ Spare' = Spare - Chunk
      BY <2>1, <2>2, <2>5, <3>1, TargetAssumption, ChunkAssumption DEF Spare
    <3>3. Room(About, Chunk, Spare - Chunk)
      BY <1>t, <2>2, <3>2, RoomNominal, TargetAssumption
    <3> QED BY <2>2, <2>5, <3>2, <3>3, TargetAssumption, ChunkAssumption
  <2> QED BY <1>5, <2>3, <2>4, <2>5 DEF on_audio_want, want_frames
<1>6. ASSUME NEW frames \in 1..Chunk, RunFrame(frames) PROVE Goal
  BY <1>6 DEF RunFrame, core_vars, Pulling, Lifecycle
<1>7. CASE on_audio_sample
  <2>1. /\ UNCHANGED <<in_use, queued_frames, done>> /\ Pulling
        /\ pc = "poll" /\ want > 0 /\ want' = want - n'
        /\ n' = (IF want <= Chunk THEN want ELSE Chunk)
        /\ pc' \in {"poll", "pick"}
    BY <1>7, <1>t, ChunkTaken
    DEF on_audio_sample, core_vars, Pulling, pool_vars, count_vars
  <2>2. n' \in 0..Chunk
    BY DEF Types
  <2>3. Room(About + 1, want', Spare) /\ Spare >= 0
    BY <1>t, <2>1, <2>2, RoomTaken, ChunkAssumption DEF PullBudget
  <2>4. CASE pc' = "pick"
    <3>1. About' = About + 1
      BY <1>t, <2>1, <2>4 DEF About, Taken
    <3>2. Spare' = Spare
      BY <1>t, <2>1, <2>2, <2>4, TargetAssumption, ChunkAssumption
      DEF Spare, Uncounted
    <3> QED BY <2>3, <3>1, <3>2
  <2>5. CASE pc' = "poll"
    <3>1. About' = About
      BY <1>t, <2>1, <2>5 DEF About, Taken
    <3>2. Spare' = Spare + n'
      BY <1>t, <2>1, <2>2, <2>5, TargetAssumption, ChunkAssumption
      DEF Spare, Uncounted
    <3>3. want' \in Nat
      BY DEF Types
    <3>4. Room(About, want', Spare + n')
      BY <1>t, <2>2, <2>3, <3>3, RoomReturned
    <3>5. Spare + n' >= 0
      <4>1. \A a \in Int, b \in Nat : a >= 0 => a + b >= 0
        OBVIOUS
      <4>2. n' \in Nat
        BY <2>2, ChunkAssumption
      <4> QED BY <1>t, <2>3, <4>1, <4>2
    <3> QED BY <2>1, <3>1, <3>2, <3>4, <3>5
  <2> QED BY <2>1, <2>4, <2>5
<1>8. CASE Pick
  <2>1. /\ UNCHANGED <<queued_frames, want, n, done>> /\ Pulling
        /\ pc = "pick" /\ pc' \in {"poll", "fill"}
    BY <1>8 DEF Pick, core_vars, Pulling, count_vars
  <2>2. Room(About, want, Spare) /\ Spare >= 0
    BY <2>1 DEF PullBudget
  <2>3. CASE pc' = "poll"
    <3>1. in_use' = in_use
      BY <1>8, <2>3 DEF Pick
    <3>2. About' + 1 = About /\ About' \in Nat
      BY <1>t, <2>1, <2>3, <3>1 DEF About, Taken
    <3>3. Spare' = Spare + n
      BY <1>t, <2>1, <2>3, TargetAssumption DEF Spare, Uncounted
    <3>4. Room(About' + 1, want, Spare) /\ n \in 0..Chunk
      BY <2>2, <3>2 DEF Types
    <3>5. Room(About', want, Spare + n)
      BY <1>t, <3>2, <3>4, RoomReturned
    <3> QED BY <1>t, <2>1, <2>2, <3>3, <3>5
  <2>4. CASE pc' = "fill"
    <3>1. /\ slot' \in Slots /\ ~in_use[slot']
          /\ in_use' = [in_use EXCEPT ![slot'] = TRUE]
      BY <1>8, <2>4, PickedIsFree DEF Pick
    <3>2. Cardinality(Taken') = Cardinality(Taken) + 1
      BY <3>1, TakenStep DEF Types
    <3>3. About' = About /\ Spare' = Spare
      BY <1>t, <2>1, <2>4, <3>2 DEF About, Spare, Uncounted
    <3> QED BY <2>1, <2>2, <3>3
  <2> QED BY <2>1, <2>3, <2>4
<1>9. CASE Fill \/ SubmitSourceBuffer
  <2>1. /\ UNCHANGED <<in_use, queued_frames, want, n, done>> /\ Pulling
        /\ \/ pc = "fill" /\ pc' = "add"
           \/ pc = "submit" /\ pc' = "poll"
    BY <1>9
    DEF Fill, SubmitSourceBuffer, core_vars, Pulling, pool_vars, count_vars, NextStep
  <2>2. About' = About /\ Spare' = Spare
    BY <1>t, <2>1 DEF About, Taken, Spare, Uncounted
  <2> QED BY <2>1, <2>2 DEF PullBudget
<1>10. CASE AddQueued
  <2>1. /\ UNCHANGED <<in_use, want, n, done>> /\ Pulling
        /\ queued_frames' = queued_frames + n /\ pc = "add" /\ pc' = "submit"
    BY <1>10 DEF AddQueued, core_vars, Pulling, pool_vars, NextStep
  <2>2. About' = About /\ Spare' = Spare
    BY <1>t, <2>1, TargetAssumption DEF About, Taken, Spare, Uncounted
  <2> QED BY <2>1, <2>2 DEF PullBudget
<1>11. CASE SubmitFails
  <2>1. /\ UNCHANGED <<queued_frames, want, n, done>> /\ Pulling
        /\ pc = "submit" /\ pc' = "refund" /\ slot \in Slots
        /\ in_use[slot] /\ in_use' = [in_use EXCEPT ![slot] = FALSE]
    BY <1>11
    DEF SubmitFails, core_vars, Pulling, count_vars, Types, VoiceBuffersIntact
  <2>2. Cardinality(Taken') = Cardinality(Taken) - 1
    BY <2>1, TakenStep DEF Types
  <2>3. About' = About /\ Spare' = Spare
    BY <1>t, <2>1, <2>2 DEF About, Spare, Uncounted
  <2> QED BY <2>1, <2>3 DEF PullBudget
<1>12. CASE Refund
  <2>1. /\ UNCHANGED <<in_use, want, n, done>> /\ Pulling
        /\ queued_frames' = Shrunk(n) /\ pc = "refund" /\ pc' = "poll"
    BY <1>12 DEF Refund, core_vars, Pulling, pool_vars
  <2>2. queued_frames >= n
    BY <1>t, <2>1, CountCovers DEF InHand
  <2>3. queued_frames' = queued_frames - n
    BY <1>t, <2>1, <2>2 DEF Shrunk
  <2>4. About' + 1 = About /\ About' \in Nat
    BY <1>t, <2>1 DEF About, Taken
  <2>5. Spare' = Spare + n
    BY <1>t, <2>1, <2>3, TargetAssumption DEF Spare, Uncounted
  <2>6. Room(About' + 1, want, Spare) /\ Spare >= 0 /\ n \in 0..Chunk
    BY <2>1, <2>4 DEF PullBudget, Types
  <2>7. Room(About', want, Spare + n)
    BY <1>t, <2>4, <2>6, RoomReturned
  <2> QED BY <1>t, <2>1, <2>5, <2>6, <2>7
<1>13. CASE BufferEnd
  <2>1. /\ UNCHANGED <<queued_frames, pc, want, n>> /\ Pulling
        /\ done = 0 /\ voice # <<>>
        /\ in_use' = [in_use EXCEPT ![Head(voice).slot] = FALSE]
    BY <1>13 DEF BufferEnd, core_vars, Pulling, count_vars, feeder_vars
  <2>2. in_use[Head(voice).slot] /\ done' \in 1..Chunk
    BY <1>13, EndStep
  <2>3. Head(voice).slot \in Slots
    <3>1. Head(voice) \in Buffers
      BY <2>1 DEF Types
    <3> QED BY <3>1 DEF Buffers
  <2>4. Cardinality(Taken') = Cardinality(Taken) - 1
    BY <2>1, <2>2, <2>3, TakenStep DEF Types
  <2>5. About' = About /\ Spare' = Spare
    BY <1>t, <2>1, <2>2, <2>4, ChunkAssumption DEF About, Spare, Uncounted
  <2> QED BY <2>1, <2>5 DEF PullBudget
<1>14. CASE ShrinkQueued
  <2>1. /\ UNCHANGED <<in_use, pc, want, n>> /\ Pulling
        /\ queued_frames' = Shrunk(done) /\ done > 0 /\ done' = 0
    BY <1>14 DEF ShrinkQueued, core_vars, Pulling, pool_vars, feeder_vars
  <2>2. InHand \in Nat
    BY <1>t DEF InHand
  <2>3. queued_frames >= done
    BY <1>t, <2>2, CountCovers
  <2>4. queued_frames' = queued_frames - done
    BY <1>t, <2>1, <2>3 DEF Shrunk
  <2>5. About' + 1 = About /\ About' \in Nat
    BY <1>t, <2>1 DEF About, Taken
  <2>6. Spare' = Spare + done
    BY <1>t, <2>1, <2>4, TargetAssumption DEF Spare, Uncounted
  <2>7. Room(About' + 1, want, Spare) /\ Spare >= 0 /\ done \in 0..Chunk
    BY <2>1, <2>5 DEF PullBudget, Types
  <2>8. Room(About', want, Spare + done)
    BY <1>t, <2>5, <2>7, RoomReturned
  <2> QED BY <1>t, <2>1, <2>6, <2>7, <2>8
<1>16. CASE LostSubmit
  <2>1. /\ UNCHANGED <<in_use, queued_frames, want, n, done>> /\ Pulling
        /\ pc = "lost" /\ pc' = "poll"
    BY <1>16 DEF LostSubmit, core_vars, Pulling, pool_vars, count_vars
  <2>2. About' = About /\ Spare' = Spare
    BY <1>t, <2>1 DEF About, Taken, Spare, Uncounted
  <2> QED BY <2>1, <2>2 DEF PullBudget
<1>15. CASE UNCHANGED vars
  BY <1>15, <1>k DEF vars, core_vars, Pulling, pool_vars, count_vars, feeder_vars
<1> QED
  BY <1>1, <1>2, <1>3, <1>4, <1>5, <1>6, <1>7, <1>8, <1>9, <1>10, <1>11,
     <1>12, <1>13, <1>14, <1>15, <1>16
  DEF Next, Application, Feeder, Engine

\* A pulling core's thread fills the output to its target and no further, and
\* audio_pick_free_slot always has a slot for it: as long as a chunk is no more
\* than the target and the pool holds the target with a chunk to spare for what
\* the output that open_audio replaced still asked for
\* (XAudio2Output aims at 40 ms, 1920 frames at 48 kHz, and has 16 buffers;
\* Dolphin's feeder submits 512 frames at a time).
THEOREM PullNeverMeetsFullPool ==
  ASSUME Chunk <= Target, Target <= (PoolSize - 1) * Chunk + 1
  PROVE  Spec => []PullFits
<1>1. Init => PullBudget
  BY DEF Init, PullBudget, Pulling
<1>2. IInv /\ IInv' /\ PullBudget /\ [Next]_vars => PullBudget'
  BY PullBudgetStep
<1>3. IInv /\ PullBudget => PullFits
  <2> SUFFICES ASSUME IInv, PullBudget, core = "pull"
               PROVE  /\ queued_frames <= Target
                      /\ pc = "pick" => FreeSlots # {}
    BY DEF PullFits
  <2> Pulling
    BY DEF Pulling
  <2>1. /\ About \in Nat /\ Uncounted \in Nat /\ want \in Nat
        /\ queued_frames \in Nat /\ Cardinality(Taken) \in Nat
    BY BudgetTyped DEF IInv, Types
  <2>2. queued_frames <= Target
    BY <2>1, TargetAssumption DEF PullBudget, Spare
  <2>3. About <= PoolSize
    <3>1. PICK a \in Nat, b \in Nat : About + a + b <= PoolSize
      BY DEF PullBudget, Room
    <3> QED BY <2>1, <3>1, PoolAssumption
  <2>4. pc = "pick" => Cardinality(Taken) < PoolSize
    BY <2>1, <2>3, PoolAssumption DEF About
  <2> QED BY <2>2, <2>4, TakenCount, PoolAssumption DEF IInv, Types
<1> QED BY <1>1, <1>2, <1>3, AudioInvariant, PTL DEF Spec
=============================================================================
