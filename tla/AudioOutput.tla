---------------------------- MODULE AudioOutput ----------------------------
(***************************************************************************)
(* The audio path: the runtime's two audio callbacks                        *)
(* (src/src/runtime/Runtime.cpp), the output with its pool of buffers       *)
(* (src/src/audio/XAudio2Output.cpp, AudioPool.cpp) and the threads that    *)
(* meet in it: the feeder that calls submit and want_frames, the audio      *)
(* engine's thread that plays the queued buffers and calls on_buffer_end,   *)
(* and the application's thread that loads, pauses, resets and unloads.     *)
(*                                                                          *)
(* A feeder is a driven core, which pushes the samples of every frame, or   *)
(* a presenting one, whose own thread pulls: it asks how many frames the    *)
(* output wants and submits that many in chunks (the audio thread in        *)
(* src/docs/patches/dolphin-external-present.patch).  Samples are modelled  *)
(* by their number; each access to a shared counter is a step.              *)
(***************************************************************************)
EXTENDS Integers, Sequences, FiniteSetsExt

CONSTANTS
  PoolSize,       \* kPoolSize
  Target,         \* target_frames_: the backlog the feeder steers toward
  Chunk,          \* the most frames in one submit
  MaxStarvations  \* bound: empty polls counted

ASSUME PoolAssumption == PoolSize \in Nat \ {0}
ASSUME TargetAssumption == Target \in Nat \ {0}
ASSUME ChunkAssumption == Chunk \in Nat \ {0}
ASSUME StarvationsAssumption == MaxStarvations \in Nat

VARIABLES
  core,           \* "none", "push", "pull", or "stopping": destroy() joins it
  after,          \* the kind of core reset() is bringing back, or "none"
  opening,        \* load_content has yet to call open_audio
  open,           \* audio_ holds an output whose open succeeded
  paused,
  \* the output
  in_use, bufs,   \* slot -> taken; slot -> frames its samples make
  queued_frames, started, min_queued, starvations,
  \* the source voice: buffers queued on it, oldest first
  voice,
  \* the feeder: where it is ("lost": in a submit on an output that has been
  \* destroyed), what it still owes, the frames and slot in hand
  pc, want, n, slot,
  \* on_buffer_end between its two accesses: done_frames, 0 outside
  done

core_vars == <<core, after, opening, open, paused>>
pool_vars == <<in_use, bufs>>
count_vars == <<queued_frames, started, min_queued, starvations>>
feeder_vars == <<pc, want, n, slot>>
vars == <<core_vars, pool_vars, count_vars, voice, feeder_vars, done>>

Slots == 0..(PoolSize - 1)
Infinity == Target + Chunk * PoolSize + 1   \* min_queued_ starts at 2^32 - 1

\* What a fresh XAudio2Output starts from.
FreshOutput ==
  /\ in_use' = [s \in Slots |-> FALSE]
  /\ bufs' = [s \in Slots |-> 0]
  /\ queued_frames' = 0
  /\ started' = FALSE
  /\ min_queued' = Infinity
  /\ starvations' = 0
  /\ voice' = <<>>
  /\ done' = 0

Init ==
  /\ core = "none" /\ after = "none" /\ opening = FALSE /\ open = FALSE /\ paused = FALSE
  /\ in_use = [s \in Slots |-> FALSE] /\ bufs = [s \in Slots |-> 0]
  /\ queued_frames = 0 /\ started = FALSE
  /\ min_queued = Infinity /\ starvations = 0
  /\ voice = <<>> /\ done = 0
  /\ pc = "poll" /\ want = 0 /\ n = 0 /\ slot = 0

-----------------------------------------------------------------------------
\* The application's thread.

\* A driven core runs on this thread: its calls do not interleave with ours.
ThreadFree == core = "push" => pc = "poll" /\ want = 0

\* The feeder's thread has been joined, or never ran.
Joined == pc = "poll" /\ want = 0

\* load_content: a presenting core is started, then the output is opened, so
\* its feeder may run without one for a while; or, after a reset, with the
\* output of the core before, which reset leaves open.
StartCore(kind) ==
  /\ core = "none" /\ after \in {"none", kind}
  /\ core' = kind
  /\ after' = "none"
  /\ opening' = TRUE
  /\ UNCHANGED <<open, paused, pool_vars, count_vars, voice, feeder_vars, done>>

\* open_audio: a new output takes the place of the one before, whose voice is
\* destroyed, if its own open succeeds.  A presenting core's feeder may be
\* inside submit on the old one.
open_audio(opened) ==
  /\ opening
  /\ opening' = FALSE
  /\ IF opened
       THEN /\ done = 0
            /\ open' = TRUE
            /\ FreshOutput
            /\ pc' = IF pc = "poll" THEN "poll" ELSE "lost"
       ELSE UNCHANGED <<open, pool_vars, count_vars, voice, done, pc>>
  /\ UNCHANGED <<core, after, paused, want, n, slot>>

\* A second load_content does not start the core again: it replaces the output.
reload_content ==
  /\ core \in {"push", "pull"} /\ ~opening
  /\ ThreadFree
  /\ opening' = TRUE
  /\ UNCHANGED <<core, after, open, paused, pool_vars, count_vars, voice,
                 feeder_vars, done>>

set_paused ==
  /\ core # "stopping" /\ ~opening
  /\ ThreadFree
  /\ paused' = ~paused
  /\ UNCHANGED <<core, after, open, opening, pool_vars, count_vars, voice,
                 feeder_vars, done>>

\* unload_core, and reset, which first clears the pause, destroy the core: that
\* joins the feeder's thread.
destroy_core(next) ==
  /\ core \in {"push", "pull"} /\ ~opening
  /\ ThreadFree
  /\ next \in {"none", core}
  /\ core' = "stopping"
  /\ after' = next
  /\ paused' = (paused /\ next = "none")
  /\ UNCHANGED <<open, opening, pool_vars, count_vars, voice, feeder_vars, done>>

\* reset creates the core again, not started yet, and keeps the output.
reset ==
  /\ core = "stopping" /\ after # "none"
  /\ Joined
  /\ core' = "none"
  /\ UNCHANGED <<after, open, opening, paused, pool_vars, count_vars, voice,
                 feeder_vars, done>>

\* unload_core, once the core is gone, closes the output: the voice is stopped,
\* flushed and destroyed, which waits for a callback under way.
\* Faulty variant: the output is closed before the core has stopped.
CloseFirst ==
  /\ core # "none"
  /\ done = 0
  /\ core' = "none"
  /\ after' = "none"
  /\ open' = FALSE
  /\ paused' = FALSE
  /\ FreshOutput
  /\ UNCHANGED <<opening, feeder_vars>>
close ==
  /\ \/ core = "stopping" /\ after = "none"
     \/ core = "none" /\ after # "none"
  /\ Joined
  /\ done = 0
  /\ core' = "none"
  /\ after' = "none"
  /\ open' = FALSE
  /\ paused' = FALSE
  /\ FreshOutput
  /\ UNCHANGED <<opening, feeder_vars>>

-----------------------------------------------------------------------------
\* The feeder.

\* Faulty variant: what is queued already is not taken off.
WholeTarget == IF queued_frames >= Target THEN 0 ELSE Target
Deficit == IF queued_frames >= Target THEN 0 ELSE Target - queued_frames

\* want_frames, with its telemetry once a first buffer went out.
want_frames ==
  /\ want' = Deficit
  /\ IF started
       THEN /\ min_queued' = Min({queued_frames, min_queued})
            /\ starvations' = IF queued_frames = 0
                                THEN Min({starvations + 1, MaxStarvations})
                                ELSE starvations
       ELSE UNCHANGED <<min_queued, starvations>>

\* The pulling thread asks; without an output it is told a nominal chunk.
on_audio_want ==
  /\ pc = "poll" /\ want = 0
  /\ core = "pull"
  /\ \/ /\ paused
        /\ UNCHANGED <<want, min_queued, starvations>>
     \/ /\ ~paused /\ open
        /\ want_frames
     \/ /\ ~paused /\ ~open
        /\ want' = Chunk
        /\ UNCHANGED <<min_queued, starvations>>
  /\ UNCHANGED <<core_vars, pool_vars, queued_frames, started, voice, pc, n,
                 slot, done>>

\* A driven core's frame brings samples to push, unless a rollback silences it.
RunFrame(frames) ==
  /\ pc = "poll" /\ want = 0
  /\ core = "push" /\ ~opening
  /\ want' = frames
  /\ UNCHANGED <<core_vars, pool_vars, count_vars, voice, pc, n, slot, done>>

\* on_audio_sample: muted while paused, counted only without an output.
on_audio_sample ==
  /\ pc = "poll" /\ want > 0
  /\ n' = Min({want, Chunk})
  /\ want' = want - n'
  /\ pc' = IF paused \/ ~open THEN "poll" ELSE "pick"
  /\ UNCHANGED <<core_vars, pool_vars, count_vars, voice, slot, done>>

FreeSlots == {s \in Slots : ~in_use[s]}
\* Faulty variant: the last slot is handed out whether it is free or not.
PickAny == IF FreeSlots = {} THEN PoolSize - 1 ELSE Min(FreeSlots)
audio_pick_free_slot == IF FreeSlots = {} THEN -1 ELSE Min(FreeSlots)

\* submit takes a slot under the lock, or drops the samples.
Pick ==
  /\ pc = "pick"
  /\ IF audio_pick_free_slot = -1
       THEN /\ pc' = "poll"
            /\ UNCHANGED <<in_use, slot>>
       ELSE /\ slot' = audio_pick_free_slot
            /\ in_use' = [in_use EXCEPT ![slot'] = TRUE]
            /\ pc' = "fill"
  /\ UNCHANGED <<core_vars, bufs, count_vars, voice, want, n, done>>

\* The order of submit's steps: the backlog grows before the buffer is live.
\* Faulty variant: it grows once the buffer is on the voice.
AddAfterSubmit == [fill |-> "submit", submit |-> "add", add |-> "poll"]
NextStep == [fill |-> "add", add |-> "submit", submit |-> "poll"]

Fill ==
  /\ pc = "fill"
  /\ bufs' = [bufs EXCEPT ![slot] = n]
  /\ pc' = NextStep.fill
  /\ UNCHANGED <<core_vars, in_use, count_vars, voice, want, n, slot, done>>

AddQueued ==
  /\ pc = "add"
  /\ queued_frames' = queued_frames + n
  /\ pc' = NextStep.add
  /\ UNCHANGED <<core_vars, pool_vars, started, min_queued, starvations, voice,
                 want, n, slot, done>>

SubmitSourceBuffer ==
  /\ pc = "submit"
  /\ voice' = Append(voice, [slot |-> slot, frames |-> n])
  /\ started' = TRUE
  /\ pc' = NextStep.submit
  /\ UNCHANGED <<core_vars, pool_vars, queued_frames, min_queued, starvations,
                 want, n, slot, done>>

SubmitFails ==
  /\ pc = "submit"
  /\ pc' = "refund"
  /\ in_use' = [in_use EXCEPT ![slot] = FALSE]
  /\ UNCHANGED <<core_vars, bufs, count_vars, voice, want, n, slot, done>>

\* The saturating subtract, one exchange that succeeds.
Shrunk(frames) ==
  IF queued_frames > frames THEN queued_frames - frames ELSE 0

\* Faulty variant: a failed submit leaves its frames counted.
KeepRefund ==
  /\ pc = "refund"
  /\ pc' = "poll"
  /\ UNCHANGED <<core_vars, pool_vars, count_vars, voice, want, n, slot, done>>
Refund ==
  /\ pc = "refund"
  /\ queued_frames' = Shrunk(n)
  /\ pc' = "poll"
  /\ UNCHANGED <<core_vars, pool_vars, started, min_queued, starvations, voice,
                 want, n, slot, done>>

\* What a submit does on a destroyed output is undefined: it may get through,
\* its samples lost, or never return.
LostSubmit ==
  /\ pc = "lost"
  /\ pc' = "poll"
  /\ UNCHANGED <<core_vars, pool_vars, count_vars, voice, want, n, slot, done>>

-----------------------------------------------------------------------------
\* The audio engine's thread: a buffer has been played, on_buffer_end frees
\* its slot under the lock and then shrinks the backlog.
BufferEnd ==
  /\ voice # <<>>
  /\ done = 0
  /\ done' = bufs[Head(voice).slot]
  /\ in_use' = [in_use EXCEPT ![Head(voice).slot] = FALSE]
  /\ voice' = Tail(voice)
  /\ UNCHANGED <<core_vars, bufs, count_vars, feeder_vars>>

ShrinkQueued ==
  /\ done > 0
  /\ queued_frames' = Shrunk(done)
  /\ done' = 0
  /\ UNCHANGED <<core_vars, pool_vars, started, min_queued, starvations, voice,
                 feeder_vars>>

-----------------------------------------------------------------------------
Application ==
  \/ \E kind \in {"push", "pull"} : StartCore(kind)
  \/ \E opened \in BOOLEAN : open_audio(opened)
  \/ reload_content
  \/ set_paused
  \/ \E next \in {"none", "push", "pull"} : destroy_core(next)
  \/ reset
  \/ close

Feeder ==
  \/ on_audio_want
  \/ \E frames \in 1..Chunk : RunFrame(frames)
  \/ on_audio_sample
  \/ Pick \/ Fill \/ AddQueued \/ SubmitSourceBuffer \/ SubmitFails \/ Refund

Engine == BufferEnd \/ ShrinkQueued

Next == Application \/ Feeder \/ LostSubmit \/ Engine

Spec == Init /\ [][Next]_vars

\* A pulling thread polls every 5 ms and its steps do not block; an open voice
\* plays what is queued on it.  Nothing obliges the application to act, nor a
\* submit on a destroyed output to return.
FairSpec == Spec /\ WF_vars(Feeder) /\ WF_vars(Engine)

-----------------------------------------------------------------------------
\* The type of the audio path's state.
TypeOK ==
  /\ core \in {"none", "push", "pull", "stopping"}
  /\ after \in {"none", "push", "pull"}
  /\ {opening, open, paused, started} \subseteq BOOLEAN
  /\ in_use \in [Slots -> BOOLEAN]
  /\ bufs \in [Slots -> 0..Chunk]
  /\ queued_frames \in Nat
  /\ min_queued \in 0..Infinity
  /\ starvations \in 0..MaxStarvations
  /\ voice \in Seq([slot : Slots, frames : 1..Chunk])
  /\ pc \in {"poll", "pick", "fill", "add", "submit", "refund", "lost"}
  /\ want \in Nat /\ n \in 0..Chunk /\ slot \in Slots
  /\ done \in 0..Chunk

\* Frames the feeder has counted and not yet put on the voice or taken back.
InHand == IF pc \in {"submit", "refund"} THEN n ELSE 0

\* t[i] is the number of frames of the i oldest buffers on the voice.
RunningTotal(t) ==
  /\ t[0] = 0
  /\ \A i \in DOMAIN voice : t[i] = t[i - 1] + voice[i].frames

\* The backlog the feeder steers by is exact: it counts the frames queued on
\* the voice, those of a callback between its two steps and those of a submit
\* under way, never less and, what would starve the output, never more, however
\* the feeder's and the engine's accesses to queued_frames_ interleave.
BacklogExact ==
  \E t \in [0..Len(voice) -> 0..queued_frames] :
    RunningTotal(t) /\ queued_frames = t[Len(voice)] + done + InHand

\* A buffer on the voice keeps its slot and its samples until it has been
\* played: no submit reuses the slot of a buffer in flight, and a failed submit
\* or a callback frees only its own.
VoiceBuffersIntact ==
  /\ \A i \in DOMAIN voice :
       in_use[voice[i].slot] /\ bufs[voice[i].slot] = voice[i].frames
  /\ \A i, j \in DOMAIN voice : voice[i].slot = voice[j].slot => i = j
  /\ pc \in {"fill", "add", "submit"} =>
       in_use[slot] /\ \A i \in DOMAIN voice : voice[i].slot # slot

\* unload_core joins the feeder before it closes the output, so the feeder is
\* never inside submit on an output that was closed.  An output that open_audio
\* replaces is destroyed under a submit only of a presenting core, whose thread
\* load_content does not stop, and the core's destroy still waits for it.
NoSubmitAfterClose ==
  /\ pc # "poll" => open /\ core # "none"
  /\ pc = "lost" => core # "push" /\ after # "push"

\* Not so: the slice L design closes the output last, "no callback races", but
\* reset starts the new core on the output of the old one, and a second
\* load_content finds the core running; open_audio then destroys that output.
OutputOutlivesSubmit == pc # "lost"

\* The pulling feeder fills the output up to its target and no further, and it
\* never meets a full pool: nothing it was asked for is dropped for want of a
\* slot.
PullFits ==
  core = "pull" => /\ queued_frames <= Target
                   /\ pc = "pick" => FreeSlots # {}

\* While a pulling core plays, the output never stops asking it for samples,
\* unless the feeder is caught in a submit on an output that was replaced.
PlaysOn ==
  <>[](core = "pull" /\ open /\ ~paused /\ pc # "lost") => []<>(pc = "fill")
=============================================================================
