---------------------------- MODULE SurfaceHandoff ----------------------------
(***************************************************************************)
(* The hand-off of rendered frames from a presenting core to the host       *)
(* through a ring of shared images and two timeline semaphores: the core's  *)
(* render loop (src/cores/refcore_present_vk/RefCoreVk.cpp), the ring of    *)
(* atomics (src/src/render/SurfaceRing.cpp) and the host's composite        *)
(* (src/src/render/vulkan/VulkanBackend.cpp), each on its own thread and    *)
(* with its own GPU queue, within one generation of surfaces.               *)
(*                                                                          *)
(* Frames are numbered 1, 2, ...; the core signals 2*f on the produce       *)
(* timeline when frame f is rendered, the host 2*f + 1 on the consume       *)
(* timeline when it has read it.  accept_submit and latest_ready are one    *)
(* step per atomic access.                                                  *)
(*                                                                          *)
(* Two cores wait for a slot in different ways.  Dolphin's thread waits on  *)
(* the consume timeline before it renders, and renders all the same when    *)
(* five seconds have passed (AcquireNextImage in                            *)
(* src/docs/patches/dolphin-external-present.patch, which counts frames     *)
(* from 0).  RefCoreVk's queue waits on the produce timeline.               *)
(*                                                                          *)
(* A composite may return an error after it submitted its commands: the     *)
(* fence timed out, the present or the readback failed.  The commands run   *)
(* on, and the frame is not recorded as presented.                          *)
(***************************************************************************)
EXTENDS Integers, Sequences

CONSTANTS
  SlotCount,       \* slot_count_
  HonoursConsume,  \* TRUE: Dolphin's wait, on the consume timeline, as
                   \* retropark_abi.h asks for; FALSE: RefCoreVk's
  LastFrame,       \* bound: frames the core renders
  MaxFailures      \* bound: composites that fail

\* A single shared image follows another protocol (VulkanBackend.cpp, 533).
ASSUME SlotsAssumption == SlotCount \in Nat /\ SlotCount >= 2
ASSUME ConsumeAssumption == HonoursConsume \in BOOLEAN
ASSUME LastFrameAssumption == LastFrame \in Nat
ASSUME FailuresAssumption == MaxFailures \in Nat

VARIABLES
  f,                  \* the core thread's frame counter
  core_pc,            \* "render", "index", "sync" or "flag"
  jobs,               \* frames submitted to the core's queue, not yet rendered
  writing,            \* the frame the core's GPU is rendering, 0 for none
  contents,           \* slot -> frame whose pixels it holds, 0 for none
  produce, consume,   \* values of the two timelines
  has_ready, ready_index, ready_sync,
  host_pc,            \* "present", "index", "sync", "composite" or "wait"
  index, sync,        \* what latest_ready returned; last_ready_idx_, _sv_
  new_frame, last_present_sync,
  paused,
  reads,              \* composites submitted to the host's queue, not yet done
  reading,            \* the first of them is running
  fence,              \* composite_fence_ is signalled
  failures,
  forced,             \* history: frames rendered without their slot's release
  unrecorded          \* history: values whose composite failed once submitted

core_vars == <<f, core_pc, jobs>>
gpu_vars == <<writing, contents, produce>>
ring_vars == <<has_ready, ready_index, ready_sync>>
host_vars == <<host_pc, index, sync, new_frame, last_present_sync, paused>>
queue_vars == <<reads, reading, fence, consume>>
failure_vars == <<failures, unrecorded>>
vars == <<core_vars, gpu_vars, ring_vars, host_vars, queue_vars, failure_vars,
          forced>>

Slots == 0..(SlotCount - 1)
SlotOf(frame) == frame % SlotCount

\* The produce value of a frame.
SignalValue(frame) == 2 * frame
FrameOf(value) == value \div 2

Init ==
  /\ f = 0 /\ core_pc = "render" /\ jobs = <<>>
  /\ writing = 0 /\ contents = [s \in Slots |-> 0] /\ produce = 0
  /\ has_ready = FALSE /\ ready_index = 0 /\ ready_sync = 0
  /\ host_pc = "present" /\ index = 0 /\ sync = 0 /\ new_frame = FALSE
  /\ last_present_sync = 0 /\ consume = 0 /\ paused = FALSE
  /\ reads = <<>> /\ reading = FALSE /\ fence = FALSE
  /\ failures = 0 /\ forced = {} /\ unrecorded = {}

-----------------------------------------------------------------------------
\* The core's thread.

\* What has to be signalled before a frame may go into its slot: the release
\* of the frame that was in it.
\* Faulty variant: the release of the frame before that one.
EarlyReuse(frame) ==
  IF frame > SlotCount THEN 2 * (frame - SlotCount) - 1 ELSE 0
ReuseValue(frame) ==
  IF frame > SlotCount THEN 2 * (frame - SlotCount) + 1 ELSE 0

Pending(frame) == frame = writing \/ \E i \in DOMAIN jobs : jobs[i] = frame

\* With the slot's last commands retired, record and submit to the queue.
SubmitFrame ==
  /\ core_pc = "render"
  /\ f < LastFrame
  /\ ~\E g \in 1..f : SlotOf(g) = SlotOf(f + 1) /\ Pending(g)
  /\ f' = f + 1
  /\ jobs' = Append(jobs, f + 1)
  /\ core_pc' = "index"
  /\ UNCHANGED <<gpu_vars, ring_vars, host_vars, queue_vars, failure_vars>>

Render ==
  /\ HonoursConsume => consume >= ReuseValue(f + 1)
  /\ SubmitFrame
  /\ UNCHANGED forced

\* Five slices of a second without the release: the slot is used all the same.
GiveUp ==
  /\ HonoursConsume /\ consume < ReuseValue(f + 1)
  /\ SubmitFrame
  /\ forced' = forced \union {f + 1}

\* submit_frame: SurfaceRing::accept_submit, store by store.
StoreIndex ==
  /\ core_pc = "index"
  /\ ready_index' = SlotOf(f)
  /\ core_pc' = "sync"
  /\ UNCHANGED <<f, jobs, gpu_vars, has_ready, ready_sync, host_vars,
                 queue_vars, failure_vars, forced>>

StoreSync ==
  /\ core_pc = "sync"
  /\ ready_sync' = SignalValue(f)
  /\ core_pc' = "flag"
  /\ UNCHANGED <<f, jobs, gpu_vars, has_ready, ready_index, host_vars,
                 queue_vars, failure_vars, forced>>

StoreFlag ==
  /\ core_pc = "flag"
  /\ has_ready' = TRUE
  /\ core_pc' = "render"
  /\ UNCHANGED <<f, jobs, gpu_vars, ready_index, ready_sync, host_vars,
                 queue_vars, failure_vars, forced>>

\* The core's queue runs its jobs in order.  RefCoreVk's wait is on the produce
\* timeline, whose values its own jobs signal too.
BeginWrite ==
  /\ jobs # <<>>
  /\ writing = 0
  /\ ~HonoursConsume => produce >= ReuseValue(Head(jobs))
  /\ writing' = Head(jobs)
  /\ jobs' = Tail(jobs)
  /\ UNCHANGED <<f, core_pc, contents, produce, ring_vars, host_vars,
                 queue_vars, failure_vars, forced>>

EndWrite ==
  /\ writing # 0
  /\ contents' = [contents EXCEPT ![SlotOf(writing)] = writing]
  /\ produce' = 2 * writing
  /\ writing' = 0
  /\ UNCHANGED <<core_vars, ring_vars, host_vars,
                 queue_vars, failure_vars, forced>>

-----------------------------------------------------------------------------
\* The host's thread: render(), with latest_ready load by load.
LoadFlag ==
  /\ host_pc = "present"
  /\ ~paused
  /\ has_ready
  /\ host_pc' = "index"
  /\ UNCHANGED <<core_vars, gpu_vars, ring_vars, index, sync, new_frame,
                 last_present_sync, paused, queue_vars, failure_vars, forced>>

LoadIndex ==
  /\ host_pc = "index"
  /\ index' = ready_index
  /\ host_pc' = "sync"
  /\ UNCHANGED <<core_vars, gpu_vars, ring_vars, sync, new_frame,
                 last_present_sync, paused, queue_vars, failure_vars, forced>>

\* Faulty variant: a frame already composited counts as new.
AnyFrame(value) == value > 0
IsNew(value) == value > last_present_sync

LoadSync ==
  /\ host_pc = "sync"
  /\ sync' = ready_sync
  /\ new_frame' = IsNew(ready_sync)
  /\ host_pc' = "composite"
  /\ UNCHANGED <<core_vars, gpu_vars, ring_vars, index, last_present_sync,
                 paused, queue_vars, failure_vars, forced>>

\* Paused, render() takes the frame it had last instead.
Repeat ==
  /\ host_pc = "present"
  /\ paused
  /\ sync # 0
  /\ new_frame' = IsNew(sync)
  /\ host_pc' = "composite"
  /\ UNCHANGED <<core_vars, gpu_vars, ring_vars, index, sync,
                 last_present_sync, paused, queue_vars, failure_vars, forced>>

\* pause and resume, between two presents: the core is not told.
TogglePause ==
  /\ host_pc = "present"
  /\ paused' = ~paused
  /\ UNCHANGED <<core_vars, gpu_vars, ring_vars, host_pc, index, sync,
                 new_frame, last_present_sync, queue_vars,
                 failure_vars, forced>>

\* The commands of a composite: what they sample and, for a new frame, the
\* values waited for and signalled.
Composite == [index |-> index, sync |-> sync, new |-> new_frame]

\* There is one command buffer and one fence.  Recording over commands that
\* have not run yet may make them sample the new slot.
Rerecorded(i) ==
  IF reading /\ i = 1 THEN {reads[i].index} ELSE {reads[i].index, index}

\* The fence is reset, the commands recorded and submitted.
Submit ==
  /\ host_pc = "composite"
  /\ \E slot \in [DOMAIN reads -> Slots] :
       /\ \A i \in DOMAIN reads : slot[i] \in Rerecorded(i)
       /\ reads' = Append([i \in DOMAIN reads |->
                             [reads[i] EXCEPT !.index = slot[i]]], Composite)
  /\ fence' = FALSE
  /\ host_pc' = "wait"
  /\ UNCHANGED <<core_vars, gpu_vars, ring_vars, index, sync, new_frame,
                 last_present_sync, paused, reading, consume, failure_vars,
                 forced>>

\* The fence is reached and the frame is on record.
Presented ==
  /\ host_pc = "wait"
  /\ fence
  /\ last_present_sync' = IF new_frame THEN sync ELSE last_present_sync
  /\ host_pc' = "present"
  /\ UNCHANGED <<core_vars, gpu_vars, ring_vars, index, sync, new_frame,
                 paused, queue_vars, failure_vars, forced>>

\* An error before the submission, or after it, where the commands run on.
CompositeFails ==
  /\ host_pc \in {"composite", "wait"}
  /\ failures < MaxFailures
  /\ failures' = failures + 1
  /\ unrecorded' = IF host_pc = "wait" /\ new_frame
                     THEN unrecorded \union {sync} ELSE unrecorded
  /\ host_pc' = "present"
  /\ UNCHANGED <<core_vars, gpu_vars, ring_vars, index, sync, new_frame,
                 last_present_sync, paused, queue_vars, forced>>

-----------------------------------------------------------------------------
\* The host's queue, in order: a new frame waits for the produce timeline, a
\* repeat samples the image again at once.

\* Faulty variant: the release is never signalled.
NoRelease(job) == consume
Released(job) == IF job.new THEN job.sync + 1 ELSE consume

BeginRead ==
  /\ reads # <<>> /\ ~reading
  /\ reads[1].new => produce >= reads[1].sync
  /\ reading' = TRUE
  /\ UNCHANGED <<core_vars, gpu_vars, ring_vars, host_vars, reads, fence,
                 consume, failure_vars, forced>>

EndRead ==
  /\ reading
  /\ reads' = Tail(reads)
  /\ reading' = FALSE
  /\ fence' = TRUE
  /\ consume' = Released(reads[1])
  /\ UNCHANGED <<core_vars, gpu_vars, ring_vars, host_vars, failure_vars,
                 forced>>

CoreThread == Render \/ StoreIndex \/ StoreSync \/ StoreFlag
CoreQueue == BeginWrite \/ EndWrite
Host == LoadFlag \/ LoadIndex \/ LoadSync \/ Repeat \/ Submit \/ Presented
HostQueue == BeginRead \/ EndRead

Next ==
  CoreThread \/ GiveUp \/ CoreQueue \/ Host \/ CompositeFails \/ HostQueue
    \/ TogglePause

Spec == Init /\ [][Next]_vars

\* Both threads run, and both GPUs get on with what they can do.  A core that
\* waits need not give up.
FairSpec ==
  /\ Spec
  /\ WF_vars(CoreThread) /\ WF_vars(CoreQueue)
  /\ WF_vars(Host) /\ WF_vars(HostQueue)

-----------------------------------------------------------------------------
\* Types.
TypeOK ==
  /\ f \in 0..LastFrame
  /\ core_pc \in {"render", "index", "sync", "flag"}
  /\ jobs \in Seq(1..LastFrame)
  /\ writing \in 0..LastFrame
  /\ contents \in [Slots -> 0..LastFrame]
  /\ produce \in 0..(2 * LastFrame)
  /\ consume \in 0..(2 * LastFrame + 1)
  /\ has_ready \in BOOLEAN
  /\ {ready_index, index} \subseteq Slots
  /\ {ready_sync, sync, last_present_sync} \subseteq 0..(2 * LastFrame)
  /\ host_pc \in {"present", "index", "sync", "composite", "wait"}
  /\ {new_frame, paused, reading, fence} \subseteq BOOLEAN
  /\ reads \in Seq([index : Slots, sync : 0..(2 * LastFrame), new : BOOLEAN])
  /\ failures \in 0..MaxFailures
  /\ forced \subseteq 1..LastFrame

\* What latest_ready returned belongs to one submit: "synchronized via
\* acquire/release on has_ready_" (SurfaceRing.h).  The code does not keep this.
PairConsistent ==
  host_pc \in {"composite", "wait"} => index = SlotOf(FrameOf(sync))

\* The frame being read, its slot and its value from one submit, is whole: the
\* core's GPU is not writing that slot and has not put a later frame there,
\* except for one of the frames given.
ReadsWhole(except) ==
  reading /\ reads[1].index = SlotOf(FrameOf(reads[1].sync)) =>
    /\ writing # 0 /\ SlotOf(writing) = reads[1].index => writing \in except
    /\ contents[reads[1].index] \in {FrameOf(reads[1].sync)} \union except

\* A new frame is read whole until its release is signalled (retropark_abi.h:
\* "the core ONLY waits on it before REUSING a slot"): a frame that waited for
\* its slot never disturbs it, whatever composites failed before and whatever
\* frames were forced.  A frame that did not wait may, although Dolphin's patch
\* says "no corruption" of its five slices.
NewFrameIntact ==
  reading /\ reads[1].new /\ consume <= reads[1].sync => ReadsWhole(forced)

\* A paused display shows the frame it was paused on: "the compositor freezes
\* on the last frame ... the core keeps simulating underneath" (retropark.h).
\* The code does not keep this: the frame's slot was released when first shown.
FrozenFrameIntact == paused => ReadsWhole({})

\* Every signal is to a value its timeline has not reached, as a timeline
\* semaphore demands: "leave each timeline strictly increasing"
\* (composite_and_present).  The code does not keep this: a frame whose
\* composite failed once submitted counts as new again.
SignalsStrict ==
  /\ reading /\ reads[1].new => reads[1].sync + 1 > consume
  /\ writing # 0 => 2 * writing > produce

\* No timeline ever falls, and only a composite that failed makes the host
\* signal a value again, that of the frame it failed on.
SignalsIncrease ==
  /\ reading /\ reads[1].new =>
       \/ reads[1].sync + 1 > consume
       \/ reads[1].sync + 1 = consume /\ reads[1].sync \in unrecorded
  /\ writing # 0 => 2 * writing > produce

\* Neither side waits for the other for ever: unless the display is left
\* paused, or paused again and again, the last frame is shown.
LastFrameShown == <>[]~paused => <>[](last_present_sync = 2 * LastFrame)
=============================================================================
