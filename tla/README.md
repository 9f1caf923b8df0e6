# TLA+ verification of RetroPark

RetroPark is a host runtime for emulator cores: it loads a core through a C ABI,
feeds it content and input, composites its frames, plays its audio, saves and
rewinds its state, and links two machines for netplay. This directory holds TLA+
models of its core logic, TLC runs that check them on small instances, and
TLAPS proofs about them. Paths below start at the repository root (`src/src/...`
in `PROJECT.json` is `src/...` here).

    tlc -workers 2 -config MCRollback.cfg MCRollback     # one run
    tlapm RollbackSessionProofs.tla                      # the proofs of one module
    for m in *Proofs.tla; do tlapm $m; done              # all of them

## 1. Inventory

| Component | State | Operations | Interacts with |
|---|---|---|---|
| **RollbackSession** `src/net/RollbackSession.*`, `RollbackPredict.*` | `frame_`, `confirmed_`, `verified_`, snapshots `ring_`, inputs `local_`/`remote_`/`used_`, checksums | `start_host`, `start_join`, `tick` | transport (send, non-blocking recv), runtime (`advance`, `render`, `save_state`, `load_state`) |
| **NetSession** `src/net/NetSession.*` | `frame_`, `delay_`, `local_pending_`, `remote_pending_`, checksums | `start_host`, `start_join`, `tick_send`, `tick_recv_and_advance` | transport (blocking recv with timeout), runtime (`present`) |
| **NetProtocol, Crc32** | none | encode and decode of four messages | both sessions |
| **LoopbackTransport, TcpTransport** | a queue per direction, open flags; a socket | `send`, `recv`, `close` | sessions, the network |
| **Runtime** `src/runtime/Runtime.*` | the loaded core and its type, content flags and path, last delivered frame `dr_*`, pause, rewind ring, last ready slot, audio | the `rp_runtime_*` calls, host callbacks | loader, backend, surface ring, audio |
| **CoreLoader**, modules, registry, manifest `src/loader/` | `Unloaded/Loaded/Created/Started` | `load`, `create`, `set_surfaces`, `start`, `stop`, `run_frame`, `serialize`, `destroy` | the core's ABI |
| **SurfaceRing** `src/render/SurfaceRing.*` | generation, atomics `has_ready_`, `ready_index_`, `ready_sync_` | `reallocate`, `accept_submit` (core thread), `latest_ready` (host thread) | runtime, presenting cores |
| **VulkanBackend, D3D11Backend, GLBackend** | surfaces, timelines or keyed mutexes, `last_present_sync_` | `initialize`, `allocate_surfaces`, `composite_*` | runtime, the core's GPU queue |
| **XAudio2Output, AudioPool** | buffers in use, `queued_frames_` | `submit`, `on_buffer_end` (device thread), `want_frames` | runtime |
| **Cores** `cores/` | reference cores, the libretro shim, manifests of Dolphin and RPCS3 | the core ABI | runtime |
| **Windowed harness** `harness/windowed` | none of its own | the frame loop | sessions, runtime |

What is hard here, and so what the models are for (the full list, line by line,
is under `hazards` in `PROJECT.json`):

* two peers tick independently over delayed messages; rollback rewrites history
  while `prune` deletes it;
* ticks that stall or time out are repeated by the caller;
* every runtime call has several steps that may fail half way, and destroys
  objects that other fields point into;
* a core thread, its GPU queue, the host thread and its GPU queue share three
  images, with no lock (Vulkan) or with keyed mutexes and time-outs (D3D11);
* messages are framed on a byte stream that the network cuts anywhere and that
  may end, break or stay silent;
* the audio engine calls back between any two steps of the thread that feeds it;
* a Vulkan call creates up to a dozen objects, any of which may fail, and may
  return while the GPU still uses them;
* a libretro core, the shim and the host draw with OpenGL contexts of which one
  is current, and the core's frames are pointers and textures that die with it.

What makes each component correct:

* sessions: both machines play the same game, the one both players' inputs
  define; whatever a rollback needs is still there; a real desync is reported
  and a false one never; nobody waits for ever;
* runtime: flags and loader agree between calls whatever failed; nothing points
  into a destroyed instance; the rewind ring is the history on screen;
* hand-off: a frame is read whole, timelines only rise, neither side blocks the
  other; the core only draws into the set of surfaces the host reads;
* transport and start: messages arrive whole and in order, sessions that start
  agree on delay, content and state, and a lost partner is noticed;
* audio: the backlog is counted exactly, no playing buffer is touched, the feeder
  neither overfills nor starves;
* backends: every object is owned once, whatever failed, and a frame fits the
  image it is copied to;
* shim: the core runs in its own context and with the options that were set, and
  the frame shown is its latest.

## 2. Modules

| Module | Models | State and actions |
|---|---|---|
| `Netplay` | what the sessions share | input pairs, core states, frame maps, wire messages |
| `Lockstep` | abstract specification | each player commits one input per frame, each machine replays both |
| `RollbackSession` | rollback netplay | one variable per member, per peer; `BeginTick` (step 1), `DrainInput`/`DrainChecksum`/`DrainError` (one recv), `EndTick` (steps 3 to 6, with the set of saves that fail), `Close` |
| `NetSession` | delay-based lockstep | `TickSend`, `RecvInput`/`RecvChecksum`/`Timeout`/`RecvError` (one recv), `Advance`, `Close` |
| `Runtime` | runtime, loader, rewind ring | one record `rt`; every function is an operator from state to state named after it, every public call an action, with the step that fails as a parameter |
| `SurfaceHandoff` | surface ring, Vulkan composite, presenting core | core thread (`Render`, `StoreIndex`, `StoreSync`, `StoreFlag`), `GiveUp` (the wait for a slot ends without it), core queue (`BeginWrite`, `EndWrite`), host (`LoadFlag`, `LoadIndex`, `LoadSync`, `Repeat`, `Submit`, `Presented`), `CompositeFails` (an error once the commands are submitted), host queue (`BeginRead`, `EndRead`), `TogglePause` |
| `TcpSession` | `TcpTransport`, the handshakes and state transfer of both sessions | two peers: `wsa_startup`, `SetUpStep`, `SetUpFails`, `connect`, `accept`, `SendHello`/`SendState`/`SendInput`, `ReadPiece`/`ReadLength`/`Return` (one recv), `Timeout` (ends a start and a rollback session, not a lockstep one), `RecvFails`, `close`, `Quit`, `Break` |
| `AudioOutput` | `XAudio2Output`, `AudioPool`, the runtime's audio calls | application (`StartCore`, `open_audio`, `reload_content`, `set_paused`, `destroy_core`, `reset`, `close`), `LostSubmit` (a submit on an output that was replaced), feeder (`want_frames`/`on_audio_want` or `RunFrame`, then `Pick`, `Fill`, `AddQueued`, `SubmitSourceBuffer` or `SubmitFails`, `Refund`), engine (`BufferEnd`, `ShrinkQueued`) |
| `KeyedHandoff` | `D3D11Backend`'s surfaces and composite, `refcore_present`, the ring | core thread (`NextSlot`, `CoreAcquire`, `Draw`, `CoreRelease`, `submit_frame`), host (`EnsureTarget`, `BeginComposite`, `HostAcquire`, `HostRelease`, `ReadPixel`), resize (`StopCore`, `allocate_surfaces`, `reallocate`, `set_surfaces`) |
| `VkBackend` | the objects of `VulkanBackend` and `VulkanCompositor` | `handles` (what the members hold) and `live` (what exists), per group of objects; one action per function or per half of one, with the number of objects it manages to create as a parameter |
| `LibretroShim` | the shim, `HwRenderGL`, the runtime's video callbacks, `GLBackend` | options (`sh_core_option_set`, `GetVariableUpdate`), loading (`sh_create`, `sh_load_content`, `LoadGame`, `setup`, `SetupFails`, `Unwind`, `ContextReset`), frames (`sh_run_frame`, `retro_run`, `render`, `resize`), `sh_serialize` (and `sh_unserialize`), the end (`unload_core`, `reset`, `CoreEnds`, `Deleted`) |
| `RollbackSessionProofs`, `NetSessionProofs`, `TcpSessionProofs`, `RuntimeProofs`, `AudioOutputProofs`, `VkBackendProofs`, `SurfaceHandoffProofs` | | the theorems about the module each is named after (section 5) |
| `CoreProofs` | | the theorems about `LibretroShim` and about `KeyedHandoff`, which it extends both; therefore `KeyedHandoff` names its specification `HandoffSpec` |
| `MC*` | | constants for TLC |

Both session modules `INSTANCE Lockstep` with a refinement mapping:
the committed inputs are those in the core plus those waiting to be applied; the
game is the core's state in `NetSession`, and its verified prefix in
`RollbackSession`.

Abstractions:

* A core is deterministic and sensitive to every input, so its state before
  frame f *is* the sequence of f input pairs. Saving copies it, loading replaces
  it, and a CRC is taken to be collision-free. `advance` does not fail for a
  core that has its content, so the two `Desync` returns for that are left out;
  the one for `load_state` is in (`FailTick`). With `SavesFail`, any save of a
  tick may fail (nothing is stored, what was there stays) or store the empty blob
  of a core without states, which `load_state` refuses. The runs have it FALSE,
  as `RollbackPossible`, `RingOnTimeline`, `InputsOnTimeline` and `Convergence`
  are false with it (section 4); `TypeOK` and `RollbackBudget` are proved for both
  values.
* The replay loop of `RollbackSession::tick` is in closed form
  (`ReconciledCore`, `ReconciledRing`, `ReconciledUsed`).
* The transport is reliable and ordered; `Close` takes it down at any moment and
  either side notices when it next sends or receives.
* In `Runtime` the emulated machine is a clock, a pointer is to the instance
  ("live"), to its OpenGL context ("context"), to one that a second load replaced
  ("replaced") or to nothing any more ("freed"); surfaces are "current", "old" or
  "lost". `disturbed` records that something other than
  play and rewind has moved the machine (`load_state`, a failed capture, new
  content), after which the ring is no history. Image sizes, FPS, input
  and audio counters are left out.
* In `SurfaceHandoff` one generation of surfaces is followed. Dolphin's five
  seconds of patience may end at any moment before the release comes (`GiveUp`):
  the frame is rendered all the same, and `forced` records it. A composite may
  return an error after its commands were submitted (`CompositeFails`: the fence
  times out, the present or the readback fails); they run on, share the fence with
  the next composite, and the frame counts as new again (`unrecorded`). RefCoreVk's
  own fence timeout ends its thread, which is a core that stops: `Spec` lets it.
* In `TcpSession` a byte is the message it belongs to and its place in it, a
  header two bytes; bytes that are no header may tell any length. Both peers
  share one Winsock count, as in the tests. `cut` records that a receive gave up
  inside a frame, after which what that peer receives is not logged. ABI
  version, content hash and core id are `build`. Both peers run the same kind of
  session: a lockstep peer against a rollback peer is not covered.
* In `AudioOutput` every access to `queued_frames_` and every critical section
  is a step. A chunk is at most `Chunk` frames. A partly failed `open` is one
  that does not open. `reset` and a second `load_content` keep the output open and
  `open_audio` replaces it: a feeder that is inside `submit` then is on an output
  that is gone (`pc = "lost"`), where it may be until the core ends or its call
  returns (`LostSubmit`). Asking (`want_frames` with `on_audio_want`) is one step.
* In `KeyedHandoff` a mutex is its key or `Held`; either side's acquire may time
  out. What a texture holds is "none", "new" (drawn since it was last read) or
  "read".
* In `VkBackend` a group of objects that are created and destroyed together is a
  count; which object of the group failed is how far the count got. Swapchain
  resizing, layouts and what the GPU still uses are left out; the timelines'
  values and composites that time out are in `SurfaceHandoff`.
* In `LibretroShim` a frame is its number, a context is "host", "shim" or none,
  a texture is the load that made it. A core reads its options when it loads and
  when the latch tells it to, and draws with OpenGL only once `context_reset`
  was called. A frame fits or does not fit the size read when its content was
  loaded ("big", `dr_fits`). `reloaded` records that content was loaded into an
  instance that has a game and no frame was drawn since.

Operators marked "Faulty variant" are not part of any specification: each is a
plausible mistake in the definition after it, and replacing that definition by it
must make the named property fail (`mutants` in `PROJECT.json`).

## 3. Runs

| Run | Instance | Distinct states | Shows |
|---|---|---|---|
| `rollback` | window 1, checksum every 2, 5 frames, 2 messages in flight, 3 free choices of input, saves succeed | 198 795 | nine properties below |
| `lockstep` | delay 3, checksum every 2, 8 frames, one timeout per peer | 236 424 | five properties below |
| `runtime` | 4 cores (driven/presenting, with/without content), 1 content, ring limit 2, clock to 3, every failing step of every call | 240 570 | four properties below |
| `handoff` | 3 slots, 6 frames, one failed composite, pausing, a core that waits on the consume timeline and may give up | 1 745 917 | three properties below |
| `audio` | pool of 3, target 5 frames, chunks of up to 2, push and pull cores | 97 945 | five properties below |
| `tcp` | delays 0 and 2, both kinds of session, all mismatches of ABI, content and core, one input each | 96 484 | four properties below |
| `keyed` | 3 slots, 3 generations of surfaces | 190 400 | three properties below |
| `vkbackend` | two slots, two swap images, two frame sizes, 2 failures | 364 746 | two properties below |
| `shim` | one option with 2 values, 3 frames, 3 contexts, OpenGL and other hosts | 2 260 347 | four properties below |
| `rollback_retick` | as `rollback`, a new input when a stalled frame is ticked again | violation | `Convergence` fails |
| `rollback_desync` | the same | violation | `DesyncReported` fails |
| `handoff_refcore` | RefCoreVk's wait | violation | `NewFrameIntact` fails |

`rollback`: `RollbackPossible` (no snapshot or input that a rollback may need is
pruned), `RingOnTimeline` and `InputsOnTimeline` (snapshots and recorded inputs
belong to the timeline being played), `Convergence` (verified frames agree),
`NoFalseDesync`, `RollbackBudget` (no more rollbacks than verified frames),
`ImplementsLockstep` (refinement), `Progress`, `TypeOK`.

`lockstep`: `NoInputLost`, `ChecksumsMeet` (no checksum is pruned before its
counterpart comes, while the delay is below two intervals), `BoundedLead`,
`ImplementsLockstep`, `Progress`.

`runtime`: `LifecycleConsistent`, `NoDangling`, `FrozenFrameCurrent`,
`RewindHistory`.

`handoff`: `NewFrameIntact` (a frame that waited for its slot never disturbs one
being read), `SignalsIncrease` (no timeline falls, and only a failed composite
makes a value be signalled again), `LastFrameShown`.

`audio`: `BacklogExact` (the counter is the voice's backlog, as a running total of
its buffers, plus what is between two steps), `VoiceBuffersIntact`, `NoSubmitAfterClose`, `PullFits` (a puller
never overfills nor meets a full pool), `PlaysOn`.

`tcp`: `WsaBalanced`, `StartAgrees`, `FramesIntact` (what is received is what was
sent, whole and in order, up to the first receive that gave up inside a frame),
`PartnerLossNoticed`.

`keyed`: `CoreOnCurrentSet`, `ReadsNewFrame` (no drawing is taken twice, so a
paused present is refused), `DisplayGoesOn`.

`vkbackend`: `OwnedOnce`, `UploadFits`.

`shim`: `CoreOnOwnContext`, `TexturesOwned`, `NoStaleOption`, `ShowsLatest`.

The properties not named in a run are documentation (`TypeOK` of the modules that
need no type lemma) or claims that the code does not keep (section 4).

**Why the bounds are enough.** A window of 1 makes stalls, mispredictions, a
rollback over two frames and a second rollback over the same frames happen
within five frames; the prune floor is reached (slack 3), and two checksums are
exchanged (frames 2 and 4). In `lockstep` the delay is the largest that
`ChecksumsMeet` allows, and both prunes delete: inputs, and the checksums of
frames 0 and 2. The ring limit of 2 is reached
and passed before the clock stops. Six frames go round the three slots twice, so
that every slot is reused, waited for and forced. The audio target takes all three slots (2, 2 and 1 frames), so the
pool fills and a push core drops. Over TCP each direction carries two or three
messages, cut at every byte, and a frame given up leaves a rest to be misread.
Three generations allow a resize after one that failed, and more surfaces,
images or sizes in `VkBackend` only repeat what one or two do (the theorems
cover them); two failures are a failure and one in its repair. Three contexts are those
of a core, of a second load or a reboot, and of another core. `MaxInFlight`, `MaxWaits`, `MaxFrame`,
`MaxTime`, `LastFrame`, `MaxStarvations`, `MaxInputs`, `MaxGeneration`,
`MaxFailures`, `MaxFrames` and `MaxLoads` are the bounds of the models; nothing
else is bounded.

**Fairness.** Sessions: the caller's loop keeps ticking (weak fairness of the
start of a tick), a message in flight is eventually received (strong fairness:
it may come between two ticks) and a drain ends, because a peer sends at most two
messages per displayed frame. The connection need not stay up: `Progress` is
about those behaviours in which it does. Hand-off: both threads run and both GPUs
take the work they can (weak fairness of each). Giving up a slot is not fair; at
most `MaxFailures` composites fail. Pausing is not fair, and
`LastFrameShown` speaks of displays that do not stay paused. Audio: the pulling
thread polls every 5 ms and the engine plays what is queued (weak fairness of
both); the application is under no obligation, and a submit on an output that is
gone need never return. TCP: socket calls return and a
peer inside a start goes on (weak fairness of each peer's steps); time-outs,
breaks and quitting are not fair. Keyed mutexes: the core's thread loops (weak),
and a present that is possible again and again happens (strong: a resize
interrupts it, as both run on the application's thread). `Runtime`, `VkBackend`
and `LibretroShim` claim no liveness. `CHECK_DEADLOCK FALSE` stands where a
system may stop: a session that ended, a destroyed backend, the last frame of
the bound.

## 4. Findings

With a run:

* A stalled rollback tick, repeated with a new input, makes the games diverge
  (`rollback_retick`); the harness does sample a new input. The passing run
  assumes a caller that repeats the input (`HoldOnStall`). `NetSession` has the
  same hazard after a timeout (`HoldOnWait`).
* A checksum mismatch in a rollback session is never reported
  (`rollback_desync`).
* RefCoreVk's reuse wait is satisfied by itself (`handoff_refcore`).

Claims stated in the modules that the code does not keep. Each is shown by adding
the named definition as an `INVARIANT` to a passing configuration:

* `StartedAfterContent` (`MCRuntime.cfg`): `resize` starts a content core before
  its content, against the comment at `src/runtime/Runtime.cpp:213`.
* `RebootsSameContent` (`MCRuntime.cfg` with two contents): a failed
  `load_content` changes what `reset` reboots, against
  `include/retropark/retropark.h:89`.
* `PairConsistent` (`MCHandoff.cfg`): `latest_ready` may mix two submits, against
  `src/render/SurfaceRing.h:24`. The run has mixed pairs: `LastFrameShown` holds
  with them, `NewFrameIntact` speaks of the others.
* `FrozenFrameIntact` (`MCHandoff.cfg`): while the display is paused the core
  renders into the slot shown, against `include/retropark/retropark.h:84`.
* `SignalsStrict` (`MCHandoff.cfg`): a composite that failed after its submit
  (`VulkanBackend.cpp:555`, `:680`) returns before `last_present_sync_` is set, so
  the next present of the frame signals the same value again, against "strictly
  increasing" (`VulkanBackend.cpp:537`). `SignalsIncrease` names that case.
* `NewFrameIntact` with `ReadsWhole({})` (`MCHandoff.cfg`): Dolphin's
  `AcquireNextImage` gives up after five slices and renders into the slot, read or
  not, under a comment that says "no corruption"
  (`docs/patches/dolphin-external-present.patch:1734`). `NewFrameIntact` excepts
  the frames rendered that way (`forced`).
* `PausedFrameShown` (`MCKeyed.cfg`): a paused present on D3D11 acquires key 1 of a
  slot that was given back with 0 and returns `RP_ERR_TIMEOUT`
  (`D3D11Backend.cpp:199`), although `retropark.h:84` says that the display
  freezes on the last frame and `Runtime.cpp:374` that it is composited again
  "without re-acquiring".
* `NothingReplaced` (`MCRuntime.cfg`): a second `load_content` of a core with
  OpenGL destroys the context and the texture that `dr_gl_tex_` names
  (`LibretroShim.cpp:486`, or `:494` when it fails), while `load_content` drops
  none of the `dr_*`. `NoDangling`, and `CoreOnOwnContext`, `TexturesOwned` and
  `ShowsLatest` of the shim, name that case, which lasts until the next frame.
* `GrownFrameShown` (`MCShim.cfg`): a frame larger than what was read at the load
  is taken for a repeat (`Runtime.cpp:365`), although `env_cb` accepts a new
  geometry because the shim "requeries av_info each present"
  (`LibretroShim.cpp:259`). `ShowsLatest` speaks of frames that fit.
* `OutputOutlivesSubmit` (`MCAudio.cfg`): `reset` and a second `load_content` never
  close the output, and `open_audio` (`Runtime.cpp:113`) destroys it with a
  presenting core's feeder inside `submit`, against "no callback races"
  (`docs/superpowers/specs`, the slice L design, lines 63 to 65).
  `NoSubmitAfterClose` covers the close and names this case.
* `SaveFailureSurfaced` (`MCRollback.cfg` with `SavesFail = TRUE`): `save_ring`
  drops the result of a failed `save_state` (`RollbackSession.cpp:56`), so that in
  a replay the snapshot of the replaced timeline stays and a later rollback loads
  it, while the slice H design (line 156) says "save/load failure mid-resim ->
  surfaced".
* `FramesIntact` without its exception, with `Return` logging past a cut too
  (`MCTcp.cfg`): a receive that times out
  inside a frame makes the next one take payload for a length, although
  `src/net/TcpTransport.h:11` says "reliable, ordered".

Other exceptions that properties name:

* a second `create_instance_and_device` after a device that failed leaks the
  first instance (`VulkanBackend.cpp:79` says it does not), and a compositor made
  again after a failure leaks its first objects (`OwnedOnce`);
* `sh_serialize` and `sh_unserialize` run the core in whatever context is current
  (`LibretroShim.cpp:529-538`), as does the core's own `load_game`
  (`CoreOnOwnContext`);
* a software frame that was never rendered before its repeat is lost, and in the
  first repeat after an unload the backend shows the previous core's image
  (`ShowsLatest`);
* an allocation that fails leaves a paused display without surfaces
  (`FrozenFrameCurrent`).

Seen while reading, outside what the models distinguish: `advance` ignores
`paused_`; `set_rewind` accepts a presenting core that serialises; before the
first remote input the rollback stall guard does not hold; `verified_` may jump
over a multiple of `kChecksumEvery`, and that checksum is never sent; a second
`load_content` keeps the rewind ring; counting a buffer after submitting
it would leak at most one buffer, not "permanently ... ratchet"
(`XAudio2Output.cpp:63`); a partial `ensure_composite_resources` is taken for a
complete one on the next call, so null handles are used; Vulkan's offscreen target
and D3D11's `offscreen_` keep their size after a resize; D3D11's offscreen texture
without its view is never completed; the driven image and the compositor's
framebuffer are destroyed without waiting for a composite that timed out with them
on the GPU; the pointer `core_option_get` returns does not live as
long as `retropark.h:106` says.

## 5. Proofs

Every safety invariant of the passing runs, and both refinements, are theorems,
for every value of the constants that the named ASSUMEs and the theorem's own
hypotheses allow. A proof module defines an inductive
invariant (`IInv` or the names given below), proves that `Init` implies it and that
each action keeps it (one step per action), and reads the properties off it.

Six theorems about the sessions assume a caller (`HoldOnStall`,
`HoldOnWait`: constants of the models, TRUE in the passing runs), because without
it the claim is false; those about the timelines and the agreement of a rollback
session assume that its saves succeed (`~SavesFail`), for the same reason;
`NewFramesIntact` assumes a core that waits on the consume
timeline (`HonoursConsume`), as Dolphin does and RefCoreVk does not. Section 4 and
the violation runs show what happens without them.

**RollbackSession.** For every input set, prediction window, checksum interval
and length: `TypeOK`, `RollbackPossible`, `RingOnTimeline`, `InputsOnTimeline`,
`RollbackBudget`. None is inductive alone. `BaseInv` is what holds whichever saves
fail: `TypeOK`, `RollbackBudget`, `Bookkeeping` (the counters are ordered,
`verified <= frame`, and a peer in mid-tick has recorded this frame's local input)
and `Sized` (core and snapshots have the length of their frame, on whatever
timeline, so that a replay from a stale one is still well formed: `SaveRingFits`,
`ReconcileBase`). `IInv` adds the three properties of the timeline, for a session
whose saves succeed; `EverySaveStored` is where that is used. `BeginTick` and the drains change
no history. For `EndTick`, `ReconcileStep` shows that whatever step 3 does
(nothing, or load `ring_[g]` and replay), it leaves a core, ring and used map on
one timeline: `RollbackTarget` places g, the least misprediction, in
`verified..frame-1`, so that `RollbackPossible` gives it a snapshot and
`RingOnTimeline` makes that the prefix of the old timeline. `NoLoadFailure`
follows: the load in `tick` cannot fail for want of a snapshot. `FinishStep`
carries the invariant through checksum, status and prune, whose floor never passes
`verified` (`FloorBelow`).

On top of `IInv` stand three more invariants.

* `NoGapInv` (`ConfirmedHasNoGap`): the channel is ordered and loses nothing, so
  when `confirmed_` names a frame every input from `verified_` up to it is held.
  The reconciliation skips a frame it has no input for; this is why no frame is
  settled that way.
* `AgreeInv`: what one side received, has in flight or has verified of the other's
  inputs is what the other's player committed. It is kept because commitments
  never change (`CommitsStay`), which needs `HoldOnStall`, and because the
  reconciliation leaves every frame below the new `verified_` with its true inputs
  (`ReconcileKeeps`, `SettledStays`). `Convergence` follows (`SameVerified`).
* `SumsInv` (`OnlyVerifiedSums`): a checksum kept or travelling is that of a
  verified prefix. With `AgreeInv` it gives `NoFalseDesync`.

`RollbackImplementsLockstep` then maps each step to `Lockstep`: `BeginTick`
commits an input or stutters, `EndTick` plays the frames that became verified,
everything else is invisible.

**NetSession.** `FlowInv` says of each peer where its tick is (`InTick`), that
what it has or has coming was committed (`Known`) and that nothing it still needs
is missing (`Lossless`, which is `NoInputLost`); `BoundedLead` follows, as a frame
is played only with the other's input for it. `CrcInv` adds the order of checksums
among inputs on the wire (`InSequence`) and what both prunes leave (`OwnKept`,
`PeerRecent`): a checksum that arrives is never older than the inputs before it by
more than the delay, so its counterpart has not been pruned (`ChecksumsMeet`).
`AgreeInv` is as for rollback, and `SessionImplementsLockstep` rests on it.
Three more theorems are about the checksums. `SumsInv`: a checksum that is kept or travels is that
of the frames its sender has played, up to the frame it names, whoever feeds the
session (`ChecksumsAreOfPlayedFrames`). With `HoldOnWait`, both cores were given the
same pair for each frame both have played (`SessionsPlaySameGame`), so the checksums
that meet are equal (`SumsMatch`), and as `AdvanceSent` is the only step that reports
it (`DesyncIsMismatch`) no session says `Desync` (`EqualSessionsNeverDesync`). Without
`HoldOnWait` the games part: a caller that changes the input of a frame it waits at
has already sent the old one.

**TcpSession.** For every delay, prediction limit and number of inputs, and every
way the network cuts, delays or breaks the stream. `StartInv` is for the start. A
transport has its Winsock reference from its first step to its close (`Ref`,
`Referenced`: a sum over the two peers, which counts what `WsaBalanced` counts).
Every byte on its way to a peer or read by it belongs to a message the other side's
session sends (`Origin`), so that a Hello that is accepted is the other side's and a
StateSync the host's, even behind a cut; `Started` is what the peers make of them.
`WsaBalanced` and `StartAgrees` follow. `StreamInv` is for the stream. The frames
sent to a peer, written one after the other, are a line, and a function t says where
each ends (`Ends`); the peer's place is after the frames it received and what it read
of the next, and each byte still on its way is the one at its place on the line
(`OnLine`). Stating it with t instead of a recursive concatenation keeps the
argument free of induction: a step only extends t by one frame or leaves it alone. A
piece stays within the frame under way (`ReadOnLine`), so a header tells that frame's
length (`LengthOnLine`) and the payload decodes to its message (`ReturnOnLine`). A
send that fails leaves a part of one more frame behind (`Sent`), which is never
returned, as its bytes end before it does. `FramesIntact` follows with `CutShort`
(a receive that gave up within a frame ends the peer's part, unless it is a
lockstep session in play), and more: `Beginning` holds also for a peer whose
receive gave up within a frame, of what it had received by then.

**Runtime.** The functions call each other, so `Sound(s)` is a predicate of a
runtime state and every function has a lemma. `RuntimeInvariant` says that all
states between two calls are sound; from it `LifecycleConsistent`, `NoDangling`,
`FrozenFrameCurrent` and `RewindHistory`, for every set of cores, every limit of
the ring and every failing step. The parts that the properties lack: a presenting
core has surfaces before anything can start it (`Given`; otherwise `resize` could
start one without), a delivered texture stays alive, or is one that a second load replaced, while
`dr_is_gl_` is set, also without a new frame (`Alive`; a later duplicate shows it
again), and only a core
with rewind on, that serialises, and with a limit above 0 has a history
(`Rewinds`). Within a load the invariant does not hold: `Kept` is what survives a
rebuild of the surfaces and `Fresh` what `finish_load_core` needs; it leaves a core
that is fully loaded or none (`FinishLoadSound`). `PushFacts` and `FrontFacts` are
what the ring's operations do to an unbroken history.

**SurfaceHandoff.** For every number of slots, frames and failures. `InOrder`: the
core's queue renders frames in order and `produce` stands where they left it;
`LastOnes`: each slot holds the last frame rendered into it; `Values`: what reaches
the host belongs to frames and never falls; `Running`: a composite that runs is the
first submitted, and its frame was rendered. `InSequence` orders the composites in
the host's queue, several of which may be there after failures, and needs
`OnRecord`: a frame that was submitted before is on record, is being waited for, or
failed. These give `SignalsIncrease` for either kind of core. `Waited`, kept only by
a core that honours the consume timeline, says that a frame not forced into its slot
waited for the release, and gives `NewFrameIntact`: among the frames of one slot
(`SlotsApart`), the one being read is not released, so any that disturbs it was
forced.

**KeyedHandoff.** For every number of textures and resizes: `ResizeStopped` (resize
works on a stopped core and hands over only complete sets), `Holders` (no texture
is held twice) and `KeyOneIsNew` (key 1 means an unread frame) make
`CoreOnCurrentSet` and `ReadsNewFrame` inductive.

**AudioOutput.** For every pool, target and chunk: `BacklogExact`,
`VoiceBuffersIntact`, `NoSubmitAfterClose`. `IInv` adds when application and
feeder may overlap, over `reset` and second loads too (`Lifecycle`), that a closed output is empty (`Fresh`) and that
a filled slot holds what will be submitted (`SubmitHolds`). The sum of the voice
is a running total, so no induction over the queue is needed: an append extends the
total and a played buffer shifts it. `PullFits` needs `PullBudget`, a count of
buffers in slots or on the way to one against what is still wanted, and the
hypothesis `Chunk <= Target <= (PoolSize - 1) * Chunk + 1`: a replaced output may
leave a feeder with frames it was asked for, which cut the new target into one
chunk more (`RoomFresh`) (Dolphin's feeder submits 512
frames at a time, `XAudio2Output` aims at 40 ms, 1920 frames at 48 kHz, with 16
buffers).

**VkBackend.** For every number of slots, swap images, frame sizes and failures:
`OwnedOnce`, `UploadFits`. `OwnedOnce` fails to be inductive in
two places: the destructor skips everything without a device, and the framebuffer
without a complete compositor. `DeviceFirst` and `CompositorFirst` say that there
is nothing to skip then. `UploadFits` needs `SizeOnRecord`: a size on record is
that of a complete image. `CreateOwned` and `RecreateOwned` are what the two ways
to make a group do to ownership.

**LibretroShim.** For every set of options and values, any number of frames and
reboots: `CoreOnOwnContext`, `TexturesOwned`, `NoStaleOption`, `ShowsLatest`.
`Stages` is what an instance has at each of its calls, second loads included,
`Orphans` that a core which lost its context to one has no game to run before it
gets another, `OneTexture` and
`FrameKept` where its last frame is, `Forgotten` that `reset` drops the frame
before it ends the instance, `LatchHeld` that the option latch is right also in the
middle of a call.

**Only model-checked.** Liveness (`Progress` of both sessions, `LastFrameShown`,
`PlaysOn`, `PartnerLossNoticed`, `DisplayGoesOn`): fairness is out of the prover's
reach. That the closed forms of the replay loop are what the loop computes is by
inspection.

## 6. Not modelled

Drawing, shaders, layouts and barriers, pixel conversion and copies; D3D11's
device set-up and driven upload; physical-device choice; JSON manifest parsing;
CRC arithmetic; the byte layout of messages; input mapping and the input mailbox;
FPS and the audio meters; RefCoreVk's device and import set-up; the harness's
window and menus. They hold no protocol state, or run to the end on one thread.

## 7. Plan

1. The swapchain's resizing in `VkBackend`.
2. A lockstep peer against a rollback peer in `TcpSession`.
