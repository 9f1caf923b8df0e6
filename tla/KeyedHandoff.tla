---------------------------- MODULE KeyedHandoff ----------------------------
(***************************************************************************)
(* The hand-off of frames between a Direct3D 11 core and the host: shared   *)
(* textures, each with a keyed mutex.  The core's thread                    *)
(* (src/cores/refcore_present/RefCore.cpp) takes a texture with key 0 and   *)
(* gives it back with key 1; the host's composite                           *)
(* (src/src/render/d3d11/D3D11Backend.cpp) takes the one submitted last     *)
(* with key 1 and gives it back with key 0.  Either waits 100 ms for a key  *)
(* and goes on without the texture.  On a resize the host's thread stops    *)
(* the core, allocates new textures, hands them over and starts the core    *)
(* again (src/src/runtime/Runtime.cpp); each of these may fail.             *)
(***************************************************************************)
EXTENDS Integers

CONSTANTS
  SlotCount,       \* slot_count_ of the ring
  MaxGeneration    \* bound: surface sets allocated

ASSUME SlotsAssumption == SlotCount \in Nat \ {0}
ASSUME GenerationAssumption == MaxGeneration \in Nat \ {0}

VARIABLES
  \* the textures of the host's current set
  surfaces,       \* surfaces_.size()
  set,            \* which set they are
  key,            \* slot -> 0, 1, or Held
  contents,       \* slot -> "none", or a frame that is "new" or "read"
  \* the ring
  generation, has_ready, ready_index,
  \* the core
  core_pc,        \* "stopped", "next", "acquire", "draw", "release", "submit"
  slots, core_set, core_generation,
  cursor, slot,
  \* the host
  host_pc,        \* "idle", "acquire", "read", or a step of resize
  index, last_ready, paused,
  target          \* how far the compositor and the offscreen target are made

set_vars == <<surfaces, set, key, contents>>
ring_vars == <<generation, has_ready, ready_index>>
core_set_vars == <<slots, core_set, core_generation>>
thread_vars == <<core_pc, core_set_vars, cursor, slot>>
host_vars == <<host_pc, index, last_ready, paused, target>>
handoff_vars == <<set_vars, ring_vars, thread_vars, host_vars>>

Slots == 0..(SlotCount - 1)
NoFrame == -1
Held == 2

\* A core that has just been loaded, its surfaces handed over.
HandoffInit ==
  /\ surfaces = SlotCount /\ set = 1
  /\ key = [s \in Slots |-> 0] /\ contents = [s \in Slots |-> "none"]
  /\ generation = 1 /\ has_ready = FALSE /\ ready_index = 0
  /\ core_pc = "next" /\ slots = SlotCount /\ core_set = 1
  /\ core_generation = 1 /\ cursor = 0 /\ slot = 0
  /\ host_pc = "idle" /\ index = 0 /\ last_ready = NoFrame
  /\ paused = FALSE /\ target = "none"

-----------------------------------------------------------------------------
\* The core's thread: loop.

NextSlot ==
  /\ core_pc = "next"
  /\ slots > 0
  /\ slot' = cursor
  /\ cursor' = (cursor + 1) % slots
  /\ core_pc' = "acquire"
  /\ UNCHANGED <<set_vars, ring_vars, core_set_vars, host_vars>>

\* Key 0: the texture is free.
\* Faulty variant: the thread waits for the one texture it began with.
CoreStays ==
  /\ core_pc = "acquire"
  /\ IF key[slot] = 0
       THEN /\ key' = [key EXCEPT ![slot] = Held]
            /\ core_pc' = "draw"
            /\ UNCHANGED cursor
       ELSE /\ cursor' = slot
            /\ core_pc' = "next"
            /\ UNCHANGED key
  /\ UNCHANGED <<surfaces, set, contents, ring_vars, core_set_vars, slot,
                 host_vars>>
CoreAcquire ==
  /\ core_pc = "acquire"
  /\ IF key[slot] = 0
       THEN /\ key' = [key EXCEPT ![slot] = Held]
            /\ core_pc' = "draw"
       ELSE /\ core_pc' = "next"
            /\ UNCHANGED key
  /\ UNCHANGED <<surfaces, set, contents, ring_vars, core_set_vars, cursor,
                 slot, host_vars>>

Draw ==
  /\ core_pc = "draw"
  /\ contents' = [contents EXCEPT ![slot] = "new"]
  /\ core_pc' = "release"
  /\ UNCHANGED <<surfaces, set, key, ring_vars, core_set_vars, cursor, slot,
                 host_vars>>

CoreRelease ==
  /\ core_pc = "release"
  /\ key' = [key EXCEPT ![slot] = 1]
  /\ core_pc' = "submit"
  /\ UNCHANGED <<surfaces, set, contents, ring_vars, core_set_vars, cursor,
                 slot, host_vars>>

\* accept_submit refuses another generation's frame.
submit_frame ==
  /\ core_pc = "submit"
  /\ IF core_generation = generation
       THEN has_ready' = TRUE /\ ready_index' = slot
       ELSE UNCHANGED <<has_ready, ready_index>>
  /\ core_pc' = "next"
  /\ UNCHANGED <<set_vars, generation, core_set_vars, cursor, slot,
                 host_vars>>

-----------------------------------------------------------------------------
\* The host's thread: composite_and_present.

\* The compositor and the offscreen texture with its view are made on the
\* first composite; any of them may fail, and the call with it.  A texture whose
\* view failed is not made again: later composites go on without a view.
EnsureTarget ==
  /\ host_pc = "idle"
  /\ \/ target = "none" /\ target' = "compositor"
     \/ target = "compositor" /\ target' \in {"texture", "ready"}
  /\ UNCHANGED <<set_vars, ring_vars, thread_vars, host_pc, index, last_ready,
                 paused>>

\* Paused, the last slot again; else the latest one.
Chosen == IF paused THEN last_ready
                    ELSE IF has_ready THEN ready_index ELSE NoFrame

\* With a slot of the set, take it; with none, the display is black.
BeginComposite ==
  /\ host_pc = "idle"
  /\ target \in {"texture", "ready"}
  /\ Chosen # NoFrame
  /\ index' = Chosen
  /\ last_ready' = Chosen
  /\ host_pc' = IF index' < surfaces THEN "acquire" ELSE "idle"
  /\ UNCHANGED <<set_vars, ring_vars, thread_vars, paused, target>>

HostAcquire ==
  /\ host_pc = "acquire"
  /\ IF key[index] = 1
       THEN /\ key' = [key EXCEPT ![index] = Held]
            /\ host_pc' = "read"
       ELSE /\ host_pc' = "idle"           \* RP_ERR_TIMEOUT
            /\ UNCHANGED key
  /\ UNCHANGED <<surfaces, set, contents, ring_vars, thread_vars, index,
                 last_ready, paused, target>>

\* The compositor samples the texture; it goes back with key 0.
\* Faulty variant: it goes back with key 1.
KeepKey ==
  /\ host_pc = "read"
  /\ contents' = [contents EXCEPT ![index] = "read"]
  /\ key' = [key EXCEPT ![index] = 1]
  /\ host_pc' = "idle"
  /\ UNCHANGED <<surfaces, set, ring_vars, thread_vars, index,
                 last_ready, paused, target>>
HostRelease ==
  /\ host_pc = "read"
  /\ contents' = [contents EXCEPT ![index] = "read"]
  /\ key' = [key EXCEPT ![index] = 0]
  /\ host_pc' = "idle"
  /\ UNCHANGED <<surfaces, set, ring_vars, thread_vars, index,
                 last_ready, paused, target>>

\* readback_surface_pixel reads any slot the core has drawn and frees it.
ReadPixel(s) ==
  /\ host_pc = "idle"
  /\ s < surfaces
  /\ index' = s
  /\ host_pc' = "acquire"
  /\ UNCHANGED <<set_vars, ring_vars, thread_vars, last_ready, paused, target>>

set_paused ==
  /\ host_pc = "idle"
  /\ paused' = ~paused
  /\ UNCHANGED <<set_vars, ring_vars, thread_vars, host_pc, index, last_ready,
                 target>>

-----------------------------------------------------------------------------
\* The host's thread: resize.

\* stop ends the loop between two frames and joins the thread.
StopCore ==
  /\ host_pc = "idle"
  /\ set < MaxGeneration
  /\ core_pc \in {"next", "stopped"}
  /\ core_pc' = "stopped"
  /\ host_pc' = "allocate"
  /\ UNCHANGED <<set_vars, ring_vars, core_set_vars, cursor, slot, index,
                 last_ready, paused, target>>

\* allocate_surfaces: the old textures go first; with fewer than all new ones
\* it fails, and the ring keeps what it knew.
allocate_surfaces(made) ==
  /\ host_pc = "allocate"
  /\ set' = set + 1
  /\ surfaces' = made
  /\ key' = [s \in Slots |-> 0]
  /\ contents' = [s \in Slots |-> "none"]
  /\ host_pc' = IF made = SlotCount THEN "reallocate" ELSE "idle"
  /\ UNCHANGED <<ring_vars, thread_vars, index, last_ready, paused, target>>

reallocate ==
  /\ host_pc = "reallocate"
  /\ generation' = generation + 1
  /\ has_ready' = FALSE
  /\ last_ready' = NoFrame
  /\ host_pc' = "hand_over"
  /\ UNCHANGED <<set_vars, ready_index, thread_vars, index, paused, target>>

\* set_surfaces opens the handles one by one; with all of them the core is
\* started, without one the call fails and resize with it.
\* Faulty variant: the core is started with what it could open.
StartAnyway(opened) ==
  /\ host_pc = "hand_over"
  /\ slots' = opened
  /\ core_set' = set
  /\ core_generation' = generation
  /\ cursor' = IF opened = SlotCount THEN 0 ELSE cursor
  /\ core_pc' = "next"
  /\ host_pc' = "idle"
  /\ UNCHANGED <<set_vars, ring_vars, slot, index, last_ready, paused,
                 target>>
set_surfaces(opened) ==
  /\ host_pc = "hand_over"
  /\ slots' = opened
  /\ core_set' = set
  /\ core_generation' = generation
  /\ cursor' = IF opened = SlotCount THEN 0 ELSE cursor
  /\ core_pc' = IF opened = SlotCount THEN "next" ELSE "stopped"
  /\ host_pc' = "idle"
  /\ UNCHANGED <<set_vars, ring_vars, slot, index, last_ready, paused,
                 target>>

-----------------------------------------------------------------------------
Core == NextSlot \/ CoreAcquire \/ Draw \/ CoreRelease \/ submit_frame
Render == EnsureTarget \/ BeginComposite \/ HostAcquire \/ HostRelease
Resize ==
  \/ StopCore \/ reallocate
  \/ \E n \in 0..SlotCount : allocate_surfaces(n) \/ set_surfaces(n)

HandoffNext ==
  Core \/ Render \/ Resize \/ set_paused \/ \E s \in Slots : ReadPixel(s)

HandoffSpec == HandoffInit /\ [][HandoffNext]_handoff_vars

\* The core's thread loops, the application presents again and again, and a
\* call it made returns.
FairHandoff ==
  /\ HandoffSpec
  /\ WF_handoff_vars(Core)
  /\ WF_handoff_vars(EnsureTarget) /\ SF_handoff_vars(BeginComposite)
  /\ WF_handoff_vars(HostAcquire) /\ WF_handoff_vars(HostRelease)

-----------------------------------------------------------------------------
\* The type of the hand-off's state.
HandoffTypeOK ==
  /\ surfaces \in 0..SlotCount /\ set \in 1..MaxGeneration
  /\ key \in [Slots -> {0, 1, Held}]
  /\ contents \in [Slots -> {"none", "new", "read"}]
  /\ has_ready \in BOOLEAN /\ ready_index \in Slots
  /\ slots \in 0..SlotCount /\ cursor \in Slots /\ slot \in Slots
  /\ index \in Slots /\ last_ready \in Slots \union {NoFrame}
  /\ target \in {"none", "compositor", "texture", "ready"}

\* A running core draws only into the textures the host composites from: all
\* of the current set, under the generation the ring accepts.  A resize that
\* fails at any of its steps leaves the core stopped.
CoreOnCurrentSet ==
  core_pc # "stopped" =>
    core_set = set /\ slots = surfaces /\ surfaces = SlotCount
      /\ core_generation = generation

\* No drawing is handed over twice, nor a texture nothing was drawn to: what the
\* host takes, in a composite or a pixel read, was drawn since it last took the
\* slot, and belongs to the current set.  A paused present asks for the slot it
\* has shown already, so this is also why it is refused (PausedFrameShown).
ReadsNewFrame == host_pc = "read" => contents[index] = "new"

\* What retropark.h:84 and Runtime.cpp:374 say, and composite_and_present does
\* not keep: while paused, the last frame can be composited again.  It takes
\* key 1, which the last composite gave back as 0.
PausedFrameShown ==
  paused /\ host_pc = "idle" /\ last_ready # NoFrame => key[last_ready] = 1

\* While the core runs unpaused, the hand-off never wedges, although a texture
\* the host skipped stays with key 1 for ever: frames keep being drawn and read.
DisplayGoesOn ==
  <>[](core_pc # "stopped" /\ ~paused)
    => []<>(core_pc = "draw") /\ []<>(host_pc = "read")
=============================================================================
