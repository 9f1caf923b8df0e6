------------------------------ MODULE VkBackend ------------------------------
(***************************************************************************)
(* The Vulkan backend's own objects, from the first initialize to the      *)
(* destructor, when any creation may fail and any wait for the GPU may     *)
(* time out (src/src/render/vulkan/VulkanBackend.cpp and                   *)
(* VulkanCompositor.cpp).  The objects come in groups that one function    *)
(* creates in a fixed order, stopping at the first failure, and one        *)
(* function destroys, null handles skipped: a group's state is therefore   *)
(* how many of its handles are set.  What a frame contains, and the        *)
(* timelines it is handed over with, are in SurfaceHandoff.                *)
(***************************************************************************)
EXTENDS Integers

CONSTANTS
  SlotCount,      \* surfaces of a batch
  SwapImages,     \* images of a swapchain
  Sizes,          \* sizes of a driven core's frames
  MaxFailures     \* bound: creations that fail

ASSUME CountsAssumption == SlotCount \in Nat \ {0} /\ SwapImages \in Nat \ {0}

VARIABLES
  handles,           \* group -> handles set, in the order of creation
  live,              \* group -> objects that exist
  compositor_ready,
  driven_w,          \* driven_w_, driven_h_: the size on record, or NoSize
  driven_extent,     \* the size driven_img_ was created with
  call,              \* "idle", or where the running call is
  frame,             \* what that call draws
  failures

object_vars == <<handles, live, compositor_ready, driven_w, driven_extent>>
vars == <<object_vars, call, frame, failures>>

NoSize == "none"
Shared == "shared"       \* a frame of a presenting core
Black == "black"         \* no frame
Dupe == "dupe"           \* the driven frame uploaded last

\* The objects of each group, in the order they are created: instance, device;
\* per slot an image, its memory, its exported handle and a view, then two
\* timelines with theirs; the Win32 surface, the swapchain, per image a view and
\* a semaphore, the acquire semaphore; two shaders, set layout, sampler,
\* descriptor pool and set, render pass, pipeline layout, pipeline; image,
\* memory, view, staging buffer and memory; pool, command buffer, fence.
Count ==
  [instance |-> 2, surfaces |-> 4 * SlotCount + 4,
   swapchain |-> 3 + 2 * SwapImages, compositor |-> 9, framebuffer |-> 1,
   offscreen |-> 5, commands |-> 3, driven |-> 5]
Groups == {"instance", "surfaces", "swapchain", "compositor", "framebuffer",
           "offscreen", "commands", "driven"}

ASSUME SizesAssumption == {NoSize, Shared, Black, Dupe} \intersect Sizes = {}

device == handles["instance"] = 2
windowed == handles["swapchain"] >= 2

Init ==
  /\ handles = [g \in Groups |-> 0] /\ live = [g \in Groups |-> 0]
  /\ compositor_ready = FALSE
  /\ driven_w = NoSize /\ driven_extent = NoSize
  /\ call = "idle" /\ frame = Black
  /\ failures = 0

\* How far a creation gets: through, or to an object that fails.
Outcome(g, n) ==
  /\ n < Count[g] => failures < MaxFailures
  /\ failures' = IF n < Count[g] THEN failures + 1 ELSE failures

\* The group is created over handles that are not cleared first.
Create(g, n) ==
  /\ Outcome(g, n)
  /\ handles' = [handles EXCEPT ![g] = IF n > @ THEN n ELSE @]
  /\ live' = [live EXCEPT ![g] = @ + n]

\* The group is destroyed, then created.
Recreate(g, n) ==
  /\ Outcome(g, n)
  /\ handles' = [handles EXCEPT ![g] = n]
  /\ live' = [live EXCEPT ![g] = @ - handles[g] + n]

-----------------------------------------------------------------------------
\* initialize, the first time or after a failure: create_instance_and_device.
\* A second try makes a second instance.
create_instance_and_device(native_window, n) ==
  /\ call = "idle" /\ ~device
  /\ Create("instance", n)
  /\ call' = IF n = Count["instance"] /\ native_window
               THEN "swapchain" ELSE "idle"
  /\ UNCHANGED <<compositor_ready, driven_w, driven_extent, frame>>

\* initialize again, with a window: the device stays.
initialize ==
  /\ call = "idle" /\ device
  /\ call' = "swapchain"
  /\ UNCHANGED <<object_vars, frame, failures>>

\* Idempotent: what there is goes first (destroy_swapchain).
create_swapchain(n) ==
  /\ call = "swapchain"
  /\ Recreate("swapchain", n)
  /\ call' = "idle"
  /\ UNCHANGED <<compositor_ready, driven_w, driven_extent, frame>>

allocate_surfaces(n) ==
  /\ call = "idle" /\ device
  /\ Recreate("surfaces", n)
  /\ UNCHANGED <<compositor_ready, driven_w, driven_extent, call, frame>>

-----------------------------------------------------------------------------
\* The composites.

\* An index past the surfaces is refused before anything is done.
composite_and_present(f) ==
  /\ call = "idle" /\ device
  /\ f = Shared => handles["surfaces"] > 0
  /\ frame' = f
  /\ call' = "compositor"
  /\ UNCHANGED <<object_vars, failures>>

composite_driven(f) ==
  /\ call = "idle" /\ device
  /\ frame' = f
  /\ call' = "compositor"
  /\ UNCHANGED <<object_vars, failures>>

\* ensure_composite_resources: the compositor, with a window no offscreen
\* target, the commands.  The first handle decides whether a group is made.
ensure_compositor(n) ==
  /\ call = "compositor"
  /\ IF compositor_ready
       THEN n = 0 /\ UNCHANGED <<handles, live, compositor_ready, failures>>
       ELSE /\ Create("compositor", n)
            /\ compositor_ready' = (n = Count["compositor"])
  /\ call' = IF compositor_ready' THEN "offscreen" ELSE "idle"
  /\ UNCHANGED <<driven_w, driven_extent, frame>>

ensure_offscreen(n) ==
  /\ call = "offscreen"
  /\ IF windowed \/ handles["offscreen"] > 0
       THEN n = 0 /\ call' = "commands" /\ UNCHANGED <<handles, live, failures>>
       ELSE /\ Create("offscreen", n)
            /\ call' = IF n = Count["offscreen"] THEN "commands" ELSE "idle"
  /\ UNCHANGED <<compositor_ready, driven_w, driven_extent, frame>>

ensure_commands(n) ==
  /\ call = "commands"
  /\ IF handles["commands"] > 0
       THEN n = 0 /\ UNCHANGED <<handles, live, failures>>
       ELSE Create("commands", n)
  /\ call' = IF handles["commands"] = 0 /\ n < Count["commands"] THEN "idle"
               ELSE IF frame \in Sizes THEN "upload" ELSE "render"
  /\ UNCHANGED <<compositor_ready, driven_w, driven_extent, frame>>

\* upload_driven_frame makes the image and the staging buffer again when there
\* is no image or the size on record is another; destroy_driven clears it.
\* Faulty variant: destroy_driven leaves the size on record.
KeepSize(n) ==
  /\ call = "upload"
  /\ IF handles["driven"] > 0 /\ driven_w = frame
       THEN /\ n = 0 /\ call' = "copy"
            /\ UNCHANGED <<handles, live, driven_w, driven_extent,
                           failures>>
       ELSE /\ Recreate("driven", n)
            /\ driven_extent' = IF n > 0 THEN frame ELSE NoSize
            /\ IF n = Count["driven"]
                 THEN driven_w' = frame /\ call' = "copy"
                 ELSE UNCHANGED driven_w /\ call' = "idle"
  /\ UNCHANGED <<compositor_ready, frame>>
upload_driven_frame(n) ==
  /\ call = "upload"
  /\ IF handles["driven"] > 0 /\ driven_w = frame
       THEN /\ n = 0 /\ call' = "copy"
            /\ UNCHANGED <<handles, live, driven_w, driven_extent,
                           failures>>
       ELSE /\ Recreate("driven", n)
            /\ driven_extent' = IF n > 0 THEN frame ELSE NoSize
            /\ IF n = Count["driven"]
                 THEN driven_w' = frame /\ call' = "copy"
                 ELSE driven_w' = NoSize /\ call' = "idle"
  /\ UNCHANGED <<compositor_ready, frame>>

\* The frame goes through the staging buffer into the image.  Mapping,
\* recording, submitting or the wait for the fence may fail.
Copy ==
  /\ call = "copy"
  /\ call' \in {"idle", "render"}
  /\ UNCHANGED <<object_vars, frame, failures>>

\* No swap image can be acquired, or the commands not be begun; else
\* VulkanCompositor::render, which keeps its framebuffer while the target is
\* the same view and makes another one if not.
render(n) ==
  /\ call = "render"
  /\ \/ /\ n = 0 /\ call' = "idle"
        /\ UNCHANGED <<handles, live, failures>>
     \/ /\ handles["framebuffer"] = 1 /\ n = 1
        /\ call' = "submit"
        /\ UNCHANGED <<handles, live, failures>>
     \/ /\ Recreate("framebuffer", n)
        /\ call' = IF n = 1 THEN "submit" ELSE "idle"
  /\ UNCHANGED <<compositor_ready, driven_w, driven_extent, frame>>

\* The commands are submitted and their fence awaited, or not; the call ends
\* either way and leaves the objects as they are.
Submit ==
  /\ call = "submit"
  /\ call' = "idle"
  /\ UNCHANGED <<object_vars, frame, failures>>

\* The second half of composite_and_present and of composite_driven, into the
\* offscreen target or a swapchain image.
composite_headless == frame \in {Shared, Black} /\ ~windowed /\ Submit
present_windowed == frame \in {Shared, Black} /\ windowed /\ Submit
composite_driven_headless ==
  frame \notin {Shared, Black} /\ ~windowed /\ Submit
present_driven_windowed ==
  frame \notin {Shared, Black} /\ windowed /\ Submit

-----------------------------------------------------------------------------
\* The destructor: with a device, destroy_driven, destroy_composite,
\* destroy_swapchain, destroy_surfaces and the device; then the instance.
\* The compositor is destroyed if it was completed.
Destroyed ==
  IF device THEN Groups \ IF compositor_ready THEN {}
                            ELSE {"compositor", "framebuffer"}
            ELSE {"instance"}
\* Faulty variant: the driven path is forgotten.
ForgetDriven ==
  /\ call = "idle"
  /\ live' = [g \in Groups |-> IF g \in Destroyed \ {"driven"}
                                 THEN live[g] - handles[g] ELSE live[g]]
  /\ handles' = [g \in Groups |-> 0]
  /\ compositor_ready' = FALSE /\ driven_w' = NoSize
  /\ driven_extent' = NoSize
  /\ call' = "gone"
  /\ UNCHANGED <<frame, failures>>
destructor ==
  /\ call = "idle"
  /\ live' = [g \in Groups |-> IF g \in Destroyed
                                 THEN live[g] - handles[g] ELSE live[g]]
  /\ handles' = [g \in Groups |-> 0]
  /\ compositor_ready' = FALSE /\ driven_w' = NoSize
  /\ driven_extent' = NoSize
  /\ call' = "gone"
  /\ UNCHANGED <<frame, failures>>

-----------------------------------------------------------------------------
Upto(g) == 0..Count[g]

Ensure ==
  \/ \E n \in Upto("compositor") : ensure_compositor(n)
  \/ \E n \in Upto("offscreen") : ensure_offscreen(n)
  \/ \E n \in Upto("commands") : ensure_commands(n)

Composite ==
  \/ \E f \in {Shared, Black} : composite_and_present(f)
  \/ \E f \in Sizes \union {Dupe} : composite_driven(f)
  \/ Ensure
  \/ \E n \in Upto("driven") : upload_driven_frame(n)
  \/ Copy
  \/ \E n \in 0..1 : render(n)
  \/ composite_headless \/ present_windowed
  \/ composite_driven_headless \/ present_driven_windowed

Next ==
  \/ \E w \in BOOLEAN, n \in Upto("instance") : create_instance_and_device(w, n)
  \/ initialize
  \/ \E n \in Upto("swapchain") : create_swapchain(n)
  \/ \E n \in Upto("surfaces") : allocate_surfaces(n)
  \/ Composite
  \/ destructor

Spec == Init /\ [][Next]_vars

-----------------------------------------------------------------------------
\* The type of the backend's state.
TypeOK ==
  /\ handles \in [Groups -> Nat] /\ \A g \in Groups : handles[g] <= Count[g]
  /\ live \in [Groups -> Int]
  /\ compositor_ready \in BOOLEAN
  /\ {driven_w, driven_extent} \subseteq Sizes \union {NoSize}
  /\ frame \in Sizes \union {Shared, Black, Dupe}

\* Every object is owned once: wherever a creation fails and whatever is
\* called after it, no surface, exported handle, swapchain object, framebuffer,
\* target, command or driven image is lost while it exists, or destroyed twice,
\* and none is left when the backend is destroyed.  The instance and the
\* compositor are not covered: a second try after a failure loses the first.
OwnedOnce ==
  \A g \in Groups \ {"instance", "compositor"} : live[g] = handles[g]

\* A driven frame is copied only into an image and through a buffer made for
\* its size, also after an earlier size could not be completed.
UploadFits ==
  call = "copy" =>
    handles["driven"] = Count["driven"] /\ driven_extent = frame
=============================================================================
