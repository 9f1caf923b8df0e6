--------------------------- MODULE VkBackendProofs ---------------------------
(***************************************************************************)
(* Proofs about VkBackend, for every number of surfaces and of swapchain   *)
(* images, every set of frame sizes and any number of failures: what the   *)
(* backend creates it owns once and destroys, and a driven frame always    *)
(* fits its image.                                                         *)
(***************************************************************************)
EXTENDS VkBackend, TLAPS

\* The groups whose objects are never lost.
Owned == Groups \ {"instance", "compositor"}

\* The size on record is that of a complete image, so that an upload which
\* finds its size there may use the image as it is; a call that uploads draws a
\* frame with a size.
SizeOnRecord ==
  /\ driven_w # NoSize =>
       handles["driven"] = Count["driven"] /\ driven_extent = driven_w
  /\ call \in {"upload", "copy"} => frame \in Sizes

\* Without a device there is no call and nothing else: what the destructor
\* then leaves alone was never created.
DeviceFirst ==
  /\ handles["instance"] <= 2
  /\ \/ device
     \/ call \in {"idle", "gone"} /\ \A g \in Owned : handles[g] = 0

\* Nothing is rendered before the compositor is complete, so that there is no
\* framebuffer when the destructor leaves the compositor alone.
CompositorFirst ==
  \/ compositor_ready
  \/ /\ call \notin {"offscreen", "commands", "upload", "copy", "render",
                      "submit"}
     /\ handles["framebuffer"] = 0

Types ==
  /\ handles \in [Groups -> Nat]
  /\ live \in [Groups -> Int]

\* The inductive invariant.
IInv ==
  Types /\ OwnedOnce /\ DeviceFirst /\ CompositorFirst /\ SizeOnRecord
    /\ UploadFits

-----------------------------------------------------------------------------
\* What the two ways to create a group do to a group that is owned once.

Keeps(g) == \A o \in Groups \ {g} : handles'[o] = handles[o]

\* How many objects a group has is a number.
LEMMA CountsArePositive == \A g \in Groups : Count[g] \in Nat
BY CountsAssumption DEF Count, Groups

\* Creating a group that has no handle yet.
LEMMA CreateOwned ==
  ASSUME Types, OwnedOnce, NEW g \in Groups, NEW n \in Nat,
         g \in Owned => handles[g] = 0, Create(g, n)
  PROVE  Types' /\ OwnedOnce'
         /\ Keeps(g)
BY DEF Types, OwnedOnce, Owned, Create, Keeps

\* Destroying a group and creating it again.
LEMMA RecreateOwned ==
  ASSUME Types, OwnedOnce, NEW g \in Owned, NEW n \in Nat, Recreate(g, n)
  PROVE  Types' /\ OwnedOnce' /\ handles'[g] = n
         /\ Keeps(g)
BY DEF Types, OwnedOnce, Owned, Recreate, Keeps

-----------------------------------------------------------------------------
\* A new backend owns nothing.
LEMMA InitIInv == Init => IInv
BY DEF Init, IInv, Types, OwnedOnce, DeviceFirst, CompositorFirst, Owned,
       SizeOnRecord, UploadFits, Groups, NoSize, Black

\* One step per action of the backend.
LEMMA NextIInv == IInv /\ [Next]_vars => IInv'
<1> SUFFICES ASSUME IInv, [Next]_vars PROVE IInv'
  OBVIOUS
<1> USE DEF IInv
<1>m. \A g \in Groups : \A n \in Upto(g) : n \in Nat
  BY CountsArePositive DEF Upto
<1>g. /\ Owned = {"surfaces", "swapchain", "framebuffer", "offscreen",
                  "commands", "driven"}
      /\ Groups = Owned \union {"instance", "compositor"}
  BY DEF Owned, Groups
<1>1. ASSUME NEW w \in BOOLEAN, NEW n \in Upto("instance"),
             create_instance_and_device(w, n)
       PROVE  IInv'
  <2>1. Types' /\ OwnedOnce' /\ Keeps("instance")
    BY <1>1, <1>m, <1>g, CreateOwned DEF create_instance_and_device, Owned
  <2>2. CompositorFirst'
    BY <1>1, <1>g, <2>1
    DEF create_instance_and_device, Keeps, CompositorFirst
  <2>4. /\ n \in 0..2
        /\ handles'["instance"] =
             IF n > handles["instance"] THEN n ELSE handles["instance"]
    BY <1>1, <1>g
    DEF create_instance_and_device, Create, Types, Upto, Count
  <2>5. n # 2 => call' = "idle"
    BY <1>1 DEF create_instance_and_device, Count
  <2>6. DeviceFirst'
    BY <1>1, <1>g, <2>1, <2>4, <2>5
    DEF create_instance_and_device, Keeps, Owned, DeviceFirst, device, Types
  <2>3. SizeOnRecord' /\ UploadFits'
    BY <1>1, <1>g, <2>1
    DEF create_instance_and_device, Keeps, SizeOnRecord,
        UploadFits
  <2> QED BY <2>1, <2>2, <2>3, <2>6
<1>2. ASSUME initialize PROVE IInv'
  BY <1>2
  DEF initialize, object_vars, Types, OwnedOnce,
      DeviceFirst, CompositorFirst, SizeOnRecord, UploadFits,
      device
<1>3. ASSUME NEW n \in Upto("swapchain"), create_swapchain(n)
       PROVE  IInv'
  <2>1. Types' /\ OwnedOnce' /\ Keeps("swapchain")
    BY <1>3, <1>m, <1>g, RecreateOwned DEF create_swapchain, Owned
  <2>2. DeviceFirst' /\ CompositorFirst'
    BY <1>3, <1>g, <2>1
    DEF create_swapchain, Keeps, Owned, DeviceFirst,
        CompositorFirst, device
  <2>3. SizeOnRecord' /\ UploadFits'
    BY <1>3, <1>g, <2>1
    DEF create_swapchain, Keeps, SizeOnRecord,
        UploadFits
  <2> QED BY <2>1, <2>2, <2>3
<1>4. ASSUME NEW n \in Upto("surfaces"), allocate_surfaces(n)
       PROVE  IInv'
  <2>1. Types' /\ OwnedOnce' /\ Keeps("surfaces")
    BY <1>4, <1>m, <1>g, RecreateOwned DEF allocate_surfaces, Owned
  <2>2. DeviceFirst' /\ CompositorFirst'
    BY <1>4, <1>g, <2>1
    DEF allocate_surfaces, Keeps, Owned, DeviceFirst,
        CompositorFirst, device
  <2>3. SizeOnRecord' /\ UploadFits'
    BY <1>4, <1>g, <2>1
    DEF allocate_surfaces, Keeps, SizeOnRecord,
        UploadFits
  <2> QED BY <2>1, <2>2, <2>3
<1>5. ASSUME NEW f \in {Shared, Black}, composite_and_present(f) PROVE IInv'
  BY <1>5
  DEF composite_and_present, object_vars, Types, OwnedOnce,
      DeviceFirst, CompositorFirst, SizeOnRecord, UploadFits,
      device
<1>6. ASSUME NEW f \in Sizes \union {Dupe}, composite_driven(f) PROVE IInv'
  BY <1>6
  DEF composite_driven, object_vars, Types, OwnedOnce,
      DeviceFirst, CompositorFirst, SizeOnRecord, UploadFits,
      device
<1>7. ASSUME NEW n \in Upto("compositor"), ensure_compositor(n) PROVE IInv'
  <2>1. Types' /\ OwnedOnce' /\ Keeps("compositor")
    <3>1. CASE compositor_ready
      BY <1>7, <3>1 DEF ensure_compositor, Types, OwnedOnce, Keeps
    <3>2. CASE ~(compositor_ready)
      <4>1. "compositor" \in Owned => handles["compositor"] = 0
        BY <3>2, <1>g DEF Types, Owned
      <4> QED BY <1>7, <3>2, <4>1, <1>m, <1>g, CreateOwned DEF ensure_compositor
    <3> QED BY <3>1, <3>2
  <2>2. DeviceFirst' /\ CompositorFirst'
    BY <1>7, <1>g, <2>1
    DEF ensure_compositor, Keeps, Owned, DeviceFirst, CompositorFirst, device
  <2>3. SizeOnRecord' /\ UploadFits'
    BY <1>7, <1>g, <2>1
    DEF ensure_compositor, Keeps, SizeOnRecord, UploadFits
  <2> QED BY <2>1, <2>2, <2>3
<1>8. ASSUME NEW n \in Upto("offscreen"), ensure_offscreen(n) PROVE IInv'
  <2>1. Types' /\ OwnedOnce' /\ Keeps("offscreen")
    <3>1. CASE windowed \/ handles["offscreen"] > 0
      BY <1>8, <3>1 DEF ensure_offscreen, Types, OwnedOnce, Keeps
    <3>2. CASE ~(windowed \/ handles["offscreen"] > 0)
      <4>1. "offscreen" \in Owned => handles["offscreen"] = 0
        BY <3>2, <1>g DEF Types, Owned
      <4> QED BY <1>8, <3>2, <4>1, <1>m, <1>g, CreateOwned DEF ensure_offscreen
    <3> QED BY <3>1, <3>2
  <2>2. DeviceFirst' /\ CompositorFirst'
    BY <1>8, <1>g, <2>1
    DEF ensure_offscreen, Keeps, Owned, DeviceFirst, CompositorFirst, device
  <2>3. SizeOnRecord' /\ UploadFits'
    BY <1>8, <1>g, <2>1
    DEF ensure_offscreen, Keeps, SizeOnRecord, UploadFits
  <2> QED BY <2>1, <2>2, <2>3
<1>9. ASSUME NEW n \in Upto("commands"), ensure_commands(n) PROVE IInv'
  <2>1. Types' /\ OwnedOnce' /\ Keeps("commands")
    <3>1. CASE handles["commands"] > 0
      BY <1>9, <3>1 DEF ensure_commands, Types, OwnedOnce, Keeps
    <3>2. CASE ~(handles["commands"] > 0)
      <4>1. "commands" \in Owned => handles["commands"] = 0
        BY <3>2, <1>g DEF Types, Owned
      <4> QED BY <1>9, <3>2, <4>1, <1>m, <1>g, CreateOwned DEF ensure_commands
    <3> QED BY <3>1, <3>2
  <2>2. DeviceFirst' /\ CompositorFirst'
    BY <1>9, <1>g, <2>1
    DEF ensure_commands, Keeps, Owned, DeviceFirst, CompositorFirst, device
  <2>3. SizeOnRecord' /\ UploadFits'
    BY <1>9, <1>g, <2>1
    DEF ensure_commands, Keeps, SizeOnRecord, UploadFits
  <2> QED BY <2>1, <2>2, <2>3
<1>10. ASSUME NEW n \in Upto("driven"), upload_driven_frame(n) PROVE IInv'
  <2>0. frame \in Sizes /\ frame # NoSize
    BY <1>10, SizesAssumption DEF upload_driven_frame, SizeOnRecord
  <2>1. CASE handles["driven"] > 0 /\ driven_w = frame
    BY <1>10, <2>0, <2>1
    DEF upload_driven_frame, Types, OwnedOnce, DeviceFirst,
        CompositorFirst, SizeOnRecord, UploadFits, device
  <2>2. CASE ~(handles["driven"] > 0 /\ driven_w = frame)
    <3>1. Types' /\ OwnedOnce' /\ Keeps("driven") /\ handles'["driven"] = n
      BY <1>10, <2>2, <1>m, <1>g, RecreateOwned DEF upload_driven_frame
    <3>2. DeviceFirst' /\ CompositorFirst'
      BY <1>10, <1>g, <2>2, <3>1
      DEF upload_driven_frame, Keeps, Owned, DeviceFirst, CompositorFirst,
          device
    <3>3. n = Count["driven"] => n > 0
      BY DEF Count
    <3>4. SizeOnRecord' /\ UploadFits'
      BY <1>10, <2>0, <2>2, <3>1, <3>3
      DEF upload_driven_frame, SizeOnRecord, UploadFits
    <3> QED BY <3>1, <3>2, <3>4
  <2> QED BY <2>1, <2>2
<1>11. ASSUME Copy PROVE IInv'
  BY <1>11
  DEF Copy, object_vars, Types, OwnedOnce,
      DeviceFirst, CompositorFirst, SizeOnRecord, UploadFits,
      device
<1>12. ASSUME NEW n \in 0..1, render(n) PROVE IInv'
  <2>1. Types' /\ OwnedOnce' /\ Keeps("framebuffer")
    <3>1. CASE UNCHANGED <<handles, live>>
      BY <3>1 DEF Types, OwnedOnce, Keeps
    <3>2. CASE Recreate("framebuffer", n)
      BY <3>2, <1>g, RecreateOwned
    <3> QED BY <1>12, <3>1, <3>2 DEF render
  <2>2. DeviceFirst' /\ CompositorFirst'
    BY <1>12, <1>g, <2>1
    DEF render, Keeps, Owned, DeviceFirst, CompositorFirst, device
  <2>3. SizeOnRecord' /\ UploadFits'
    BY <1>12, <1>g, <2>1
    DEF render, Keeps, SizeOnRecord, UploadFits
  <2> QED BY <2>1, <2>2, <2>3
<1>13. ASSUME Submit PROVE IInv'
  BY <1>13
  DEF Submit, object_vars, Types, OwnedOnce,
      DeviceFirst, CompositorFirst, SizeOnRecord, UploadFits,
      device
<1>14. ASSUME destructor PROVE IInv'
  <2>1. Types'
    BY <1>14 DEF destructor, Types
  <2>2. ASSUME NEW g \in Owned PROVE live'[g] = handles'[g]
    <3>1. g \in Groups /\ live[g] = handles[g] /\ live[g] \in Int
      BY <1>g DEF Owned, OwnedOnce, Types
    <3>2. g \notin Destroyed => handles[g] = 0
      BY <1>14, <1>g DEF destructor, Destroyed, DeviceFirst, CompositorFirst
    <3> QED BY <1>14, <3>1, <3>2 DEF destructor
  <2>3. OwnedOnce'
    BY <2>2 DEF OwnedOnce, Owned
  <2>4. DeviceFirst' /\ CompositorFirst'
    BY <1>14, <1>g DEF destructor, DeviceFirst, CompositorFirst
  <2> QED
    BY <1>14, <2>1, <2>3, <2>4
    DEF destructor, SizeOnRecord, UploadFits
<1>15. CASE UNCHANGED vars
  BY <1>15
  DEF vars, object_vars, Types, OwnedOnce, DeviceFirst,
      CompositorFirst, SizeOnRecord, UploadFits, device
<1>16. ASSUME \/ composite_headless \/ present_windowed
              \/ composite_driven_headless \/ present_driven_windowed
       PROVE  IInv'
  BY <1>16, <1>13
  DEF composite_headless, present_windowed, composite_driven_headless,
      present_driven_windowed
<1> QED
  BY <1>1, <1>2, <1>3, <1>4, <1>5, <1>6, <1>7, <1>8, <1>9, <1>10, <1>11,
     <1>12, <1>14, <1>15, <1>16 DEF Next, Composite, Ensure

-----------------------------------------------------------------------------
\* The inductive invariant holds throughout.
THEOREM BackendInvariant == Spec => []IInv
BY InitIInv, NextIInv, PTL DEF Spec

\* Whatever fails, and in whatever order the backend is called, each surface,
\* exported handle, swapchain object, framebuffer, target, command object and
\* driven image is owned once, and none is left after the destructor.
THEOREM ObjectsOwnedOnce == Spec => []OwnedOnce
<1>1. IInv => OwnedOnce
  BY DEF IInv
<1> QED BY BackendInvariant, <1>1, PTL

\* upload_driven_frame copies a frame only into an image made for its size.
THEOREM UploadsFit == Spec => []UploadFits
<1>1. IInv => UploadFits
  BY DEF IInv
<1> QED BY BackendInvariant, <1>1, PTL
=============================================================================
