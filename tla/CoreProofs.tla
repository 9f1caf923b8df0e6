------------------------------ MODULE CoreProofs ------------------------------
(***************************************************************************)
(* Proofs about two kinds of core.                                         *)
(*                                                                         *)
(* LibretroShim, for every set of options and values and any number of     *)
(* frames, loads and reboots: a core that renders with OpenGL runs and     *)
(* ends in its own context, its texture is there as long as it may be      *)
(* shown and no longer, an option that was set is not lost, and what is    *)
(* shown is the last frame the core gave; with the exceptions the          *)
(* properties name, the second load into an instance above all.            *)
(*                                                                         *)
(* KeyedHandoff, for every number of textures and of resizes: a core that  *)
(* runs draws into all the textures the host composites from, and the host *)
(* takes a texture only with a frame in it that it has not read.           *)
(*                                                                         *)
(* The two have no state and no definition in common.                      *)
(***************************************************************************)
EXTENDS LibretroShim, KeyedHandoff, TLAPS

-----------------------------------------------------------------------------
(* LibretroShim.                                                            *)

\* The core's functions while an instance ends.
Ending == {"context_destroy", "unload_game", "deinit"}

Types ==
  /\ created \in BOOLEAN /\ game_loaded \in BOOLEAN
  /\ hw_requested \in BOOLEAN /\ core_objects \in BOOLEAN
  /\ options_dirty \in BOOLEAN /\ rendered \in BOOLEAN
  /\ dr_have \in BOOLEAN /\ dr_dupe \in BOOLEAN /\ dr_is_gl \in BOOLEAN
  /\ reloaded \in BOOLEAN /\ dr_fits \in BOOLEAN
  /\ content_loaded \in BOOLEAN
  /\ call \in {"none", "load_game", "setup", "unwind", "context_reset", "run",
               "serialize"} \union Ending
  /\ hw \in {"none", "standalone", "shared"}
  /\ frames \in Nat /\ loads \in Nat

\* What an instance has at each of its calls: a game only if it was created, a
\* context only with a game, and while a game is loaded only if it is loaded
\* again.
Stages ==
  /\ call # "none" => created
  /\ game_loaded => created
  /\ hw # "none" => game_loaded
  /\ call = "unwind" => hw = "none"
  /\ call \in {"load_game", "setup"} => hw = "none" \/ reloaded
  /\ call \in {"context_reset", "context_destroy"} => hw # "none"
  /\ call = "load_game" => ~game_loaded \/ reloaded
  /\ call \in {"setup", "run"} => game_loaded
  /\ call \in {"setup", "context_reset"} => hw_requested

\* A core that has objects but no context lost it to a second load that failed,
\* and has no game to run before another load gives it a context.
Orphans ==
  /\ core_objects => hw_requested
  /\ core_objects /\ hw = "none" =>
       ~game_loaded \/ call \in {"setup", "unwind"}

\* The shim has the one texture of its context, and a frame that is a texture
\* is that one, or that of the context a second load replaced.
OneTexture ==
  /\ textures = IF hw = "none" THEN {} ELSE {color}
  /\ dr_is_gl => (hw = "shared" /\ dr_gl_tex = color) \/ reloaded

\* reset forgets the old instance's frame before it ends the instance.
Forgotten ==
  call \in Ending /\ then # "unload" => ~dr_have /\ ~dr_is_gl /\ ~rendered

\* The latch is also up while the core's own code runs, not only between calls.
LatchHeld == game_loaded /\ ~options_dirty => core_values = Effective

\* Where the last frame is: in the texture, in the pixels the core gave, or,
\* once rendered, in the backend's texture.
FrameKept ==
  /\ ~reloaded =>
       /\ dr_is_gl => drawn = emitted
       /\ dr_have /\ ~dr_is_gl /\ ~dr_dupe => dr_data = emitted
       /\ rendered /\ ~dr_is_gl => uploaded = emitted
  /\ hw = "none" => drawn = 0
  /\ call = "run" => ~dr_have

\* The inductive invariant.
IInv ==
  /\ Types /\ Stages /\ Orphans /\ OneTexture /\ Forgotten /\ LatchHeld
  /\ FrameKept /\ CoreOnOwnContext

-----------------------------------------------------------------------------
\* Without an instance there is nothing to own or to show.
LEMMA InitIInv == Init => IInv
<1> SUFFICES ASSUME Init PROVE IInv
  OBVIOUS
<1> USE DEF Init, Ending
<1>1. Types BY DEF Types
<1>2. Stages /\ Orphans BY DEF Stages, Orphans
<1>3. OneTexture BY DEF OneTexture
<1>4. Forgotten BY DEF Forgotten
<1>5. LatchHeld BY DEF LatchHeld
<1>6. FrameKept BY DEF FrameKept
<1>7. CoreOnOwnContext BY DEF CoreOnOwnContext
<1> QED BY <1>1, <1>2, <1>3, <1>4, <1>5, <1>6, <1>7 DEF IInv

\* One step per action of the shim, the core and the host.
LEMMA NextIInv == IInv /\ [Next]_vars => IInv'
<1> SUFFICES ASSUME IInv, [Next]_vars PROVE IInv'
  OBVIOUS
<1> USE DEF IInv, Ending, Idle
<1>1. ASSUME NEW k \in Keys, NEW v \in Values, sh_core_option_set(k, v)
      PROVE  IInv'
  BY <1>1
  DEF sh_core_option_set, core_vars, run_vars, gl_vars, frame_vars, kept_vars,
      Types, Stages, Orphans, OneTexture, Forgotten, LatchHeld,
      FrameKept, CoreOnOwnContext
<1>2. CASE sh_create
  BY <1>2
  DEF sh_create, FreshShim, core_vars, run_vars, gl_vars, frame_vars,
      kept_vars,
      Types, Stages, Orphans, OneTexture, Forgotten, LatchHeld,
      FrameKept, CoreOnOwnContext
<1>3. CASE sh_load_content
  BY <1>3
  DEF sh_load_content, option_vars, run_vars, gl_vars, frame_vars, kept_vars,
      Types, Stages, Orphans, OneTexture, Forgotten, LatchHeld, Effective,
      FrameKept, CoreOnOwnContext
<1>4. ASSUME NEW ok \in BOOLEAN, NEW asks \in BOOLEAN, LoadGame(ok, asks)
      PROVE  IInv'
  <2>1. content_loaded' \in BOOLEAN /\ dr_fits' \in BOOLEAN
    BY <1>4 DEF LoadGame, Loaded, kept_vars, Types
  <2>2. /\ game_loaded' \in BOOLEAN /\ hw_requested' \in BOOLEAN
        /\ call' \in {"setup", "none"}
        /\ game_loaded => game_loaded'
        /\ hw_requested => hw_requested'
        /\ game_loaded' /\ ~game_loaded /\ hw_requested => call' = "setup"
        /\ call' = "setup" => game_loaded'
    BY <1>4 DEF LoadGame, Types
  <2>3. Types' BY <1>4, <2>1, <2>2
    DEF LoadGame, option_vars, run_vars, gl_vars, Types
  <2> QED
    BY <1>4, <2>2, <2>3
    DEF LoadGame, option_vars, run_vars, gl_vars, Stages, Orphans, OneTexture,
        Forgotten, LatchHeld, Effective, FrameKept, CoreOnOwnContext
<1>5. CASE setup
  BY <1>5
  DEF setup, ReplaceContext, option_vars, kept_vars,
      Types, Stages, Orphans, OneTexture, Forgotten, LatchHeld, Effective,
      FrameKept, CoreOnOwnContext
<1>6. CASE SetupFails
  BY <1>6
  DEF SetupFails, ReplaceContext, option_vars, kept_vars,
      Types, Stages, Orphans, OneTexture, Forgotten, LatchHeld, Effective,
      FrameKept, CoreOnOwnContext
<1>7. CASE Unwind
  BY <1>7, ZenonT(40)
  DEF Unwind, option_vars, run_vars, frame_vars, kept_vars,
      Types, Stages, Orphans, OneTexture, Forgotten, LatchHeld,
      FrameKept, CoreOnOwnContext
<1>8. CASE ContextReset
  <2>1. content_loaded' \in BOOLEAN /\ dr_fits' \in BOOLEAN
    BY <1>8 DEF ContextReset, Loaded, kept_vars, Types
  <2>2. Types'
    BY <1>8, <2>1
    DEF ContextReset, shim_vars, option_vars, run_vars, gl_vars, Types
  <2>3. hw_requested
    BY <1>8 DEF ContextReset, Stages
  <2> QED
    BY <1>8, <2>2, <2>3
    DEF ContextReset, shim_vars, option_vars, run_vars, gl_vars, Stages,
        Orphans, OneTexture, Forgotten, LatchHeld, Effective, FrameKept,
        CoreOnOwnContext
<1>9. CASE sh_run_frame
  BY <1>9, ZenonT(40)
  DEF sh_run_frame, shim_vars, option_vars, run_vars, kept_vars,
      Types, Stages, Orphans, OneTexture, Forgotten, LatchHeld, Effective,
      FrameKept, CoreOnOwnContext
<1>s. CASE sh_serialize \/ Serialized
  BY <1>s
  DEF sh_serialize, Serialized, shim_vars, option_vars, run_vars, gl_vars,
      frame_vars, kept_vars,
      Types, Stages, Orphans, OneTexture, Forgotten, LatchHeld, Effective,
      FrameKept, CoreOnOwnContext
<1>10. ASSUME NEW kind \in {"hw", "sw", "big", "dupe", "nothing"},
              retro_run(kind)
       PROVE  IInv'
  <2>a. ASSUME NEW data, on_video_refresh(data)
        PROVE  /\ dr_have' = TRUE /\ dr_dupe' \in BOOLEAN
               /\ dr_is_gl' \in BOOLEAN
               /\ dr_is_gl' <=> data = 0 /\ dr_is_gl
               /\ dr_gl_tex' = dr_gl_tex
               /\ ~dr_is_gl' /\ ~dr_dupe' => dr_data' = data /\ data # 0
    BY <2>a DEF on_video_refresh, Types
  <2>b. ASSUME kind \in {"hw", "sw", "big"}
        PROVE  /\ frames' \in Nat /\ frames' # 0
               /\ emitted' = frames' /\ rendered' = FALSE
               /\ reloaded' = FALSE /\ dr_fits' \in BOOLEAN
               /\ kind # "hw" => drawn' = drawn
               /\ kind = "hw" => core_objects
    BY <1>10, <2>b DEF retro_run, Types
  <2>c. kind \notin {"hw", "sw", "big"} =>
          UNCHANGED <<frames, emitted, rendered, drawn, reloaded, dr_fits>>
    BY <1>10 DEF retro_run
  <2>d. kind = "hw" =>
          IF hw = "shared"
            THEN /\ dr_have' = TRUE /\ dr_dupe' = FALSE /\ dr_is_gl' = TRUE
                 /\ dr_gl_tex' = color /\ drawn' = emitted'
            ELSE on_video_refresh(emitted')
    BY <1>10 DEF retro_run, video_cb_hw, on_video_refresh_gl
  <2>e. /\ kind \in {"sw", "big"} => on_video_refresh(emitted')
        /\ kind = "dupe" => on_video_refresh(0)
        /\ kind = "nothing" =>
             UNCHANGED <<dr_have, dr_dupe, dr_is_gl, dr_data, dr_gl_tex>>
    BY <1>10 DEF retro_run
  <2>f. /\ call = "run" /\ call' = "none" /\ options_dirty' = FALSE
        /\ core_values' = IF options_dirty THEN Effective ELSE core_values
        /\ UNCHANGED <<option_overrides, created, game_loaded, hw_requested,
                       hw, color, core_objects, current, textures, loads,
                       uploaded, content_loaded>>
    BY <1>10 DEF retro_run, GetVariableUpdate, gl_vars
  <2>g. dr_have' \in BOOLEAN /\ dr_dupe' \in BOOLEAN /\ dr_is_gl' \in BOOLEAN
    BY <2>a, <2>d, <2>e DEF Types
  <2>h. /\ rendered' \in BOOLEAN /\ reloaded' \in BOOLEAN
        /\ dr_fits' \in BOOLEAN /\ frames' \in Nat
    BY <2>b, <2>c DEF Types
  <2>1. Types'
    BY <2>f, <2>g, <2>h DEF Types
  <2>r. core_objects => hw # "none"
    BY <2>f DEF Stages, Orphans
  <2>2. Stages' /\ Orphans' /\ Forgotten' /\ CoreOnOwnContext'
    BY <2>f, <2>r DEF Stages, Orphans, Forgotten, CoreOnOwnContext
  <2>3. LatchHeld'
    BY <2>f DEF LatchHeld, Effective, Types
  <2>4. CASE kind = "hw" /\ hw = "shared"
    <3>1. OneTexture' /\ FrameKept'
      BY <2>4, <2>b, <2>d, <2>f DEF OneTexture, FrameKept
    <3> QED BY <3>1, <2>1, <2>2, <2>3
  <2>5. CASE \/ kind = "hw" /\ hw # "shared"
             \/ kind \in {"sw", "big"}
    <3>1. /\ on_video_refresh(emitted') /\ emitted' # 0 /\ rendered' = FALSE
          /\ hw = "none" => drawn' = drawn
      BY <2>5, <2>b, <2>d, <2>e, <2>r
    <3>2. OneTexture' /\ FrameKept'
      BY <3>1, <2>a, <2>f DEF OneTexture, FrameKept
    <3> QED BY <3>2, <2>1, <2>2, <2>3
  <2>6. CASE kind = "dupe"
    <3>1. on_video_refresh(0)
      BY <2>6, <2>e
    <3>2. /\ dr_is_gl' <=> dr_is_gl
          /\ dr_gl_tex' = dr_gl_tex
          /\ ~dr_is_gl' => dr_dupe'
      BY <3>1, <2>a
    <3>3. OneTexture' /\ FrameKept'
      BY <2>6, <3>2, <2>c, <2>f DEF OneTexture, FrameKept
    <3> QED BY <3>3, <2>1, <2>2, <2>3
  <2>7. CASE kind = "nothing"
    <3>1. OneTexture' /\ FrameKept'
      BY <2>7, <2>c, <2>e, <2>f DEF OneTexture, FrameKept
    <3> QED BY <3>1, <2>1, <2>2, <2>3
  <2> QED BY <2>4, <2>5, <2>6, <2>7
<1>11. CASE render
  <2>1. rendered' \in BOOLEAN
    BY <1>11 DEF render
  <2>2. IF dr_have /\ dr_is_gl THEN uploaded' = uploaded
                              ELSE uploaded' = Displayed
    BY <1>11 DEF render, composite_external_gl, composite_driven
  <2>3. rendered' => rendered \/ Displayed = emitted
    BY <1>11 DEF render
  <2>4. /\ UNCHANGED <<shim_vars, core_vars, textures, loads, dr_have, dr_dupe,
                       dr_is_gl, dr_data, dr_gl_tex, kept_vars>>
        /\ Idle
    BY <1>11 DEF render
  <2>5. Types'
    BY <2>1, <2>4
    DEF Types, shim_vars, core_vars, run_vars, option_vars, kept_vars
  <2>6. FrameKept'
    BY <2>2, <2>3, <2>4
    DEF FrameKept, Displayed, Types, shim_vars, core_vars, run_vars
  <2> QED
    BY <2>4, <2>5, <2>6
    DEF Stages, Orphans, OneTexture, Forgotten, LatchHeld, Effective,
        CoreOnOwnContext, shim_vars, option_vars, core_vars, run_vars
<1>12. CASE resize
  BY <1>12
  DEF resize, shim_vars, option_vars, core_vars, run_vars, frame_vars,
      kept_vars,
      Types, Stages, Orphans, OneTexture, Forgotten, LatchHeld, Effective,
      FrameKept, CoreOnOwnContext
<1>13. CASE unload_core
  BY <1>13
  DEF unload_core, sh_destroy, shim_vars, option_vars, run_vars, frame_vars,
      kept_vars,
      Types, Stages, Orphans, OneTexture, Forgotten, LatchHeld, Effective,
      FrameKept, CoreOnOwnContext
<1>14. CASE reset
  BY <1>14
  DEF reset, sh_destroy, Forget, shim_vars, option_vars, run_vars,
      Types, Stages, Orphans, OneTexture, Forgotten, LatchHeld, Effective,
      FrameKept, CoreOnOwnContext
<1>15. CASE CoreEnds
  <2> USE <1>15
      DEF CoreEnds, shim_vars, option_vars, run_vars, gl_vars, frame_vars,
          kept_vars
  <2>1. core_objects' \in BOOLEAN /\ call' \in {"unload_game", "deinit"}
    BY DEF Types
  <2>a. Types' BY <2>1 DEF Types
  <2>2. Stages' /\ Orphans' BY DEF Types, Stages, Orphans
  <2>3. OneTexture' BY DEF OneTexture
  <2>4. Forgotten' BY DEF Forgotten
  <2>5. LatchHeld' BY DEF LatchHeld, Effective
  <2>6. FrameKept' BY DEF FrameKept
  <2>7. CoreOnOwnContext' BY DEF CoreOnOwnContext, Stages
  <2> QED BY <2>a, <2>2, <2>3, <2>4, <2>5, <2>6, <2>7
<1>16. CASE Deleted
  <2> USE <1>16 DEF Deleted, Forget, frame_vars, kept_vars
  <2>1. Types' BY DEF Types
  <2>2. Stages' /\ Orphans' BY DEF Types, Stages, Orphans
  <2>3. OneTexture' BY DEF OneTexture, Forgotten
  <2>4. Forgotten' BY DEF Forgotten
  <2>5. LatchHeld' BY DEF LatchHeld
  <2>6. FrameKept' BY DEF FrameKept, Forgotten
  <2>7. CoreOnOwnContext' BY DEF CoreOnOwnContext, Stages
  <2> QED BY <2>1, <2>2, <2>3, <2>4, <2>5, <2>6, <2>7
<1>17. CASE UNCHANGED vars
  BY <1>17
  DEF vars, shim_vars, option_vars, core_vars, run_vars, gl_vars, frame_vars,
      kept_vars,
      Types, Stages, Orphans, OneTexture, Forgotten, LatchHeld, Effective,
      FrameKept, CoreOnOwnContext
<1> QED
  BY <1>1, <1>2, <1>3, <1>4, <1>5, <1>6, <1>7, <1>8, <1>9, <1>s, <1>10, <1>11,
     <1>12, <1>13, <1>14, <1>15, <1>16, <1>17
  DEF Next

\* Every reachable state satisfies the inductive invariant.
THEOREM ShimInvariant == Spec => []IInv
BY InitIInv, NextIInv, PTL DEF Spec

\* context_reset, sh_run_frame and sh_destroy enter a core that has an OpenGL
\* context only with that context current, whatever the host's backend made
\* current in between, over any number of loads into one instance; only a load
\* into an instance that has a game leaves the core's objects without their
\* context.
THEOREM CoreKeepsItsContext == Spec => []CoreOnOwnContext
<1>1. IInv => CoreOnOwnContext
  BY DEF IInv
<1> QED BY ShimInvariant, <1>1, PTL

\* Runtime::render is never given a texture that sh_destroy has deleted, nor
\* one that sh_load_content has, once the core has drawn a frame after it; and
\* each texture that setup made is deleted, by sh_destroy or by the next setup.
THEOREM NoTextureOutlivesItsCore == Spec => []TexturesOwned
<1>1. IInv => TexturesOwned
  BY DEF IInv, OneTexture, TexturesOwned
<1> QED BY ShimInvariant, <1>1, PTL

\* What sh_core_option_set was given reaches the core, or GET_VARIABLE_UPDATE
\* will still tell it.
THEOREM OptionsReachTheCore == Spec => []NoStaleOption
<1>1. IInv => NoStaleOption
  BY DEF IInv, LatchHeld, NoStaleOption
<1> QED BY ShimInvariant, <1>1, PTL

\* Runtime::render shows the frame that on_video_refresh or
\* on_video_refresh_gl got last, through repeats, pauses, reboots and loads,
\* unless driven_frame_valid finds it larger than what the load read.
THEOREM LatestFrameShown == Spec => []ShowsLatest
<1>1. IInv => ShowsLatest
  BY DEF IInv, Types, FrameKept, ShowsLatest, Displayed
<1> QED BY ShimInvariant, <1>1, PTL

-----------------------------------------------------------------------------
(* KeyedHandoff.                                                            *)

\* What HandoffTypeOK leaves open: the steps the two threads are at, the
\* generations and the room resize has for another set.
KeyedTypes ==
  /\ HandoffTypeOK
  /\ core_pc \in {"stopped", "next", "acquire", "draw", "release", "submit"}
  /\ host_pc \in {"idle", "acquire", "read", "allocate", "reallocate",
                  "hand_over"}
  /\ generation \in Nat /\ core_generation \in Nat
  /\ host_pc = "allocate" => set < MaxGeneration

\* Resize works on the textures of a core that has stopped, and the core gets
\* no set that is not complete.
ResizeStopped ==
  /\ host_pc \in {"allocate", "reallocate", "hand_over"} => core_pc = "stopped"
  /\ host_pc \in {"reallocate", "hand_over"} => surfaces = SlotCount

\* Who holds a texture: the core from its acquire to its release, the host
\* while it reads, never both.
Holders ==
  /\ core_pc \in {"draw", "release"} => key[slot] = Held
  /\ host_pc = "read" => key[index] = Held
  /\ core_pc \in {"draw", "release"} /\ host_pc = "read" => slot # index

\* Key 1 stands for a frame not read yet; only a draw puts one there.
KeyOneIsNew ==
  /\ \A s \in Slots : key[s] = 1 => contents[s] = "new"
  /\ core_pc = "release" => contents[slot] = "new"

\* The inductive invariant.
KeyedIInv ==
  /\ KeyedTypes /\ ResizeStopped /\ Holders /\ KeyOneIsNew
  /\ CoreOnCurrentSet /\ ReadsNewFrame

\* A core that has just been loaded has all of its textures, none drawn.
LEMMA KeyedInit == ASSUME HandoffInit PROVE KeyedIInv
<1> USE SlotsAssumption, GenerationAssumption DEF HandoffInit, Held
<1>1. 0 \in Slots
  BY DEF Slots
<1>2. /\ key \in [Slots -> {0, 1, Held}]
      /\ contents \in [Slots -> {"none", "new", "read"}]
      /\ has_ready \in BOOLEAN
      /\ last_ready \in Slots \union {NoFrame}
  OBVIOUS
<1>3. HandoffTypeOK
  BY <1>1, <1>2 DEF HandoffTypeOK
<1> QED
  BY <1>3
  DEF KeyedIInv, KeyedTypes, ResizeStopped, Holders, KeyOneIsNew,
      CoreOnCurrentSet, ReadsNewFrame

\* The cursor wraps at the number of textures.
LEMMA CursorWraps ==
  ASSUME NEW c \in Slots PROVE (c + 1) % SlotCount \in Slots
BY SlotsAssumption DEF Slots

\* One step per action of the two threads.
LEMMA KeyedStep ==
  ASSUME KeyedIInv, [HandoffNext]_handoff_vars PROVE KeyedIInv'
<1> USE SlotsAssumption, GenerationAssumption
    DEF KeyedIInv, KeyedTypes, ResizeStopped, Holders, KeyOneIsNew,
        HandoffTypeOK, Held, CoreOnCurrentSet, ReadsNewFrame,
        set_vars, ring_vars, thread_vars, core_set_vars, host_vars
<1>1. CASE NextSlot
  BY <1>1, CursorWraps DEF NextSlot
<1>2. CASE CoreAcquire
  BY <1>2 DEF CoreAcquire
<1>3. CASE Draw
  BY <1>3 DEF Draw
<1>4. CASE CoreRelease
  BY <1>4 DEF CoreRelease
<1>5. CASE submit_frame
  BY <1>5 DEF submit_frame
<1>6. CASE EnsureTarget
  BY <1>6 DEF EnsureTarget
<1>7. CASE BeginComposite
  <2>1. Chosen \in Slots
    BY <1>7 DEF BeginComposite, Chosen, NoFrame
  <2> QED BY <1>7, <2>1 DEF BeginComposite
<1>8. CASE HostAcquire
  BY <1>8 DEF HostAcquire
<1>9. CASE HostRelease
  BY <1>9 DEF HostRelease
<1>10. ASSUME NEW s \in Slots, ReadPixel(s) PROVE KeyedIInv'
  BY <1>10 DEF ReadPixel
<1>11. CASE set_paused
  BY <1>11 DEF set_paused
<1>12. CASE StopCore
  BY <1>12 DEF StopCore
<1>13. ASSUME NEW n \in 0..SlotCount, allocate_surfaces(n) PROVE KeyedIInv'
  BY <1>13 DEF allocate_surfaces
<1>14. CASE reallocate
  <2>1. has_ready' \in BOOLEAN /\ last_ready' \in Slots \union {NoFrame}
    BY <1>14 DEF reallocate
  <2> QED BY <1>14, <2>1 DEF reallocate
<1>15. ASSUME NEW n \in 0..SlotCount, set_surfaces(n) PROVE KeyedIInv'
  <2>1. 0 \in Slots
    BY DEF Slots
  <2> QED BY <1>15, <2>1 DEF set_surfaces
<1>16. CASE UNCHANGED handoff_vars
  BY <1>16 DEF handoff_vars
<1> QED
  BY <1>1, <1>2, <1>3, <1>4, <1>5, <1>6, <1>7, <1>8, <1>9, <1>10, <1>11,
     <1>12, <1>13, <1>14, <1>15, <1>16
  DEF HandoffNext, Core, Render, Resize

\* Every reachable state satisfies the inductive invariant: who holds which
\* texture, what its key says of its contents, and that a resize works on a
\* core that has stopped.
THEOREM KeyedInvariant == HandoffSpec => []KeyedIInv
<1>1. HandoffInit => KeyedIInv
  BY KeyedInit
<1>2. KeyedIInv /\ [HandoffNext]_handoff_vars => KeyedIInv'
  BY KeyedStep
<1> QED BY <1>1, <1>2, PTL DEF HandoffSpec

\* RefCore's thread draws only into the host's current textures, all of them
\* there, under the generation SurfaceRing accepts, at whatever step
\* Runtime::resize failed before.
THEOREM CoreStaysOnCurrentSet == HandoffSpec => []CoreOnCurrentSet
<1>1. KeyedIInv => CoreOnCurrentSet
  BY DEF KeyedIInv
<1> QED BY KeyedInvariant, <1>1, PTL

\* composite_and_present and readback_surface_pixel read only frames drawn
\* since the slot was last read, of the current set; a second composite of the
\* same drawing, which a paused present asks for, is refused.
THEOREM FramesReadOnce == HandoffSpec => []ReadsNewFrame
<1>1. KeyedIInv => ReadsNewFrame
  BY DEF KeyedIInv
<1> QED BY KeyedInvariant, <1>1, PTL
=============================================================================
