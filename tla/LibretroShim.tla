---------------------------- MODULE LibretroShim ----------------------------
(***************************************************************************)
(* A libretro core behind the shim (src/cores/libretro_shim/), as the      *)
(* runtime drives it on the application's thread.  A core that renders     *)
(* with OpenGL gets a context of its own (HwRenderGL.cpp), which shares    *)
(* textures with the host's if the host is the OpenGL backend              *)
(* (src/src/render/gl/); each side makes its context current before it     *)
(* draws.  The core's frames reach the runtime as pixels or as a texture,  *)
(* its options through a latch that the core polls.  The steps of a call   *)
(* are separate where the core's own code runs.  There is one instance of  *)
(* the shim at a time.  Content may be loaded again into it, which nothing *)
(* in the code refuses: the new context replaces the old one, the core's   *)
(* objects and the texture the runtime shows with it.                      *)
(***************************************************************************)
EXTENDS Integers

CONSTANTS
  Keys, Values,     \* the core's options
  Default,          \* value of an option that was not set
  MaxFrames,        \* bound: frames drawn
  MaxLoads          \* bound: OpenGL contexts of the shim

ASSUME DefaultAssumption == Default \in Values

VARIABLES
  \* the shim
  created,          \* there is an instance
  game_loaded, hw_requested,
  reloaded,         \* history: loaded again with a game in it, no frame since
  hw,               \* "none", "standalone" or "shared"
  color,            \* its colour texture
  option_overrides, options_dirty,
  \* the core
  call,             \* "none", or the core's function that runs
  then,             \* what follows the instance's destruction
  core_objects,     \* it made objects in its context
  core_values,      \* option -> value it runs with
  emitted,          \* the last frame it gave, or 0
  drawn,            \* the frame in its colour texture, or 0
  \* OpenGL
  host_gl,          \* the host is the OpenGL backend
  current,          \* "none", "host" or "shim"
  textures,         \* colour textures that exist
  loads,            \* contexts made so far
  \* the runtime and the backend
  dr_have, dr_dupe, dr_is_gl,
  dr_data,          \* the frame dr_data_ points to, or 0
  dr_gl_tex,
  dr_fits,          \* that frame is within dr_max_w_ x dr_max_h_
  content_loaded,
  uploaded,         \* the frame in the backend's texture, or 0
  rendered,         \* the last frame given was rendered
  frames            \* frames drawn so far

option_vars == <<option_overrides, options_dirty>>
shim_vars == <<created, game_loaded, hw_requested, hw, color, option_vars,
               reloaded>>
run_vars == <<emitted, drawn, frames>>
core_vars == <<call, then, core_objects, core_values, run_vars>>
gl_vars == <<host_gl, current, textures, loads>>
kept_vars == <<dr_fits, content_loaded>>
frame_vars == <<dr_have, dr_dupe, dr_is_gl, dr_data, dr_gl_tex, uploaded,
                rendered, kept_vars>>
vars == <<shim_vars, core_vars, gl_vars, frame_vars>>

Unset == "unset"
Idle == call = "none"

Init ==
  /\ created = FALSE /\ game_loaded = FALSE /\ hw_requested = FALSE
  /\ hw = "none" /\ color = 0 /\ reloaded = FALSE
  /\ option_overrides = [k \in Keys |-> Unset] /\ options_dirty = FALSE
  /\ call = "none" /\ then = "unload" /\ core_objects = FALSE
  /\ core_values = [k \in Keys |-> Default]
  /\ emitted = 0 /\ drawn = 0 /\ frames = 0
  /\ host_gl \in BOOLEAN
  /\ current = IF host_gl THEN "host" ELSE "none"
  /\ textures = {} /\ loads = 0
  /\ dr_have = FALSE /\ dr_dupe = FALSE /\ dr_is_gl = FALSE
  /\ dr_data = 0 /\ dr_gl_tex = 0 /\ uploaded = 0 /\ rendered = FALSE
  /\ dr_fits = TRUE /\ content_loaded = FALSE

-----------------------------------------------------------------------------
\* Options.

\* GET_VARIABLE and core_option_get serve the override, else the default.
Effective ==
  [k \in Keys |-> IF option_overrides[k] = Unset THEN Default
                                                 ELSE option_overrides[k]]

\* Faulty variant: the latch is raised by an option's first override only.
DirtyOnce(k, v) ==
  /\ Idle /\ created
  /\ option_overrides' = [option_overrides EXCEPT ![k] = v]
  /\ options_dirty' = (options_dirty \/ option_overrides[k] = Unset)
  /\ UNCHANGED <<created, game_loaded, hw_requested, hw, color, reloaded,
                 core_vars, gl_vars, frame_vars>>
sh_core_option_set(k, v) ==
  /\ Idle /\ created
  /\ option_overrides' = [option_overrides EXCEPT ![k] = v]
  /\ options_dirty' = TRUE
  /\ UNCHANGED <<created, game_loaded, hw_requested, hw, color, reloaded,
                 core_vars, gl_vars, frame_vars>>

\* The core polls GET_VARIABLE_UPDATE, which lowers the latch, and reads its
\* options again if it was raised.
GetVariableUpdate ==
  /\ options_dirty' = FALSE
  /\ core_values' = IF options_dirty THEN Effective ELSE core_values
  /\ UNCHANGED option_overrides

-----------------------------------------------------------------------------
\* Loading.

\* A new Shim; the core declares its options (SET_VARIABLES and the others).
\* A core's DLL that cannot be opened or used leaves none.
FreshShim ==
  /\ created' = TRUE
  /\ option_overrides' = [k \in Keys |-> Unset] /\ options_dirty' = FALSE
  /\ UNCHANGED <<game_loaded, hw_requested, hw, color, reloaded>>

sh_create ==
  /\ Idle /\ ~created
  /\ FreshShim
  /\ UNCHANGED <<core_vars, gl_vars, frame_vars>>

\* sh_load_content enters retro_load_game, in whatever context is current.
sh_load_content ==
  /\ Idle /\ created
  /\ call' = "load_game"
  /\ reloaded' = (reloaded \/ game_loaded)
  /\ UNCHANGED <<created, game_loaded, hw_requested, hw, color, option_vars,
                 then, core_objects, core_values, run_vars, gl_vars,
                 frame_vars>>

\* Runtime::load_content after the core has the content: the greatest size of
\* a frame is read, unless what the core says of it is unusable.
Loaded ==
  \/ content_loaded' = TRUE /\ dr_fits' \in BOOLEAN
  \/ UNCHANGED kept_vars

\* The core reads its options and may ask for OpenGL (SET_HW_RENDER); the
\* content may not be one it knows.
LoadGame(ok, asks) ==
  /\ call = "load_game"
  /\ core_values' = Effective
  /\ game_loaded' = (game_loaded \/ ok)
  /\ hw_requested' = (hw_requested \/ asks)
  /\ call' = IF ok /\ hw_requested' THEN "setup" ELSE "none"
  /\ IF ok /\ ~hw_requested' THEN Loaded ELSE UNCHANGED kept_vars
  /\ UNCHANGED <<created, hw, color, reloaded, option_vars, then, core_objects,
                 run_vars, gl_vars, dr_have, dr_dupe, dr_is_gl, dr_data,
                 dr_gl_tex, uploaded, rendered>>

\* A new HwRenderGL takes the place of the last, whose texture goes, and the
\* pixels it read back with it.
ReplaceContext(new) ==
  /\ textures' = (textures \ {color}) \union new
  /\ drawn' = 0
  /\ dr_data' = IF dr_data = drawn THEN 0 ELSE dr_data

\* HwRenderGL::setup: a context shared with the host's, or if that fails or the
\* host is not OpenGL one of its own, with a framebuffer.
setup ==
  /\ call = "setup" /\ loads < MaxLoads
  /\ hw' \in {"standalone", IF host_gl THEN "shared" ELSE "standalone"}
  /\ loads' = loads + 1
  /\ color' = loads'
  /\ ReplaceContext({loads'})
  /\ current' = "shim"
  /\ call' = "context_reset"
  /\ UNCHANGED <<created, game_loaded, hw_requested, reloaded, option_vars,
                 then, core_objects, core_values, emitted, frames, host_gl,
                 dr_have, dr_dupe, dr_is_gl, dr_gl_tex, uploaded, rendered,
                 kept_vars>>

\* No context, or a framebuffer that is not complete: the core unloads the
\* game, while the host's, the new or no context is current.  A context it had
\* is gone without its context_destroy.
SetupFails ==
  /\ call = "setup"
  /\ hw' = "none" /\ color' = 0
  /\ ReplaceContext({})
  /\ current' \in {IF hw = "none" THEN current ELSE "none", "shim", "none"}
  /\ call' = "unwind"
  /\ UNCHANGED <<created, game_loaded, hw_requested, reloaded, option_vars,
                 then, core_objects, core_values, emitted, frames, host_gl,
                 loads, dr_have, dr_dupe, dr_is_gl, dr_gl_tex, uploaded,
                 rendered, kept_vars>>

Unwind ==
  /\ call = "unwind"
  /\ game_loaded' = FALSE
  /\ current' = IF current = "shim" THEN "none" ELSE current
  /\ call' = "none"
  /\ UNCHANGED <<created, hw_requested, hw, color, reloaded, option_vars, then,
                 core_objects, core_values, run_vars, host_gl, textures, loads,
                 frame_vars>>

ContextReset ==
  /\ call = "context_reset"
  /\ core_objects' = TRUE
  /\ call' = "none"
  /\ Loaded
  /\ UNCHANGED <<shim_vars, then, core_values, run_vars, gl_vars, dr_have,
                 dr_dupe, dr_is_gl, dr_data, dr_gl_tex, uploaded, rendered>>

-----------------------------------------------------------------------------
\* The core's state, for save_state, load_state, rewind and the rewind ring:
\* sh_serialize_size, sh_serialize and sh_unserialize call the core in
\* whatever context is current.

sh_serialize ==
  /\ Idle /\ created
  /\ call' = "serialize"
  /\ UNCHANGED <<shim_vars, then, core_objects, core_values, run_vars, gl_vars,
                 frame_vars>>

Serialized ==
  /\ call = "serialize"
  /\ call' = "none"
  /\ UNCHANGED <<shim_vars, then, core_objects, core_values, run_vars, gl_vars,
                 frame_vars>>

-----------------------------------------------------------------------------
\* A frame: Runtime::advance, sh_run_frame, the core's callbacks.

\* Without a game, after a load that failed, no frame is run.
sh_run_frame ==
  /\ Idle /\ created /\ content_loaded
  /\ dr_have' = FALSE
  /\ IF game_loaded
       THEN /\ current' = IF hw # "none" THEN "shim" ELSE current
            /\ call' = "run"
       ELSE UNCHANGED <<current, call>>
  /\ UNCHANGED <<shim_vars, then, core_objects, core_values, run_vars, host_gl,
                 textures, loads, dr_dupe, dr_is_gl, dr_data, dr_gl_tex,
                 uploaded, rendered, kept_vars>>

\* on_video_refresh: pixels, or with none the frame before.  While the last
\* frame is a texture, none means that texture.
\* Faulty variant: none always means the pixels before.
DupeClearsGl(data) ==
  /\ dr_have' = TRUE
  /\ dr_dupe' = (data = 0) /\ dr_is_gl' = FALSE /\ dr_data' = data
  /\ UNCHANGED dr_gl_tex
on_video_refresh(data) ==
  /\ dr_have' = TRUE
  /\ IF data = 0 /\ dr_is_gl
       THEN UNCHANGED <<dr_dupe, dr_is_gl, dr_data>>
       ELSE dr_dupe' = (data = 0) /\ dr_is_gl' = FALSE /\ dr_data' = data
  /\ UNCHANGED dr_gl_tex

on_video_refresh_gl(tex) ==
  /\ dr_have' = TRUE /\ dr_dupe' = FALSE /\ dr_is_gl' = TRUE
  /\ dr_gl_tex' = tex
  /\ UNCHANGED dr_data

\* video_cb, for a frame the core drew into its framebuffer: the texture if
\* the contexts share, else the pixels read back.
video_cb_hw(frame) ==
  IF hw = "shared" THEN on_video_refresh_gl(color) ELSE on_video_refresh(frame)

\* retro_run: the core draws a frame with OpenGL or in memory, where it may be
\* larger than what Runtime::load_content read ("big": read_frame clamps what
\* OpenGL drew, env_cb accepts a new geometry and nobody looks at it), repeats
\* the one before, or gives none.
retro_run(kind) ==
  /\ call = "run"
  /\ GetVariableUpdate
  /\ IF kind \in {"hw", "sw", "big"}
       THEN /\ frames < MaxFrames
            /\ frames' = frames + 1 /\ emitted' = frames' /\ rendered' = FALSE
            /\ reloaded' = FALSE /\ dr_fits' = (kind # "big")
       ELSE UNCHANGED <<frames, emitted, rendered, reloaded, dr_fits>>
  /\ drawn' = IF kind = "hw" THEN emitted' ELSE drawn
  /\ \/ kind = "hw" /\ core_objects /\ video_cb_hw(emitted')
     \/ kind \in {"sw", "big"} /\ on_video_refresh(emitted')
     \/ kind = "dupe" /\ on_video_refresh(0)
     \/ /\ kind = "nothing"
        /\ UNCHANGED <<dr_have, dr_dupe, dr_is_gl, dr_data, dr_gl_tex>>
  /\ call' = "none"
  /\ UNCHANGED <<created, game_loaded, hw_requested, hw, color, then,
                 core_objects, gl_vars, uploaded, content_loaded>>

\* What Runtime::render has the backend show: the texture, the pixels if
\* driven_frame_valid, or the pixels uploaded last.
Displayed ==
  IF dr_have /\ dr_is_gl THEN drawn
    ELSE IF dr_have /\ ~dr_dupe /\ dr_fits THEN dr_data ELSE uploaded

\* The core's texture is drawn as it is.
composite_external_gl ==
  dr_have /\ dr_is_gl /\ UNCHANGED uploaded

\* The pixels are uploaded into the backend's texture, which is drawn.
composite_driven ==
  ~(dr_have /\ dr_is_gl) /\ uploaded' = Displayed

\* The OpenGL backend makes the host's context current and leaves it so.
render ==
  /\ Idle /\ created
  /\ current' = IF host_gl THEN "host" ELSE current
  /\ composite_external_gl \/ composite_driven
  /\ rendered' = (rendered \/ Displayed = emitted)
  /\ UNCHANGED <<shim_vars, core_vars, host_gl, textures, loads, dr_have,
                 dr_dupe, dr_is_gl, dr_data, dr_gl_tex, kept_vars>>

\* resize has the OpenGL backend make its target again.
resize ==
  /\ Idle /\ host_gl
  /\ current' = "host"
  /\ UNCHANGED <<shim_vars, core_vars, host_gl, textures, loads, frame_vars>>

-----------------------------------------------------------------------------
\* The end of an instance: unload_core, or reset, which makes a new one.

Forget ==
  /\ dr_have' = FALSE /\ dr_dupe' = FALSE /\ dr_is_gl' = FALSE
  /\ dr_data' = 0 /\ dr_gl_tex' = 0 /\ rendered' = FALSE
  /\ content_loaded' = FALSE
  /\ UNCHANGED <<uploaded, dr_fits>>

\* sh_destroy makes the core's context current for all the core does to end.
\* Faulty variant: it leaves the one that is.
EndAsIs ==
  /\ call' = IF hw # "none" THEN "context_destroy"
               ELSE IF game_loaded THEN "unload_game" ELSE "deinit"
  /\ UNCHANGED <<shim_vars, core_objects, core_values, run_vars, gl_vars>>
sh_destroy ==
  /\ current' = IF hw # "none" THEN "shim" ELSE current
  /\ call' = IF hw # "none" THEN "context_destroy"
               ELSE IF game_loaded THEN "unload_game" ELSE "deinit"
  /\ UNCHANGED <<shim_vars, core_objects, core_values, run_vars, host_gl,
                 textures, loads>>

unload_core ==
  /\ Idle /\ created
  /\ then' = "unload"
  /\ sh_destroy
  /\ UNCHANGED frame_vars

\* Faulty variant: the texture of the old instance is kept.
KeepTexture ==
  /\ Idle /\ created
  /\ then' = IF content_loaded THEN "reload" ELSE "recreate"
  /\ sh_destroy
  /\ UNCHANGED frame_vars
reset ==
  /\ Idle /\ created
  /\ then' = IF content_loaded THEN "reload" ELSE "recreate"
  /\ sh_destroy
  /\ Forget

\* The core's own functions, in the order sh_destroy calls them.
CoreEnds ==
  /\ \/ call = "context_destroy" /\ core_objects' = FALSE
     \/ call = "unload_game" /\ UNCHANGED core_objects
  /\ call' = IF call = "context_destroy" /\ game_loaded
               THEN "unload_game" ELSE "deinit"
  /\ UNCHANGED <<shim_vars, then, core_values, run_vars, gl_vars, frame_vars>>

\* The Shim is deleted, its texture in its context and the context with it;
\* unload_core then forgets the frame.  After reset, an instance that cannot be
\* made unloads the core too.
Deleted ==
  /\ call = "deinit"
  /\ textures' = IF hw # "none" THEN textures \ {color} ELSE textures
  /\ current' = IF hw # "none" THEN "none" ELSE current
  /\ game_loaded' = FALSE /\ hw_requested' = FALSE
  /\ core_objects' = FALSE /\ reloaded' = FALSE
  /\ hw' = "none" /\ color' = 0 /\ emitted' = 0 /\ drawn' = 0
  /\ \/ /\ then # "unload"
        /\ created' = TRUE
        /\ call' = IF then = "reload" THEN "load_game" ELSE "none"
        /\ UNCHANGED frame_vars
     \/ /\ created' = FALSE
        /\ call' = "none"
        /\ Forget
  /\ option_overrides' = [k \in Keys |-> Unset] /\ options_dirty' = FALSE
  /\ UNCHANGED <<then, core_values, frames, host_gl, loads>>

-----------------------------------------------------------------------------
Next ==
  \/ \E k \in Keys, v \in Values : sh_core_option_set(k, v)
  \/ sh_create \/ sh_load_content
  \/ \E ok, asks \in BOOLEAN : LoadGame(ok, asks)
  \/ setup \/ SetupFails \/ Unwind \/ ContextReset
  \/ sh_serialize \/ Serialized
  \/ sh_run_frame
  \/ \E kind \in {"hw", "sw", "big", "dupe", "nothing"} : retro_run(kind)
  \/ render \/ resize
  \/ unload_core \/ reset \/ CoreEnds \/ Deleted

Spec == Init /\ [][Next]_vars

-----------------------------------------------------------------------------
\* The type of the shim's state and of what the runtime keeps of it.
TypeOK ==
  /\ {created, game_loaded, hw_requested, core_objects, options_dirty, host_gl,
      dr_have, dr_dupe, dr_is_gl, rendered, reloaded, dr_fits,
      content_loaded} \subseteq BOOLEAN
  /\ hw \in {"none", "standalone", "shared"}
  /\ current \in {"none", "host", "shim"}
  /\ core_values \in [Keys -> Values]
  /\ option_overrides \in [Keys -> Values \union {Unset}]
  /\ {emitted, drawn, frames, dr_data, uploaded} \subseteq 0..MaxFrames
  /\ textures \subseteq 1..MaxLoads /\ loads \in 0..MaxLoads

\* A core that has an OpenGL context builds its objects, runs its frames and
\* cleans up only while that context is current, whatever the host drew in
\* between (the host's objects have the same names in a context of their own),
\* and its objects do not outlive the context.  Its load_game and its
\* serialization run in whatever context is current, as the code calls them;
\* loading again into an instance destroys the context with the objects in it.
CoreOnOwnContext ==
  /\ (/\ call \in {"context_reset", "run", "context_destroy", "unload_game",
                    "deinit"}
      /\ hw # "none") => current = "shim"
  /\ core_objects => hw # "none" \/ reloaded

\* The texture that render would show exists, also after a reboot or an unload,
\* unless content was loaded again into the same instance and no frame drawn
\* since: then the texture may be gone.  No texture outlives its core in the
\* textures it shares with the host, whatever was loaded or failed to load.
TexturesOwned ==
  Idle =>
    /\ dr_have /\ dr_is_gl => dr_gl_tex \in textures \/ reloaded
    /\ textures = IF hw = "none" THEN {} ELSE {color}

\* An option that was set reaches the core: unless the latch still tells it to
\* read again, it runs with the values core_option_get returns.
NoStaleOption ==
  Idle /\ game_loaded /\ ~options_dirty => core_values = Effective

\* What is shown is the last frame the core gave, be it pixels or a texture, as
\* long as the frame is within the size read when the content was loaded, the
\* core repeats only frames that were rendered, a core with a texture gives a
\* frame or a repeat, and a frame was given since content was loaded again.
ShowsLatest ==
  Idle /\ emitted > 0 /\ ~reloaded =>
    /\ dr_have /\ (dr_is_gl \/ (~dr_dupe /\ dr_fits)) => Displayed = emitted
    /\ rendered /\ ~dr_is_gl => Displayed = emitted

\* Claimed, not kept: env_cb accepts a new geometry because the shim "requeries
\* av_info each present", so that a larger frame would be shown as well.  It is
\* read only when content is loaded, and the frame is treated as a repeat.
GrownFrameShown ==
  Idle /\ emitted > 0 /\ ~reloaded /\ dr_have /\ ~dr_dupe =>
    Displayed = emitted
=============================================================================
