------------------------------- MODULE Runtime -------------------------------
(***************************************************************************)
(* The host runtime: one core at a time is loaded, fed content, advanced or *)
(* started, paused, rewound, resized, reset and unloaded, after             *)
(* src/src/runtime/Runtime.cpp, src/src/loader/CoreLoader.cpp and           *)
(* src/src/runtime/RewindRing.h.                                            *)
(*                                                                          *)
(* The API calls are made from one thread and call each other (reset runs   *)
(* finish_load_core, which runs rebuild_surfaces or unload_core ...), so    *)
(* each function is an operator from the runtime's state, before, to its    *)
(* state after, and every public call is one action.  A call stops at its   *)
(* first failing step, so a call is given the step that fails in it         *)
(* ("bad"), or "none".  A content the core refuses leaves the one before in *)
(* it ("content") or, where the core unwinds its own load, none             *)
(* ("content_lost").                                                        *)
(*                                                                          *)
(* Only the age of a reference matters: a pointer into a core instance is   *)
(* "live", or "context" if what it points to belongs to the core's OpenGL   *)
(* context, until that instance is destroyed and "freed" from then on; one  *)
(* into a context that another load has replaced is "replaced".  A set      *)
(* of surfaces is "current" until the ring is reallocated and "old" after,  *)
(* and an allocation that fails has already destroyed the ones before       *)
(* (surfaces = "lost") while the ring goes on as it was.                    *)
(* The emulated machine is a clock that each frame moves on by one.         *)
(***************************************************************************)
EXTENDS Integers, Sequences, SequencesExt

CONSTANTS
  Cores,            \* the cores that can be loaded
  Presenting(_),    \* rp_core_type: the core renders and starts by itself
  TakesContent(_),  \* its ABI has load_content
  Serializes(_),    \* its serialize_size is not 0
  Contents,         \* paths
  Nothing,          \* no core, no content, no path
  Limits,           \* max_snapshots values given to set_rewind
  DefaultLimit,     \* the limit used for 0 (600)
  MaxTime           \* bound: frames the clock of a core runs to

ASSUME CoresAssumption ==
  /\ Nothing \notin Cores \union Contents
  /\ \A c \in Cores : /\ Presenting(c) \in BOOLEAN
                      /\ TakesContent(c) \in BOOLEAN
                      /\ Serializes(c) \in BOOLEAN
ASSUME LimitsAssumption == Limits \subseteq Nat /\ DefaultLimit \in Nat \ {0}
ASSUME TimeAssumption == MaxTime \in Nat

VARIABLE rt

\* What a driven core hands back in a frame: pixels of its own or read back
\* from its OpenGL context, a duplicate, a GL texture, or no callback at all.
Deliveries == {"pixels", "readback", "dupe", "texture", "none"}

Ok(s) == s.result = "OK"
Return(s, r) == [s EXCEPT !.result = r]

Freed(p) == IF p = "null" THEN p ELSE "freed"
Replaced(p) == IF p = "context" THEN "replaced" ELSE p
FreedSnapshots(ring) ==
  [i \in DOMAIN ring |-> [ring[i] EXCEPT !.of = Freed(@)]]
Aged(g) == IF g = "current" THEN "old" ELSE g

Driven(s) == s.core_loaded /\ s.core_type = "DRIVEN"

-----------------------------------------------------------------------------
\* CoreLoader.  The instance's own state goes with it, and every pointer into
\* it dangles from here on.
destroy(s) ==
  [s EXCEPT !.loader = "Unloaded", !.game = Nothing, !.time = 0, !.given = "none",
            !.dr_data = Freed(@), !.dr_gl_tex = Freed(@),
            !.rewind_ring = FreedSnapshots(@)]

create(s) == [s EXCEPT !.loader = "Created"]

stop(s) == IF s.loader = "Started" THEN [s EXCEPT !.loader = "Created"] ELSE s

start(s, bad) ==
  IF bad = "start" THEN Return(s, "ERR")
  ELSE [s EXCEPT !.loader = "Started", !.result = "OK"]

-----------------------------------------------------------------------------
unload_core(s) ==
  IF ~s.core_loaded /\ s.loader = "Unloaded" THEN Return(s, "OK")
  ELSE [destroy(s) EXCEPT
          !.module = Nothing, !.core_loaded = FALSE, !.core_type = "PRESENTING",
          !.dr_data = "null", !.dr_dupe = FALSE, !.dr_have = FALSE,
          !.dr_is_gl = FALSE, !.dr_gl_tex = "null",
          !.requires_content = FALSE, !.content_loaded = FALSE,
          !.audio = FALSE, !.rewind_ring = <<>>, !.rewind_enabled = FALSE,
          !.rewind_replay = FALSE, !.rewind_max = 0, !.disturbed = FALSE,
          !.paused = FALSE, !.have_last_ready = FALSE, !.last_ready = "none",
          !.content_path = Nothing, !.result = "OK"]

\* open_audio: best effort, so it may leave audio_ as it was.
open_audio(s, opens) == IF opens THEN [s EXCEPT !.audio = TRUE] ELSE s

\* Faulty variant: the frame kept for a paused display survives the rebuild.
KeepLastReady(s) ==
  [s EXCEPT !.given = Aged(@), !.last_ready = Aged(@), !.has_ready = FALSE,
            !.surfaces = "whole"]

\* SurfaceRing::reallocate and the reset that goes with it.
NewGeneration(s) ==
  [s EXCEPT !.given = Aged(@), !.last_ready = "none", !.has_ready = FALSE,
            !.have_last_ready = FALSE, !.surfaces = "whole"]

\* allocate_surfaces fails, with the surfaces before already destroyed.
LoseSurfaces(s) == [s EXCEPT !.last_ready = Aged(@), !.surfaces = "lost"]

rebuild_surfaces(s, bad) ==
  LET stopped == stop(s)
      fresh   == NewGeneration(stopped)
  IN  IF bad = "allocate" THEN Return(LoseSurfaces(stopped), "ERR")
      ELSE IF ~(s.core_type = "PRESENTING" /\ stopped.loader = "Created")
           THEN Return(fresh, "OK")
      ELSE IF bad = "set_surfaces" THEN Return(fresh, "ERR")
      ELSE [fresh EXCEPT !.given = "current", !.result = "OK"]

resize(s, bad) ==
  IF ~s.core_loaded
  THEN [s EXCEPT !.init_ok = (bad # "initialize"),
                 !.result = IF bad = "initialize" THEN "ERR" ELSE "OK"]
  ELSE IF ~s.init_ok THEN Return(s, "ERR")
  ELSE LET r == rebuild_surfaces(s, bad) IN
       IF Ok(r) /\ r.core_type = "PRESENTING" /\ r.loader = "Created"
       THEN start(r, bad) ELSE r

-----------------------------------------------------------------------------
finish_load_core(s, type, bad, sound) ==
  LET taken == [s EXCEPT !.core_loaded = TRUE, !.core_type = type,
                         !.requires_content = TakesContent(s.module),
                         !.content_loaded = FALSE]
      rebuilt == rebuild_surfaces(taken, bad)
      started == start(rebuilt, bad)
  IN  IF type = "DRIVEN"
      THEN IF taken.requires_content THEN Return(taken, "OK")
           ELSE IF bad = "av" THEN Return(unload_core(taken), "ERR")
           ELSE Return(open_audio(taken, sound), "OK")
      ELSE IF ~Ok(rebuilt) THEN Return(unload_core(rebuilt), "ERR")
           ELSE IF taken.requires_content THEN rebuilt
           ELSE IF Ok(started) THEN started
           ELSE Return(unload_core(started), "ERR")

TypeOf(c) == IF Presenting(c) THEN "PRESENTING" ELSE "DRIVEN"

\* load_core and load_static_core: they differ in where the module comes from
\* (a core directory with its manifest, or the static registry) and in when
\* the type and the graphics API are looked at, before or after "abi".
load_core(s, c, bad, sound) ==
  IF ~s.init_ok THEN Return(s, "ERR")
  ELSE LET clean == unload_core(s) IN
       IF bad \in {"find", "abi", "create"} THEN Return(clean, "ERR")
       ELSE finish_load_core(create([clean EXCEPT !.module = c]), TypeOf(c),
                             bad, sound)

\* sh_load_content of a core with OpenGL puts a new context in the place of
\* the one it has; the runtime goes on pointing to the last frame.
NewContext(s) ==
  [s EXCEPT !.dr_data = Replaced(@), !.dr_gl_tex = Replaced(@)]

\* What the core itself makes of load_content.
CoreLoadContent(s, path, bad) ==
  IF ~TakesContent(s.module) THEN Return(s, "ERR")
  ELSE CASE bad = "content"      -> Return(s, "ERR")
         [] bad = "content_lost" ->
              Return([NewContext(s) EXCEPT !.game = Nothing], "ERR")
         [] OTHER ->
              [NewContext(s) EXCEPT !.game = path, !.time = 0, !.result = "OK",
                                    !.disturbed = @ \/ s.rewind_ring # <<>>]

load_content(s, path, bad, sound) ==
  IF ~s.core_loaded THEN Return(s, "ERR")
  ELSE LET noted == [s EXCEPT !.content_path = path]
           r     == CoreLoadContent(noted, path, bad)
           taken == [r EXCEPT !.content_loaded = TRUE]
           up    == IF taken.loader = "Started" THEN taken ELSE start(taken, bad)
       IN  IF s.core_type = "PRESENTING"
           THEN IF ~s.requires_content THEN Return(noted, "ERR")
                ELSE IF ~Ok(r) THEN r
                ELSE IF ~Ok(up) THEN up
                ELSE open_audio(up, sound)
           ELSE IF ~Ok(r) THEN r
                ELSE IF bad = "av" THEN Return(r, "ERR")
                ELSE open_audio(taken, sound)

-----------------------------------------------------------------------------
rewind_ring_push(snaps, snap, max) ==
  LET longer == Append(snaps, snap) IN
  IF Len(longer) > max
  THEN SubSeq(longer, Len(longer) - max + 1, Len(longer)) ELSE longer

\* Faulty variant: the frame shown again after a rewind is captured too.
CaptureReplay(s, bad) ==
  IF s.rewind_enabled /\ Serializes(s.module)
  THEN [s EXCEPT !.rewind_replay = FALSE,
                 !.rewind_ring =
                   rewind_ring_push(@, [time |-> s.time, of |-> "live"],
                                    s.rewind_max)]
  ELSE s

capture(s, bad) ==
  IF s.rewind_replay THEN [s EXCEPT !.rewind_replay = FALSE]
  ELSE IF ~(s.rewind_enabled /\ Serializes(s.module)) THEN s
  ELSE IF bad = "serialize" THEN [s EXCEPT !.disturbed = TRUE]
  ELSE [s EXCEPT !.rewind_ring =
          rewind_ring_push(@, [time |-> s.time, of |-> "live"], s.rewind_max)]

\* on_video_refresh and on_video_refresh_gl, called by the core in run_frame.
deliver(s, d) ==
  CASE d = "none"    -> s
    [] d = "texture" -> [s EXCEPT !.dr_have = TRUE, !.dr_dupe = FALSE,
                                  !.dr_is_gl = TRUE, !.dr_gl_tex = "context"]
    [] d = "dupe" /\ s.dr_is_gl -> [s EXCEPT !.dr_have = TRUE]
    [] OTHER -> [s EXCEPT !.dr_have = TRUE, !.dr_dupe = (d = "dupe"),
                          !.dr_is_gl = FALSE,
                          !.dr_data = CASE d = "dupe"     -> "null"
                                        [] d = "readback" -> "context"
                                        [] OTHER          -> "live"]

\* A core whose game is gone runs no frame.
run_frame(s, d) ==
  IF s.requires_content /\ s.game = Nothing
  THEN [s EXCEPT !.disturbed = TRUE]
  ELSE [deliver(s, d) EXCEPT !.time = @ + 1]

advance(s, d, bad) ==
  IF ~Driven(s) \/ (s.requires_content /\ ~s.content_loaded)
  THEN Return(s, "ERR")
  ELSE Return(run_frame([capture(s, bad) EXCEPT !.dr_have = FALSE], d), "OK")

\* For a driven core render only reads dr_*.
render(s) ==
  IF Driven(s) \/ s.paused \/ ~s.has_ready THEN Return(s, "OK")
  ELSE [s EXCEPT !.have_last_ready = TRUE, !.result = "OK",
                 !.last_ready = IF s.surfaces = "lost" THEN "old" ELSE "current"]

present(s, d, bad) ==
  IF Driven(s) /\ ~s.paused
  THEN LET a == advance(s, d, bad) IN IF Ok(a) THEN render(a) ELSE a
  ELSE render(s)

HasState(s) == s.loader \in {"Created", "Started"} /\ Serializes(s.module)

load_state(s, t, bad) ==
  IF ~HasState(s) \/ bad = "unserialize" THEN Return(s, "ERR")
  ELSE [s EXCEPT !.time = t, !.disturbed = TRUE, !.result = "OK"]

set_rewind(s, enabled, max) ==
  IF ~HasState(s) THEN Return(s, "ERR")
  ELSE [s EXCEPT !.rewind_enabled = enabled,
                 !.rewind_max = IF max = 0 THEN DefaultLimit ELSE max,
                 !.rewind_ring = <<>>, !.rewind_replay = FALSE,
                 !.disturbed = FALSE, !.result = "OK"]

rewind(s, bad) ==
  IF ~s.rewind_enabled \/ Len(s.rewind_ring) < 2 THEN Return(s, "ERR")
  ELSE LET back == [s EXCEPT !.rewind_ring = Front(@), !.rewind_replay = TRUE] IN
       IF bad = "unserialize"
       THEN [back EXCEPT !.disturbed = TRUE, !.result = "ERR"]
       ELSE [back EXCEPT !.time = Last(back.rewind_ring).time, !.result = "OK"]

pause(s)  == [s EXCEPT !.paused = @ \/ s.core_loaded, !.result = "OK"]
resume(s) == [s EXCEPT !.paused = FALSE, !.result = "OK"]

\* Faulty variant: the delivered frame is kept over the reboot.
KeepFrame(s) ==
  [s EXCEPT !.paused = FALSE, !.have_last_ready = FALSE, !.last_ready = "none",
            !.rewind_ring = <<>>, !.rewind_replay = FALSE, !.disturbed = FALSE,
            !.content_loaded = FALSE]

\* What reset drops before it destroys the instance.
forget(s) ==
  [s EXCEPT !.paused = FALSE, !.have_last_ready = FALSE, !.last_ready = "none",
            !.dr_have = FALSE, !.dr_data = "null", !.dr_dupe = FALSE,
            !.dr_is_gl = FALSE, !.dr_gl_tex = "null",
            !.rewind_ring = <<>>, !.rewind_replay = FALSE, !.disturbed = FALSE,
            !.content_loaded = FALSE]

\* Faulty variant: a reboot that fails early only reports it.
ResetOnlyReports(s, bad, sound) ==
  IF ~s.core_loaded THEN [s EXCEPT !.paused = FALSE, !.result = "OK"]
  ELSE LET gone == destroy(forget(s))
           r    == finish_load_core(create(gone), gone.core_type, bad, sound)
       IN  IF bad \in {"abi", "create"} THEN Return(gone, "ERR")
           ELSE IF ~Ok(r) \/ ~s.content_loaded THEN r
           ELSE load_content(r, s.content_path, bad, sound)

reset(s, bad, sound) ==
  IF ~s.core_loaded THEN [s EXCEPT !.paused = FALSE, !.result = "OK"]
  ELSE LET gone == destroy(forget(s))
           r    == finish_load_core(create(gone), gone.core_type, bad, sound)
       IN  IF bad \in {"abi", "create"} THEN Return(unload_core(gone), "ERR")
           ELSE IF ~Ok(r) \/ ~s.content_loaded THEN r
           ELSE load_content(r, s.content_path, bad, sound)

\* Runtime::on_submit, from the started core's own thread.
on_submit(s) == IF s.given = "current" THEN [s EXCEPT !.has_ready = TRUE] ELSE s

-----------------------------------------------------------------------------
\* A new Runtime; the constructor's initialize may have failed.
Init ==
  \E ok \in BOOLEAN :
    rt = [init_ok |-> ok, core_loaded |-> FALSE, core_type |-> "PRESENTING",
          module |-> Nothing, loader |-> "Unloaded",
          requires_content |-> FALSE, content_loaded |-> FALSE,
          content_path |-> Nothing,
          dr_have |-> FALSE, dr_dupe |-> FALSE, dr_is_gl |-> FALSE,
          dr_data |-> "null", dr_gl_tex |-> "null",
          rewind_ring |-> <<>>, rewind_enabled |-> FALSE,
          rewind_replay |-> FALSE, rewind_max |-> 0,
          paused |-> FALSE, have_last_ready |-> FALSE, last_ready |-> "none",
          has_ready |-> FALSE, audio |-> FALSE, result |-> "OK",
          game |-> Nothing, time |-> 0, given |-> "none", surfaces |-> "none",
          disturbed |-> FALSE]

\* The result goes to the caller and is not kept.
Done(s) == Return(s, "OK")

LoadSteps == {"none", "find", "abi", "create", "av", "allocate",
              "set_surfaces", "start"}
ContentSteps == {"none", "content", "content_lost", "start", "av"}

LoadCore ==
  \E c \in Cores, bad \in LoadSteps, sound \in BOOLEAN :
    rt' = Done(load_core(rt, c, bad, sound))
UnloadCore == rt' = Done(unload_core(rt))
LoadContent ==
  \E p \in Contents, bad \in ContentSteps, sound \in BOOLEAN :
    rt' = Done(load_content(rt, p, bad, sound))
Resize ==
  \E bad \in {"none", "initialize", "allocate", "set_surfaces", "start"} :
    rt' = Done(resize(rt, bad))
Advance ==
  \E d \in Deliveries, bad \in {"none", "serialize"} :
    rt.time < MaxTime /\ rt' = Done(advance(rt, d, bad))
Present ==
  \E d \in Deliveries, bad \in {"none", "serialize"} :
    rt.time < MaxTime /\ rt' = Done(present(rt, d, bad))
LoadState ==
  \E t \in 0..MaxTime, bad \in {"none", "unserialize"} :
    rt' = Done(load_state(rt, t, bad))
SetRewind ==
  \E on \in BOOLEAN, max \in Limits : rt' = Done(set_rewind(rt, on, max))
Rewind == \E bad \in {"none", "unserialize"} : rt' = Done(rewind(rt, bad))
Pause == rt' = Done(pause(rt))
Resume == rt' = Done(resume(rt))
Reset ==
  \E bad \in LoadSteps \union ContentSteps, sound \in BOOLEAN :
    rt' = Done(reset(rt, bad, sound))
Submit == rt.loader = "Started" /\ rt' = on_submit(rt)

Next ==
  \/ LoadCore \/ UnloadCore \/ LoadContent \/ Resize \/ Advance \/ Present
  \/ LoadState \/ SetRewind \/ Rewind \/ Pause \/ Resume \/ Reset \/ Submit

Spec == Init /\ [][Next]_rt

-----------------------------------------------------------------------------
Snapshots == [time : 0..MaxTime, of : {"live", "freed"}]

\* Types of the runtime's members (Runtime.h).
TypeOK ==
  /\ DOMAIN rt = {"init_ok", "core_loaded", "core_type", "module", "loader",
       "requires_content", "content_loaded", "content_path", "dr_have",
       "dr_dupe", "dr_is_gl", "dr_data", "dr_gl_tex", "rewind_ring",
       "rewind_enabled", "rewind_replay", "rewind_max", "paused",
       "have_last_ready", "last_ready", "has_ready", "audio", "result", "game",
       "time", "given", "surfaces", "disturbed"}
  /\ {rt.init_ok, rt.core_loaded, rt.requires_content, rt.content_loaded,
      rt.dr_have, rt.dr_dupe, rt.dr_is_gl, rt.rewind_enabled,
      rt.rewind_replay, rt.paused, rt.have_last_ready, rt.has_ready, rt.audio,
      rt.disturbed} \subseteq BOOLEAN
  /\ rt.core_type \in {"PRESENTING", "DRIVEN"}
  /\ rt.module \in Cores \union {Nothing}
  /\ rt.loader \in {"Unloaded", "Created", "Started"}
  /\ {rt.content_path, rt.game} \subseteq Contents \union {Nothing}
  /\ {rt.dr_data, rt.dr_gl_tex} \subseteq {"null", "live", "context",
                                          "replaced", "freed"}
  /\ {rt.last_ready, rt.given} \subseteq {"none", "current", "old"}
  /\ rt.surfaces \in {"none", "whole", "lost"}
  /\ rt.rewind_ring \in Seq(Snapshots)
  /\ rt.rewind_max \in Nat
  /\ rt.time \in 0..MaxTime
  /\ rt.result = "OK"

\* Between two calls the flags and the loader agree, whichever step of a load,
\* a reset or a resize failed: a core is loaded exactly when there is a live
\* instance of the module, and content, pause and rewind are its own.
LifecycleConsistent ==
  /\ rt.core_loaded <=> rt.loader \in {"Created", "Started"}
  /\ rt.core_loaded <=> rt.module # Nothing
  /\ rt.core_loaded => /\ rt.init_ok
                       /\ rt.core_type = TypeOf(rt.module)
                       /\ rt.requires_content = TakesContent(rt.module)
  /\ rt.content_loaded => rt.requires_content
  /\ rt.loader = "Started" => Presenting(rt.module) /\ rt.given # "none"
  /\ rt.paused \/ rt.rewind_enabled \/ rt.audio \/ rt.content_path # Nothing
       => rt.core_loaded

\* Nothing the runtime may still read points into a destroyed instance: not
\* the last frame it delivered, nor its GL texture, nor a snapshot ("no
\* pointer into the freed instance ... survives", reset); and what the next
\* render would upload or sample is there, unless it belonged to an OpenGL
\* context that a second load_content of the same instance has replaced: that
\* pointer is kept, and read, until the core delivers another frame.
NoDangling ==
  /\ rt.dr_have /\ ~rt.dr_dupe /\ ~rt.dr_is_gl =>
       rt.dr_data \in {"live", "context", "replaced"}
  /\ rt.dr_have /\ rt.dr_is_gl => rt.dr_gl_tex \in {"context", "replaced"}
  /\ rt.dr_data # "freed"
  /\ rt.dr_gl_tex # "freed"
  /\ \A i \in DOMAIN rt.rewind_ring : rt.rewind_ring[i].of = "live"

\* The frame a paused display repeats is in the surfaces of the ring as it is
\* now: "a stale (idx,sv) would misfire" (rebuild_surfaces).  Only a rebuild
\* whose allocation failed leaves it, and the ring, without surfaces.
FrozenFrameCurrent ==
  rt.have_last_ready /\ rt.surfaces # "lost" => rt.last_ready = "current"

\* While the frames were all captured and nothing but play and rewind has
\* moved the core, the ring is the unbroken history that ends at the frame on
\* screen, within its limit: a rewind steps exactly one frame back.
RewindHistory ==
  LET h == rt.rewind_ring IN
  ~rt.disturbed /\ h # <<>> =>
    /\ Len(h) <= rt.rewind_max
    /\ \A i \in 1..(Len(h) - 1) : h[i + 1].time = h[i].time + 1
    /\ Last(h).time = IF rt.rewind_replay THEN rt.time ELSE rt.time - 1

\* Not kept: what the next render would read is there, whatever was loaded.
\* load_content drops neither dr_data_ nor dr_gl_tex_ when the core it loads
\* into replaces what they point to.
NothingReplaced ==
  rt.dr_have /\ ~rt.dr_dupe =>
    (IF rt.dr_is_gl THEN rt.dr_gl_tex ELSE rt.dr_data) # "replaced"

\* A presenting core that takes content is started after load_content
\* (finish_load_core's comment).  The code does not keep this: resize starts it.
StartedAfterContent ==
  rt.loader = "Started" /\ rt.requires_content => rt.game # Nothing

\* The path kept for reset is the content that runs: "remembered so reset()
\* can reboot the same content" (load_content).  The code does not keep this
\* when a second load_content fails.
RebootsSameContent ==
  rt.content_loaded /\ rt.game # Nothing => rt.content_path = rt.game
=============================================================================
