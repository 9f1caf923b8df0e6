---------------------------- MODULE RuntimeProofs ----------------------------
(***************************************************************************)
(* Proofs about Runtime.  The functions of the runtime call each other, so  *)
(* the invariant is a predicate of a runtime state s, and there is a lemma  *)
(* for each function: what it needs of the state before and makes of it.    *)
(***************************************************************************)
EXTENDS Runtime, TLAPS

Fields == {"init_ok", "core_loaded", "core_type", "module", "loader",
       "requires_content", "content_loaded", "content_path", "dr_have",
       "dr_dupe", "dr_is_gl", "dr_data", "dr_gl_tex", "rewind_ring",
       "rewind_enabled", "rewind_replay", "rewind_max", "paused",
       "have_last_ready", "last_ready", "has_ready", "audio", "result", "game",
       "time", "given", "surfaces", "disturbed"}

History == [time : Nat, of : {"live", "freed"}]

\* Of the types, those that the argument needs.
Flags(s) ==
  /\ s.core_loaded \in BOOLEAN /\ s.requires_content \in BOOLEAN
  /\ s.paused \in BOOLEAN /\ s.rewind_enabled \in BOOLEAN
  /\ s.rewind_replay \in BOOLEAN /\ s.audio \in BOOLEAN
  /\ s.dr_have \in BOOLEAN /\ s.dr_dupe \in BOOLEAN /\ s.dr_is_gl \in BOOLEAN
  /\ s.disturbed \in BOOLEAN
Typed(s) ==
  /\ DOMAIN s = Fields
  /\ Flags(s)
  /\ s.core_type \in {"PRESENTING", "DRIVEN"}
  /\ s.module \in Cores \union {Nothing}
  /\ s.loader \in {"Unloaded", "Created", "Started"}
  /\ s.time \in Nat /\ s.rewind_max \in Nat
  /\ s.rewind_ring \in Seq(History)

\* LifecycleConsistent, but for what a presenting core has been given.
Owned(s) ==
  /\ s.core_loaded <=> s.loader \in {"Created", "Started"}
  /\ s.core_loaded <=> s.module # Nothing
  /\ s.core_loaded => /\ s.init_ok
                      /\ s.core_type = TypeOf(s.module)
                      /\ s.requires_content = TakesContent(s.module)
  /\ s.content_loaded => s.requires_content
  /\ s.paused \/ s.rewind_enabled \/ s.audio \/ s.content_path # Nothing
       => s.core_loaded

\* A presenting core has been given surfaces before anything can start it.
Given(s) ==
  /\ s.loader = "Started" => Presenting(s.module)
  /\ s.core_loaded /\ s.core_type = "PRESENTING" => s.given # "none"

\* NoDangling; and a texture once delivered stays to be shown again.
Alive(s) ==
  /\ s.dr_have /\ ~s.dr_dupe /\ ~s.dr_is_gl =>
       s.dr_data \in {"live", "context", "replaced"}
  /\ s.dr_is_gl => s.dr_gl_tex \in {"context", "replaced"}
  /\ s.dr_data # "freed"
  /\ s.dr_gl_tex # "freed"
  /\ \A i \in DOMAIN s.rewind_ring : s.rewind_ring[i].of = "live"

Frozen(s) ==
  s.have_last_ready /\ s.surfaces # "lost" => s.last_ready = "current"

\* RewindHistory; and only a core that saves its state, with rewind on and a
\* limit above 0, has a history.
Unbroken(h, max, last) ==
  /\ Len(h) <= max
  /\ \A i \in 1..(Len(h) - 1) : h[i + 1].time = h[i].time + 1
  /\ h[Len(h)].time = last
Rewinds(s) ==
  /\ s.rewind_enabled => s.rewind_max >= 1
  /\ s.rewind_ring # <<>> => s.rewind_enabled /\ Serializes(s.module)
  /\ ~s.disturbed /\ s.rewind_ring # <<>> =>
       Unbroken(s.rewind_ring, s.rewind_max,
                IF s.rewind_replay THEN s.time ELSE s.time - 1)

\* The invariant, for a state of the runtime between two calls; within a load
\* a presenting core may not have been given its surfaces yet.
Kept(s) == Typed(s) /\ Owned(s) /\ Alive(s) /\ Frozen(s) /\ Rewinds(s)
Sound(s) == Kept(s) /\ Given(s)

-----------------------------------------------------------------------------
LEMMA ReturnSound ==
  ASSUME NEW s, Sound(s), NEW r
  PROVE  Sound(Return(s, r))
<1>1. Typed(Return(s, r))
  BY DEF Sound, Kept, Typed, Flags, Fields, Return
<1>2. Owned(Return(s, r)) /\ Given(Return(s, r)) /\ Frozen(Return(s, r))
  BY DEF Sound, Kept, Typed, Flags, Fields, Return, Owned, Given, Frozen
<1>3. Alive(Return(s, r)) /\ Rewinds(Return(s, r))
  BY DEF Sound, Kept, Typed, Flags, Fields, Return, Alive, Rewinds
<1> QED BY <1>1, <1>2, <1>3 DEF Sound, Kept

LEMMA UnloadSound ==
  ASSUME NEW s, Typed(s), s.core_loaded \/ Sound(s)
  PROVE  Sound(unload_core(s))
<1>1. CASE ~s.core_loaded /\ s.loader = "Unloaded"
  BY <1>1, ReturnSound DEF unload_core
<1>2. CASE ~(~s.core_loaded /\ s.loader = "Unloaded")
  <2> DEFINE t == unload_core(s)
  <2>1. destroy(s) =
           [s EXCEPT !.loader = "Unloaded", !.game = Nothing, !.time = 0,
                     !.given = "none", !.dr_data = Freed(@),
                     !.dr_gl_tex = Freed(@), !.rewind_ring = FreedSnapshots(@)]
    BY DEF destroy
  <2>2. DOMAIN s = Fields
    BY DEF Typed
  <2>3. PICK d : d = destroy(s)
    OBVIOUS
  <2>4. DOMAIN d = Fields /\ d.loader = "Unloaded" /\ d.time = 0 /\ d.given = "none"
    BY <2>1, <2>2, <2>3 DEF Fields
  <2>5. t = [d EXCEPT
          !.module = Nothing, !.core_loaded = FALSE, !.core_type = "PRESENTING",
          !.dr_data = "null", !.dr_dupe = FALSE, !.dr_have = FALSE,
          !.dr_is_gl = FALSE, !.dr_gl_tex = "null",
          !.requires_content = FALSE, !.content_loaded = FALSE,
          !.audio = FALSE, !.rewind_ring = <<>>, !.rewind_enabled = FALSE,
          !.rewind_replay = FALSE, !.rewind_max = 0, !.disturbed = FALSE,
          !.paused = FALSE, !.have_last_ready = FALSE, !.last_ready = "none",
          !.content_path = Nothing, !.result = "OK"]
    BY <1>2, <2>3 DEF unload_core
  <2> HIDE DEF t
  <2>6. /\ DOMAIN t = Fields
        /\ t.module = Nothing /\ t.core_loaded = FALSE
        /\ t.core_type = "PRESENTING" /\ t.loader = "Unloaded"
        /\ t.dr_data = "null" /\ t.dr_dupe = FALSE /\ t.dr_have = FALSE
        /\ t.dr_is_gl = FALSE /\ t.dr_gl_tex = "null"
        /\ t.requires_content = FALSE /\ t.content_loaded = FALSE
    BY <2>4, <2>5 DEF Fields
  <2>7. /\ t.audio = FALSE /\ t.rewind_ring = <<>> /\ t.rewind_enabled = FALSE
        /\ t.rewind_replay = FALSE /\ t.rewind_max = 0 /\ t.disturbed = FALSE
        /\ t.paused = FALSE /\ t.have_last_ready = FALSE
        /\ t.content_path = Nothing /\ t.time = 0
    BY <2>4, <2>5 DEF Fields
  <2>8. Typed(t)
    <3>1. <<>> \in Seq(History)
      OBVIOUS
    <3>2. Flags(t)
      BY <2>6, <2>7 DEF Flags
    <3> QED BY <2>6, <2>7, <3>1, <3>2 DEF Typed
  <2>9. Owned(t) /\ Given(t) /\ Frozen(t)
    BY <2>6, <2>7, CoresAssumption DEF Owned, Given, Frozen
  <2>10. Alive(t) /\ Rewinds(t)
    <3>1. DOMAIN t.rewind_ring = {}
      BY <2>7
    <3> QED BY <2>6, <2>7, <3>1 DEF Alive, Rewinds
  <2> QED BY <2>8, <2>9, <2>10 DEF Sound, Kept, t
<1> QED BY <1>1, <1>2

LEMMA StopKept ==
  ASSUME NEW s, Kept(s)
  PROVE  LET t == stop(s) IN
         /\ Kept(t) /\ t.loader # "Started"
         /\ t.core_loaded = s.core_loaded /\ t.core_type = s.core_type
         /\ t.module = s.module /\ t.given = s.given
         /\ t.requires_content = s.requires_content
<1> DEFINE t == stop(s)
<1>1. CASE s.loader # "Started"
  BY <1>1 DEF stop
<1>2. CASE s.loader = "Started"
  <2>1. t = [s EXCEPT !.loader = "Created"]
    BY <1>2 DEF stop
  <2> HIDE DEF t
  <2>2. Typed(t)
    BY <2>1 DEF Kept, Typed, Flags, Fields
  <2>3. Owned(t) /\ Frozen(t)
    BY <1>2, <2>1 DEF Kept, Typed, Flags, Fields, Owned, Frozen
  <2>4. Alive(t) /\ Rewinds(t)
    BY <2>1 DEF Kept, Typed, Flags, Fields, Alive, Rewinds
  <2>5. /\ t.loader # "Started"
        /\ t.core_loaded = s.core_loaded /\ t.core_type = s.core_type
        /\ t.module = s.module /\ t.given = s.given
        /\ t.requires_content = s.requires_content
    BY <2>1 DEF Kept, Typed, Fields
  <2> QED BY <2>2, <2>3, <2>4, <2>5 DEF Kept, t
<1> QED BY <1>1, <1>2

LEMMA StartSound ==
  ASSUME NEW s, NEW bad, Sound(s), s.core_loaded, s.core_type = "PRESENTING"
  PROVE  LET t == start(s, bad) IN
         Sound(t) /\ t.core_loaded = s.core_loaded /\ (Ok(t) <=> bad # "start")
<1> DEFINE t == start(s, bad)
<1>1. CASE bad = "start"
  <2>1. t = Return(s, "ERR")
    BY <1>1 DEF start
  <2>2. t.core_loaded = s.core_loaded /\ ~Ok(t)
    BY <2>1 DEF Sound, Kept, Typed, Fields, Return, Ok
  <2> QED BY <1>1, <2>1, <2>2, ReturnSound
<1>2. CASE bad # "start"
  <2>1. t = [s EXCEPT !.loader = "Started", !.result = "OK"]
    BY <1>2 DEF start
  <2> HIDE DEF t
  <2>2. Typed(t)
    BY <2>1 DEF Sound, Kept, Typed, Flags, Fields
  <2>3. s.module \in Cores /\ Presenting(s.module)
    BY CoresAssumption DEF Sound, Kept, Typed, Owned, TypeOf
  <2>4. Owned(t) /\ Frozen(t)
    BY <2>1, <2>3 DEF Sound, Kept, Typed, Flags, Fields, Owned, Frozen
  <2>5. Given(t)
    BY <2>1, <2>3 DEF Sound, Kept, Typed, Flags, Fields, Given
  <2>6. Alive(t) /\ Rewinds(t)
    BY <2>1 DEF Sound, Kept, Typed, Flags, Fields, Alive, Rewinds
  <2>7. t.core_loaded = s.core_loaded /\ Ok(t)
    BY <2>1 DEF Sound, Kept, Typed, Fields, Ok
  <2> QED BY <1>2, <2>2, <2>4, <2>5, <2>6, <2>7 DEF Sound, Kept, t
<1> QED BY <1>1, <1>2

\* What a rebuild of the surfaces leaves of the rest, failed or not; when it
\* is done, a presenting core has the new ones.
LEMMA RebuildKept ==
  ASSUME NEW s, NEW bad, Kept(s), s.core_loaded
  PROVE  LET r == rebuild_surfaces(s, bad) IN
         /\ Kept(r) /\ r.loader = "Created" /\ r.core_loaded
         /\ r.core_type = s.core_type /\ r.module = s.module
         /\ r.requires_content = s.requires_content
         /\ Ok(r) /\ s.core_type = "PRESENTING" => r.given # "none"
         /\ s.given # "none" => r.given # "none"
<1> DEFINE r == rebuild_surfaces(s, bad)
<1>1. PICK t : t = stop(s)
  OBVIOUS
<1>2. /\ Kept(t) /\ t.loader # "Started"
      /\ t.core_loaded = s.core_loaded /\ t.core_type = s.core_type
      /\ t.module = s.module /\ t.given = s.given
      /\ t.requires_content = s.requires_content
  BY <1>1, StopKept
<1>3. t.core_loaded /\ t.loader = "Created"
  BY <1>2 DEF Kept, Typed, Owned
<1>4. CASE bad = "allocate"
  <2>1. r = [[t EXCEPT !.last_ready = Aged(@), !.surfaces = "lost"]
              EXCEPT !.result = "ERR"]
    BY <1>1, <1>4 DEF rebuild_surfaces, LoseSurfaces, Return
  <2> HIDE DEF r
  <2>2. Typed(r)
    BY <1>2, <2>1 DEF Kept, Typed, Flags, Fields
  <2>3. Owned(r) /\ Frozen(r)
    BY <1>2, <2>1 DEF Kept, Typed, Flags, Fields, Owned, Frozen
  <2>4. Alive(r) /\ Rewinds(r)
    BY <1>2, <2>1 DEF Kept, Typed, Flags, Fields, Alive, Rewinds
  <2>5. /\ r.loader = "Created" /\ r.core_loaded /\ ~Ok(r)
        /\ r.core_type = s.core_type /\ r.module = s.module
        /\ r.requires_content = s.requires_content /\ r.given = s.given
    BY <1>2, <1>3, <2>1 DEF Kept, Typed, Fields, Ok
  <2> QED BY <2>2, <2>3, <2>4, <2>5 DEF Kept, r
<1>5. CASE bad # "allocate"
  <2>1. PICK g, res :
          /\ r = [t EXCEPT !.given = g, !.last_ready = "none",
                           !.has_ready = FALSE, !.have_last_ready = FALSE,
                           !.surfaces = "whole", !.result = res]
          /\ g = Aged(t.given) \/ g = "current"
          /\ res = "OK" /\ s.core_type = "PRESENTING" => g = "current"
    <3> DEFINE fresh == NewGeneration(t)
    <3>1. fresh = [t EXCEPT !.given = Aged(@), !.last_ready = "none",
                     !.has_ready = FALSE, !.have_last_ready = FALSE,
                     !.surfaces = "whole"]
      BY DEF NewGeneration
    <3>2. DOMAIN t = Fields
      BY <1>2 DEF Kept, Typed
    <3>3. CASE s.core_type # "PRESENTING"
      <4>1. r = Return(fresh, "OK")
        BY <1>1, <1>5, <3>3 DEF rebuild_surfaces
      <4> QED BY <3>1, <3>2, <3>3, <4>1 DEF Return, Fields
    <3>4. CASE s.core_type = "PRESENTING" /\ bad = "set_surfaces"
      <4>1. r = Return(fresh, "ERR")
        BY <1>1, <1>3, <1>5, <3>4 DEF rebuild_surfaces
      <4> QED BY <3>1, <3>2, <4>1, ZenonT(40) DEF Return, Fields
    <3>5. CASE s.core_type = "PRESENTING" /\ bad # "set_surfaces"
      <4>1. r = [fresh EXCEPT !.given = "current", !.result = "OK"]
        BY <1>1, <1>3, <1>5, <3>5 DEF rebuild_surfaces
      <4> HIDE DEF r, fresh
      <4>2. r = [t EXCEPT !.given = "current", !.last_ready = "none",
                          !.has_ready = FALSE, !.have_last_ready = FALSE,
                          !.surfaces = "whole", !.result = "OK"]
        BY <3>1, <4>1
      <4> QED BY <4>2
    <3> QED BY <3>3, <3>4, <3>5
  <2> HIDE DEF r
  <2>2. Typed(r)
    BY <1>2, <2>1 DEF Kept, Typed, Flags, Fields
  <2>3. Owned(r) /\ Frozen(r)
    BY <1>2, <2>1 DEF Kept, Typed, Flags, Fields, Owned, Frozen
  <2>4. Alive(r) /\ Rewinds(r)
    BY <1>2, <2>1 DEF Kept, Typed, Flags, Fields, Alive, Rewinds
  <2>5. /\ r.loader = "Created" /\ r.core_loaded
        /\ r.core_type = s.core_type /\ r.module = s.module
        /\ r.requires_content = s.requires_content
        /\ r.given = g /\ r.result = res
    BY <1>2, <1>3, <2>1 DEF Kept, Typed, Fields
  <2>6. s.given # "none" => g # "none"
    BY <1>2, <2>1 DEF Aged
  <2> QED BY <2>1, <2>2, <2>3, <2>4, <2>5, <2>6 DEF Kept, Ok, r
<1> QED BY <1>4, <1>5

LEMMA ResizeSound ==
  ASSUME NEW s, NEW bad, Sound(s)
  PROVE  Sound(resize(s, bad))
<1>1. CASE ~s.core_loaded
  <2> DEFINE t == resize(s, bad)
  <2>1. PICK ok, res : t = [s EXCEPT !.init_ok = ok, !.result = res]
    BY <1>1 DEF resize
  <2> HIDE DEF t
  <2>2. Typed(t)
    BY <2>1 DEF Sound, Kept, Typed, Flags, Fields
  <2>3. Owned(t) /\ Given(t) /\ Frozen(t)
    BY <1>1, <2>1 DEF Sound, Kept, Typed, Flags, Fields, Owned, Given, Frozen
  <2>4. Alive(t) /\ Rewinds(t)
    BY <2>1 DEF Sound, Kept, Typed, Flags, Fields, Alive, Rewinds
  <2> QED BY <2>2, <2>3, <2>4 DEF Sound, Kept, t
<1>2. CASE s.core_loaded
  <2> DEFINE r == rebuild_surfaces(s, bad)
  <2>1. /\ Kept(r) /\ r.loader = "Created" /\ r.core_loaded
        /\ r.core_type = s.core_type
        /\ s.given # "none" => r.given # "none"
    BY <1>2, RebuildKept DEF Sound
  <2> HIDE DEF r
  <2>2. Sound(r)
    BY <1>2, <2>1 DEF Sound, Given
  <2>3. r.core_type = "PRESENTING" => Sound(start(r, bad))
    BY <2>1, <2>2, StartSound
  <2>4. resize(s, bad) \in {Return(s, "ERR"), r, start(r, bad)}
        /\ (resize(s, bad) = start(r, bad) => resize(s, bad) \in {r, Return(s, "ERR")}
                                              \/ r.core_type = "PRESENTING")
    BY <1>2 DEF resize, r
  <2> QED BY <2>2, <2>3, <2>4, ReturnSound
<1> QED BY <1>1, <1>2

LEMMA OpenAudioSound ==
  ASSUME NEW s, NEW opens \in BOOLEAN, Sound(s), s.core_loaded
  PROVE  Sound(open_audio(s, opens))
<1> DEFINE t == open_audio(s, opens)
<1>1. CASE ~opens
  BY <1>1 DEF open_audio
<1>2. CASE opens
  <2>1. t = [s EXCEPT !.audio = TRUE]
    BY <1>2 DEF open_audio
  <2> HIDE DEF t
  <2>2. Typed(t)
    BY <2>1 DEF Sound, Kept, Typed, Flags, Fields
  <2>3. Owned(t) /\ Given(t) /\ Frozen(t)
    BY <2>1 DEF Sound, Kept, Typed, Flags, Fields, Owned, Given, Frozen
  <2>4. Alive(t) /\ Rewinds(t)
    BY <2>1 DEF Sound, Kept, Typed, Flags, Fields, Alive, Rewinds
  <2> QED BY <2>2, <2>3, <2>4 DEF Sound, Kept, t
<1> QED BY <1>1, <1>2

\* A fresh instance of a module, before the runtime has taken it over.
Fresh(s) ==
  /\ Typed(s) /\ Alive(s) /\ Frozen(s)
  /\ s.loader = "Created" /\ s.module \in Cores /\ s.init_ok
  /\ s.rewind_ring = <<>>
  /\ s.rewind_enabled => s.rewind_max >= 1

\* finish_load_core leaves a core that is fully loaded or none at all.
LEMMA FinishLoadSound ==
  ASSUME NEW s, NEW bad, NEW sound \in BOOLEAN, Fresh(s)
  PROVE  Sound(finish_load_core(s, TypeOf(s.module), bad, sound))
<1> DEFINE type == TypeOf(s.module)
           r == finish_load_core(s, type, bad, sound)
<1>1. PICK t : t = [s EXCEPT !.core_loaded = TRUE, !.core_type = type,
                             !.requires_content = TakesContent(s.module),
                             !.content_loaded = FALSE]
  OBVIOUS
<1>2. /\ type \in {"PRESENTING", "DRIVEN"} /\ TakesContent(s.module) \in BOOLEAN
      /\ s.module # Nothing
  BY CoresAssumption DEF Fresh, TypeOf
<1> HIDE DEF type
<1>3. /\ t.core_loaded /\ t.core_type = type /\ t.module = s.module
      /\ t.loader = "Created" /\ t.requires_content = TakesContent(s.module)
  BY <1>1 DEF Fresh, Typed, Fields
<1>4. Kept(t)
  <2>1. Flags(t)
    BY <1>1, <1>2 DEF Fresh, Typed, Flags, Fields
  <2>2. Typed(t)
    BY <1>1, <1>2, <2>1 DEF Fresh, Typed, Fields
  <2>3. Owned(t)
    BY <1>1, <1>2 DEF Fresh, Typed, Flags, Fields, Owned, type
  <2>4. Frozen(t)
    BY <1>1 DEF Fresh, Typed, Flags, Fields, Frozen
  <2>5. Alive(t)
    BY <1>1 DEF Fresh, Typed, Flags, Fields, Alive
  <2>6. Rewinds(t)
    BY <1>1 DEF Fresh, Typed, Flags, Fields, Rewinds
  <2> QED BY <2>2, <2>3, <2>4, <2>5, <2>6 DEF Kept
<1>5. \A u : Typed(u) /\ u.core_loaded => Sound(Return(unload_core(u), "ERR"))
  BY UnloadSound, ReturnSound
<1>6. CASE type = "DRIVEN"
  <2>1. Sound(t)
    BY <1>3, <1>4, <1>6 DEF Sound, Given
  <2>2. Sound(Return(open_audio(t, sound), "OK")) /\ Sound(Return(t, "OK"))
    BY <1>3, <2>1, OpenAudioSound, ReturnSound
  <2>3. Sound(Return(unload_core(t), "ERR"))
    BY <1>3, <1>4, <1>5 DEF Kept
  <2>4. r \in {Return(t, "OK"), Return(unload_core(t), "ERR"),
               Return(open_audio(t, sound), "OK")}
    BY <1>1, <1>6 DEF finish_load_core
  <2> QED BY <2>2, <2>3, <2>4 DEF type
<1>7. CASE type = "PRESENTING"
  <2>1. PICK b : b = rebuild_surfaces(t, bad)
    OBVIOUS
  <2>2. /\ Kept(b) /\ b.loader = "Created" /\ b.core_loaded
        /\ b.core_type = "PRESENTING"
        /\ Ok(b) => b.given # "none"
    BY <1>3, <1>4, <1>7, <2>1, RebuildKept
  <2>3. Sound(Return(unload_core(b), "ERR"))
    BY <1>5, <2>2 DEF Kept
  <2>4. CASE ~Ok(b)
    <3>1. r = Return(unload_core(b), "ERR")
      BY <1>1, <1>7, <2>1, <2>4 DEF finish_load_core
    <3> QED BY <2>3, <3>1 DEF type
  <2>5. CASE Ok(b)
    <3>1. Sound(b)
      BY <2>2, <2>5 DEF Sound, Given
    <3>2. PICK u : u = start(b, bad)
      OBVIOUS
    <3>3. Sound(u) /\ u.core_loaded
      BY <2>2, <3>1, <3>2, StartSound
    <3>4. Sound(Return(unload_core(u), "ERR"))
      BY <1>5, <3>3 DEF Sound, Kept
    <3>5. r \in {b, u, Return(unload_core(u), "ERR")}
      BY <1>1, <1>7, <2>1, <2>5, <3>2 DEF finish_load_core
    <3> QED BY <3>1, <3>3, <3>4, <3>5 DEF type
  <2> QED BY <2>4, <2>5
<1> QED BY <1>2, <1>6, <1>7

LEMMA UnloadLeaves ==
  ASSUME NEW s, Sound(s)
  PROVE  LET t == unload_core(s) IN
         t.init_ok = s.init_ok /\ ~t.core_loaded /\ t.rewind_ring = <<>>
<1> DEFINE t == unload_core(s)
<1>1. DOMAIN s = Fields
  BY DEF Sound, Kept, Typed
<1>2. CASE ~s.core_loaded /\ s.loader = "Unloaded"
  <2>1. t = [s EXCEPT !.result = "OK"]
    BY <1>2 DEF unload_core, Return
  <2>2. s.rewind_ring = <<>>
    BY <1>2 DEF Sound, Kept, Owned, Rewinds
  <2> HIDE DEF t
  <2>3. t.init_ok = s.init_ok /\ ~t.core_loaded /\ t.rewind_ring = <<>>
    BY <1>1, <1>2, <2>1, <2>2 DEF Fields
  <2> QED BY <2>3 DEF t
<1>3. CASE ~(~s.core_loaded /\ s.loader = "Unloaded")
  <2>1. destroy(s) =
           [s EXCEPT !.loader = "Unloaded", !.game = Nothing, !.time = 0,
                     !.given = "none", !.dr_data = Freed(@),
                     !.dr_gl_tex = Freed(@), !.rewind_ring = FreedSnapshots(@)]
    BY DEF destroy
  <2>2. PICK d : d = destroy(s)
    OBVIOUS
  <2>3. DOMAIN d = Fields /\ d.init_ok = s.init_ok
    BY <1>1, <2>1, <2>2 DEF Fields
  <2>4. t = [d EXCEPT
          !.module = Nothing, !.core_loaded = FALSE, !.core_type = "PRESENTING",
          !.dr_data = "null", !.dr_dupe = FALSE, !.dr_have = FALSE,
          !.dr_is_gl = FALSE, !.dr_gl_tex = "null",
          !.requires_content = FALSE, !.content_loaded = FALSE,
          !.audio = FALSE, !.rewind_ring = <<>>, !.rewind_enabled = FALSE,
          !.rewind_replay = FALSE, !.rewind_max = 0, !.disturbed = FALSE,
          !.paused = FALSE, !.have_last_ready = FALSE, !.last_ready = "none",
          !.content_path = Nothing, !.result = "OK"]
    BY <1>3, <2>2 DEF unload_core
  <2> HIDE DEF t
  <2>5. t.init_ok = s.init_ok /\ ~t.core_loaded /\ t.rewind_ring = <<>>
    BY <2>3, <2>4 DEF Fields
  <2> QED BY <2>5 DEF t
<1> QED BY <1>2, <1>3

LEMMA LoadCoreSound ==
  ASSUME NEW s, NEW c \in Cores, NEW bad, NEW sound \in BOOLEAN, Sound(s)
  PROVE  Sound(load_core(s, c, bad, sound))
<1>1. CASE ~s.init_ok
  BY <1>1, ReturnSound DEF load_core
<1>2. CASE s.init_ok
  <2>1. PICK u : u = unload_core(s)
    OBVIOUS
  <2>2. Sound(u) /\ u.init_ok = s.init_ok /\ ~u.core_loaded /\ u.rewind_ring = <<>>
    BY <2>1, UnloadSound, UnloadLeaves DEF Sound, Kept
  <2>3. Sound(Return(u, "ERR"))
    BY <2>2, ReturnSound
  <2>4. PICK t : t = create([u EXCEPT !.module = c])
    OBVIOUS
  <2>5. t = [u EXCEPT !.module = c, !.loader = "Created"]
    BY <2>4 DEF create
  <2>6. Typed(t)
    BY <2>2, <2>5 DEF Sound, Kept, Typed, Flags, Fields
  <2>7. Alive(t) /\ Frozen(t)
    BY <2>2, <2>5 DEF Sound, Kept, Typed, Flags, Fields, Alive, Frozen
  <2>8. /\ t.loader = "Created" /\ t.module = c /\ t.init_ok
        /\ t.rewind_ring = <<>>
        /\ t.rewind_enabled => t.rewind_max >= 1
    BY <1>2, <2>2, <2>5 DEF Sound, Kept, Typed, Flags, Fields, Rewinds
  <2>9. Sound(finish_load_core(t, TypeOf(c), bad, sound))
    BY <2>6, <2>7, <2>8, FinishLoadSound DEF Fresh
  <2>10. load_core(s, c, bad, sound) \in
           {Return(u, "ERR"), finish_load_core(t, TypeOf(c), bad, sound)}
    BY <1>2, <2>1, <2>4 DEF load_core
  <2> QED BY <2>3, <2>9, <2>10
<1> QED BY <1>1, <1>2

\* The content the core has taken, or given up.
LEMMA CoreLoadContentSound ==
  ASSUME NEW s, NEW path, NEW bad, Sound(s), s.core_loaded
  PROVE  LET r == CoreLoadContent(s, path, bad) IN
         /\ Sound(r) /\ r.core_loaded /\ r.core_type = s.core_type
         /\ Ok(r) => r.requires_content
<1> DEFINE r == CoreLoadContent(s, path, bad)
<1>1. DOMAIN s = Fields /\ s.requires_content = TakesContent(s.module)
  BY DEF Sound, Kept, Typed, Owned
<1>2. \/ r = Return(s, "ERR")
      \/ r = Return([s EXCEPT !.dr_data = Replaced(@),
                              !.dr_gl_tex = Replaced(@),
                              !.game = Nothing], "ERR")
      \/ /\ TakesContent(s.module)
         /\ r = [s EXCEPT !.dr_data = Replaced(@), !.dr_gl_tex = Replaced(@),
                          !.game = path, !.time = 0, !.result = "OK",
                          !.disturbed = @ \/ s.rewind_ring # <<>>]
  BY <1>1 DEF CoreLoadContent, NewContext, Fields
<1> HIDE DEF r
<1>3. CASE r = Return(s, "ERR")
  <2>1. r.core_loaded /\ r.core_type = s.core_type /\ ~Ok(r)
    BY <1>1, <1>3 DEF Return, Ok, Fields
  <2> QED BY <1>3, <2>1, ReturnSound DEF r
<1>4. CASE r = Return([s EXCEPT !.dr_data = Replaced(@),
                                !.dr_gl_tex = Replaced(@),
                                !.game = Nothing], "ERR")
  <2>1. PICK t : t = [s EXCEPT !.dr_data = Replaced(@),
                               !.dr_gl_tex = Replaced(@), !.game = Nothing]
    OBVIOUS
  <2>2. Typed(t)
    BY <2>1 DEF Sound, Kept, Typed, Flags, Fields
  <2>3. Owned(t) /\ Given(t) /\ Frozen(t)
    BY <2>1 DEF Sound, Kept, Typed, Flags, Fields, Owned, Given, Frozen
  <2>4. Alive(t) /\ Rewinds(t)
    BY <2>1 DEF Sound, Kept, Typed, Flags, Fields, Alive, Rewinds, Replaced
  <2>5. Sound(Return(t, "ERR"))
    BY <2>2, <2>3, <2>4, ReturnSound DEF Sound, Kept
  <2>6. r.core_loaded /\ r.core_type = s.core_type /\ ~Ok(r)
    BY <1>1, <1>4 DEF Return, Ok, Fields
  <2> QED BY <1>4, <2>1, <2>5, <2>6 DEF r
<1>5. CASE /\ TakesContent(s.module)
           /\ r = [s EXCEPT !.dr_data = Replaced(@), !.dr_gl_tex = Replaced(@),
                            !.game = path, !.time = 0, !.result = "OK",
                            !.disturbed = @ \/ s.rewind_ring # <<>>]
  <2>1. Flags(r)
    BY <1>5 DEF Sound, Kept, Typed, Flags, Fields
  <2>2. Typed(r)
    BY <1>5, <2>1 DEF Sound, Kept, Typed, Fields
  <2>3. Owned(r) /\ Given(r) /\ Frozen(r)
    BY <1>5 DEF Sound, Kept, Typed, Flags, Fields, Owned, Given, Frozen
  <2>4. Alive(r)
    BY <1>5 DEF Sound, Kept, Typed, Flags, Fields, Alive, Replaced
  <2>5. Rewinds(r)
    <3>1. r.rewind_ring # <<>> => r.disturbed
      BY <1>5 DEF Sound, Kept, Typed, Flags, Fields
    <3>2. /\ r.rewind_ring = s.rewind_ring /\ r.rewind_enabled = s.rewind_enabled
          /\ r.rewind_max = s.rewind_max /\ r.module = s.module
      BY <1>5 DEF Sound, Kept, Typed, Fields
    <3> QED BY <3>1, <3>2 DEF Sound, Kept, Rewinds
  <2>6. r.core_loaded /\ r.core_type = s.core_type /\ r.requires_content
    BY <1>1, <1>5 DEF Fields
  <2> QED BY <2>2, <2>3, <2>4, <2>5, <2>6 DEF Sound, Kept, r
<1> QED BY <1>2, <1>3, <1>4, <1>5

LEMMA LoadContentSound ==
  ASSUME NEW s, NEW path, NEW bad, NEW sound \in BOOLEAN, Sound(s)
  PROVE  Sound(load_content(s, path, bad, sound))
<1>1. CASE ~s.core_loaded
  BY <1>1, ReturnSound DEF load_content
<1>2. CASE s.core_loaded
  <2>1. PICK n : n = [s EXCEPT !.content_path = path]
    OBVIOUS
  <2>2. Sound(n) /\ n.core_loaded /\ n.core_type = s.core_type
    <3>1. Typed(n)
      BY <2>1 DEF Sound, Kept, Typed, Flags, Fields
    <3>2. Owned(n) /\ Given(n) /\ Frozen(n)
      BY <1>2, <2>1 DEF Sound, Kept, Typed, Flags, Fields, Owned, Given, Frozen
    <3>3. Alive(n) /\ Rewinds(n)
      BY <2>1 DEF Sound, Kept, Typed, Flags, Fields, Alive, Rewinds
    <3>4. n.core_loaded /\ n.core_type = s.core_type
      BY <1>2, <2>1 DEF Sound, Kept, Typed, Fields
    <3> QED BY <3>1, <3>2, <3>3, <3>4 DEF Sound, Kept
  <2>3. PICK r : r = CoreLoadContent(n, path, bad)
    OBVIOUS
  <2>4. /\ Sound(r) /\ r.core_loaded /\ r.core_type = s.core_type
        /\ Ok(r) => r.requires_content
    BY <2>2, <2>3, CoreLoadContentSound
  <2>5. Sound(Return(n, "ERR")) /\ Sound(Return(r, "ERR"))
    BY <2>2, <2>4, ReturnSound
  <2>6. CASE ~Ok(r)
    <3>1. load_content(s, path, bad, sound) \in {Return(n, "ERR"), r}
      BY <1>2, <2>1, <2>3, <2>6 DEF load_content
    <3> QED BY <2>4, <2>5, <3>1
  <2>7. CASE Ok(r)
    <3>1. PICK t : t = [r EXCEPT !.content_loaded = TRUE]
      OBVIOUS
    <3>2. Sound(t) /\ t.core_loaded /\ t.core_type = s.core_type
      <4>1. Typed(t)
        BY <2>4, <3>1 DEF Sound, Kept, Typed, Flags, Fields
      <4>2. Owned(t) /\ Given(t) /\ Frozen(t)
        BY <2>4, <2>7, <3>1 DEF Sound, Kept, Typed, Flags, Fields, Owned, Given, Frozen
      <4>3. Alive(t) /\ Rewinds(t)
        BY <2>4, <3>1 DEF Sound, Kept, Typed, Flags, Fields, Alive, Rewinds
      <4>4. t.core_loaded /\ t.core_type = s.core_type
        BY <2>4, <3>1 DEF Sound, Kept, Typed, Fields
      <4> QED BY <4>1, <4>2, <4>3, <4>4 DEF Sound, Kept
    <3>3. Sound(open_audio(t, sound))
      BY <3>2, OpenAudioSound
    <3>4. PICK u : u = IF t.loader = "Started" THEN t ELSE start(t, bad)
      OBVIOUS
    <3>5. s.core_type = "PRESENTING" => Sound(u) /\ u.core_loaded
      BY <3>2, <3>4, StartSound
    <3>6. s.core_type = "PRESENTING" => Sound(open_audio(u, sound))
      BY <3>5, OpenAudioSound
    <3>7. CASE s.core_type = "PRESENTING"
      <4>1. load_content(s, path, bad, sound) \in
              {Return(n, "ERR"), u, open_audio(u, sound)}
        BY <1>2, <2>1, <2>3, <2>7, <3>1, <3>4, <3>7 DEF load_content
      <4> QED BY <2>5, <3>5, <3>6, <3>7, <4>1
    <3>8. CASE s.core_type # "PRESENTING"
      <4>1. load_content(s, path, bad, sound) \in
              {Return(r, "ERR"), open_audio(t, sound)}
        BY <1>2, <2>1, <2>3, <2>7, <3>1, <3>8 DEF load_content
      <4> QED BY <2>5, <3>3, <4>1
    <3> QED BY <3>7, <3>8
  <2> QED BY <2>6, <2>7
<1> QED BY <1>1, <1>2

-----------------------------------------------------------------------------
\* A push keeps the newest max snapshots, the one pushed among them.
LEMMA PushFacts ==
  ASSUME NEW h \in Seq(History), NEW max \in Nat, max >= 1, NEW t \in Nat
  PROVE  LET p == rewind_ring_push(h, [time |-> t, of |-> "live"], max) IN
         /\ p \in Seq(History) /\ p # <<>>
         /\ (\A i \in DOMAIN h : h[i].of = "live")
              => \A i \in DOMAIN p : p[i].of = "live"
         /\ (h # <<>> => Unbroken(h, max, t - 1)) => Unbroken(p, max, t)
<1> DEFINE snap == [time |-> t, of |-> "live"]
           l == Append(h, snap)
           p == rewind_ring_push(h, snap, max)
<1>1. snap \in History /\ snap.time = t /\ snap.of = "live"
  BY DEF History
<1> HIDE DEF snap
<1>2. /\ l \in Seq(History) /\ Len(l) = Len(h) + 1 /\ l[Len(l)] = snap
      /\ \A i \in 1..Len(h) : l[i] = h[i]
  BY <1>1
<1> HIDE DEF l
<1>3. PICK k \in 0..(Len(l) - 1) :
        /\ p \in Seq(History) /\ Len(p) = Len(l) - k /\ Len(p) <= max
        /\ \A i \in 1..Len(p) : p[i] = l[i + k]
  <2>1. CASE Len(l) > max
    <3>1. p = SubSeq(l, Len(l) - max + 1, Len(l))
      BY <2>1 DEF rewind_ring_push, l
    <3> HIDE DEF p
    <3>2. PICK k : k = Len(l) - max
      OBVIOUS
    <3>3. k \in 0..(Len(l) - 1) /\ k + 1 \in 1..Len(l) /\ k + 1 = Len(l) - max + 1
      BY <1>2, <2>1, <3>2
    <3>4. p = SubSeq(l, k + 1, Len(l))
      BY <3>1, <3>3
    <3>5. /\ p \in Seq(History) /\ Len(p) = Len(l) - k
          /\ \A i \in 1..Len(p) : p[i] = l[i + k]
      BY <1>2, <3>3, <3>4
    <3>6. Len(p) <= max
      <4>1. Len(l) \in Nat
        BY <1>2
      <4> QED BY <3>2, <3>5, <4>1
    <3> QED BY <3>3, <3>5, <3>6
  <2>2. CASE Len(l) <= max
    <3>1. p = l
      BY <1>2, <2>2 DEF rewind_ring_push, l
    <3> QED BY <1>2, <2>2, <3>1
  <2> QED BY <1>2, <2>1, <2>2
<1> HIDE DEF p
<1>4. Len(p) >= 1 /\ Len(p) \in Nat /\ p[Len(p)] = snap
  BY <1>2, <1>3
<1>5. p # <<>> /\ DOMAIN p = 1..Len(p) /\ DOMAIN h = 1..Len(h) /\ Len(h) \in Nat
  BY <1>3, <1>4
<1>6. ASSUME \A i \in DOMAIN h : h[i].of = "live", NEW i \in DOMAIN p
      PROVE  p[i].of = "live"
  <2>1. PICK j : j = i + k
    OBVIOUS
  <2>2. j \in 1..Len(l) /\ p[i] = l[j]
    BY <1>2, <1>3, <1>5, <2>1
  <2>3. CASE j = Len(l)
    BY <1>1, <1>2, <2>2, <2>3
  <2>4. CASE j # Len(l)
    <3>1. j \in 1..Len(h)
      BY <1>2, <1>5, <2>2, <2>4
    <3>2. l[j] = h[j] /\ j \in DOMAIN h
      BY <1>2, <1>5, <3>1
    <3> QED BY <1>6, <2>2, <3>2
  <2> QED BY <2>3, <2>4
<1>7. ASSUME h # <<>> => Unbroken(h, max, t - 1)
      PROVE  Unbroken(p, max, t)
  <2>1. ASSUME NEW i \in 1..(Len(p) - 1)
        PROVE  p[i + 1].time = p[i].time + 1
    <3>1. i \in 1..Len(p) /\ i + 1 \in 1..Len(p)
      BY <1>4
    <3>2. PICK j : j = i + k
      OBVIOUS
    <3>3. j \in 1..Len(h) /\ p[i] = h[j] /\ p[i + 1] = l[j + 1]
      BY <1>2, <1>3, <1>5, <3>1, <3>2
    <3>4. h # <<>>
      BY <3>3
    <3>5. CASE j = Len(h)
      <4>1. l[j + 1] = snap
        BY <1>2, <1>5, <3>5
      <4>2. h[j].time = t - 1
        BY <1>7, <3>4, <3>5 DEF Unbroken
      <4>3. p[i].time = t - 1 /\ p[i + 1].time = t
        BY <1>1, <3>3, <4>1, <4>2
      <4> QED BY <4>3
    <3>6. CASE j # Len(h)
      <4>1. j \in 1..(Len(h) - 1) /\ j + 1 \in 1..Len(h)
        <5>1. \A n \in Nat : j \in 1..n /\ j # n
                             => j \in 1..(n - 1) /\ j + 1 \in 1..n
          OBVIOUS
        <5> QED BY <1>5, <3>3, <3>6, <5>1
      <4>2. PICK m : m = j + 1
        OBVIOUS
      <4>3. l[m] = h[m]
        BY <1>2, <4>1, <4>2
      <4>4. h[j + 1].time = h[j].time + 1
        BY <1>7, <3>4, <4>1 DEF Unbroken
      <4> QED BY <3>3, <4>2, <4>3, <4>4
    <3> QED BY <3>5, <3>6
  <2> QED BY <1>1, <1>3, <1>4, <2>1 DEF Unbroken
<1>8. /\ p \in Seq(History) /\ p # <<>>
      /\ (\A i \in DOMAIN h : h[i].of = "live")
           => \A i \in DOMAIN p : p[i].of = "live"
      /\ (h # <<>> => Unbroken(h, max, t - 1)) => Unbroken(p, max, t)
  BY <1>3, <1>5, <1>6, <1>7
<1> QED BY <1>8 DEF p, snap

\* The history once the frame about to run has been captured.
Captured(s) ==
  /\ s.rewind_enabled => s.rewind_max >= 1
  /\ s.rewind_ring # <<>> => s.rewind_enabled /\ Serializes(s.module)
  /\ s.rewind_replay = FALSE
  /\ ~s.disturbed /\ s.rewind_ring # <<>> =>
       Unbroken(s.rewind_ring, s.rewind_max, s.time)

LEMMA CaptureFacts ==
  ASSUME NEW s, NEW bad, Sound(s)
  PROVE  LET c == capture(s, bad) IN
         Typed(c) /\ Owned(c) /\ Given(c) /\ Frozen(c) /\ Alive(c) /\ Captured(c)
<1> DEFINE c == capture(s, bad)
<1>1. CASE s.rewind_replay
  <2>1. c = [s EXCEPT !.rewind_replay = FALSE]
    BY <1>1 DEF capture
  <2> HIDE DEF c
  <2>2. Typed(c)
    BY <2>1 DEF Sound, Kept, Typed, Flags, Fields
  <2>3. Owned(c) /\ Given(c) /\ Frozen(c)
    BY <2>1 DEF Sound, Kept, Typed, Flags, Fields, Owned, Given, Frozen
  <2>4. Alive(c)
    BY <2>1 DEF Sound, Kept, Typed, Flags, Fields, Alive
  <2>5. Captured(c)
    BY <1>1, <2>1 DEF Sound, Kept, Typed, Flags, Fields, Rewinds, Captured
  <2> QED BY <2>2, <2>3, <2>4, <2>5 DEF c
<1>2. CASE ~s.rewind_replay /\ ~(s.rewind_enabled /\ Serializes(s.module))
  <2>1. c = s
    BY <1>2 DEF capture
  <2>2. s.rewind_ring = <<>>
    BY <1>2 DEF Sound, Kept, Rewinds
  <2> HIDE DEF c
  <2>3. Captured(s)
    BY <1>2, <2>2 DEF Sound, Kept, Typed, Flags, Rewinds, Captured
  <2> QED BY <2>1, <2>3 DEF Sound, Kept, c
<1>3. CASE /\ ~s.rewind_replay /\ s.rewind_enabled /\ Serializes(s.module)
           /\ bad = "serialize"
  <2>1. c = [s EXCEPT !.disturbed = TRUE]
    BY <1>3 DEF capture
  <2> HIDE DEF c
  <2>2. Typed(c)
    BY <2>1 DEF Sound, Kept, Typed, Flags, Fields
  <2>3. Owned(c) /\ Given(c) /\ Frozen(c)
    BY <2>1 DEF Sound, Kept, Typed, Flags, Fields, Owned, Given, Frozen
  <2>4. Alive(c)
    BY <2>1 DEF Sound, Kept, Typed, Flags, Fields, Alive
  <2>5. Captured(c)
    BY <1>3, <2>1 DEF Sound, Kept, Typed, Flags, Fields, Rewinds, Captured
  <2> QED BY <2>2, <2>3, <2>4, <2>5 DEF c
<1>4. CASE /\ ~s.rewind_replay /\ s.rewind_enabled /\ Serializes(s.module)
           /\ bad # "serialize"
  <2>1. PICK p : p = rewind_ring_push(s.rewind_ring,
                       [time |-> s.time, of |-> "live"], s.rewind_max)
    OBVIOUS
  <2>2. c = [s EXCEPT !.rewind_ring = p]
    BY <1>4, <2>1 DEF capture
  <2>3. /\ s.rewind_ring \in Seq(History) /\ s.rewind_max \in Nat
        /\ s.rewind_max >= 1 /\ s.time \in Nat
    BY <1>4 DEF Sound, Kept, Typed, Rewinds
  <2>4. /\ p \in Seq(History) /\ p # <<>>
        /\ (\A i \in DOMAIN s.rewind_ring : s.rewind_ring[i].of = "live")
             => \A i \in DOMAIN p : p[i].of = "live"
        /\ (s.rewind_ring # <<>> => Unbroken(s.rewind_ring, s.rewind_max, s.time - 1))
             => Unbroken(p, s.rewind_max, s.time)
    BY <2>1, <2>3, PushFacts
  <2> HIDE DEF c
  <2>5. Typed(c)
    BY <2>2, <2>4 DEF Sound, Kept, Typed, Flags, Fields
  <2>6. Owned(c) /\ Given(c) /\ Frozen(c)
    BY <2>2 DEF Sound, Kept, Typed, Flags, Fields, Owned, Given, Frozen
  <2>7. Alive(c)
    BY <2>2, <2>4 DEF Sound, Kept, Typed, Flags, Fields, Alive
  <2>8. Captured(c)
    <3>1. /\ c.rewind_ring = p /\ c.rewind_max = s.rewind_max
          /\ c.time = s.time /\ c.rewind_replay = s.rewind_replay
          /\ c.rewind_enabled = s.rewind_enabled /\ c.module = s.module
          /\ c.disturbed = s.disturbed
      BY <2>2 DEF Sound, Kept, Typed, Fields
    <3>2. ~s.disturbed => Unbroken(p, s.rewind_max, s.time)
      BY <1>4, <2>4 DEF Sound, Kept, Rewinds
    <3> QED BY <1>4, <2>3, <3>1, <3>2 DEF Sound, Kept, Typed, Flags, Captured
  <2> QED BY <2>5, <2>6, <2>7, <2>8 DEF c
<1> QED BY <1>1, <1>2, <1>3, <1>4

\* The frame the core runs, and what it delivers in it.
LEMMA DeliverFacts ==
  ASSUME NEW s, NEW d \in Deliveries, s.dr_have = FALSE,
         Typed(s), Owned(s), Given(s), Frozen(s), Alive(s), Captured(s)
  PROVE  LET t == deliver(s, d) IN
         /\ Typed(t) /\ Owned(t) /\ Given(t) /\ Frozen(t) /\ Alive(t)
         /\ Captured(t)
<1> DEFINE t == deliver(s, d)
<1>1. CASE d = "none"
  BY <1>1 DEF deliver
<1>2. CASE d = "texture"
  <2>1. t = [s EXCEPT !.dr_have = TRUE, !.dr_dupe = FALSE,
                      !.dr_is_gl = TRUE, !.dr_gl_tex = "context"]
    BY <1>2 DEF deliver
  <2> HIDE DEF t
  <2>2. Typed(t)
    BY <2>1 DEF Typed, Flags, Fields
  <2>3. Owned(t) /\ Given(t) /\ Frozen(t)
    BY <2>1 DEF Typed, Flags, Fields, Owned, Given, Frozen
  <2>4. Alive(t) /\ Captured(t)
    BY <2>1 DEF Typed, Flags, Fields, Alive, Captured
  <2> QED BY <2>2, <2>3, <2>4 DEF t
<1>3. CASE d = "dupe" /\ s.dr_is_gl
  <2>1. t = [s EXCEPT !.dr_have = TRUE]
    BY <1>3 DEF deliver
  <2> HIDE DEF t
  <2>2. Typed(t)
    BY <2>1 DEF Typed, Flags, Fields
  <2>3. Owned(t) /\ Given(t) /\ Frozen(t)
    BY <2>1 DEF Typed, Flags, Fields, Owned, Given, Frozen
  <2>4. Alive(t) /\ Captured(t)
    BY <1>3, <2>1 DEF Typed, Flags, Fields, Alive, Captured
  <2> QED BY <2>2, <2>3, <2>4 DEF t
<1>4. CASE d = "dupe" /\ ~s.dr_is_gl
  <2>1. t = [s EXCEPT !.dr_have = TRUE, !.dr_dupe = TRUE,
                      !.dr_is_gl = FALSE, !.dr_data = "null"]
    BY <1>4 DEF deliver
  <2> HIDE DEF t
  <2>2. Typed(t)
    BY <2>1 DEF Typed, Flags, Fields
  <2>3. Owned(t) /\ Given(t) /\ Frozen(t)
    BY <2>1 DEF Typed, Flags, Fields, Owned, Given, Frozen
  <2>4. Alive(t) /\ Captured(t)
    BY <2>1 DEF Typed, Flags, Fields, Alive, Captured
  <2> QED BY <2>2, <2>3, <2>4 DEF t
<1>5. CASE d \in {"pixels", "readback"}
  <2>1. t = [s EXCEPT !.dr_have = TRUE, !.dr_dupe = FALSE,
                      !.dr_is_gl = FALSE,
                      !.dr_data = IF d = "readback" THEN "context" ELSE "live"]
    BY <1>5 DEF deliver
  <2> HIDE DEF t
  <2>2. Typed(t)
    BY <2>1 DEF Typed, Flags, Fields
  <2>3. Owned(t) /\ Given(t) /\ Frozen(t)
    BY <2>1 DEF Typed, Flags, Fields, Owned, Given, Frozen
  <2>4. Alive(t) /\ Captured(t)
    BY <2>1 DEF Typed, Flags, Fields, Alive, Captured
  <2> QED BY <2>2, <2>3, <2>4 DEF t
<1> QED BY <1>1, <1>2, <1>3, <1>4, <1>5 DEF Deliveries

LEMMA RunFrameSound ==
  ASSUME NEW s, NEW d \in Deliveries, s.dr_have = FALSE,
         Typed(s), Owned(s), Given(s), Frozen(s), Alive(s), Captured(s)
  PROVE  Sound(run_frame(s, d))
<1> DEFINE t == run_frame(s, d)
<1>1. CASE s.requires_content /\ s.game = Nothing
  <2>1. t = [s EXCEPT !.disturbed = TRUE]
    BY <1>1 DEF run_frame
  <2> HIDE DEF t
  <2>2. Typed(t)
    BY <2>1 DEF Typed, Flags, Fields
  <2>3. Owned(t) /\ Given(t) /\ Frozen(t)
    BY <2>1 DEF Typed, Flags, Fields, Owned, Given, Frozen
  <2>4. Alive(t) /\ Rewinds(t)
    BY <2>1 DEF Typed, Flags, Fields, Alive, Captured, Rewinds
  <2> QED BY <2>2, <2>3, <2>4 DEF Sound, Kept, t
<1>2. CASE ~(s.requires_content /\ s.game = Nothing)
  <2>1. PICK u : u = deliver(s, d)
    OBVIOUS
  <2>2. /\ Typed(u) /\ Owned(u) /\ Given(u) /\ Frozen(u) /\ Alive(u)
        /\ Captured(u)
    BY <2>1, DeliverFacts
  <2>3. t = [u EXCEPT !.time = @ + 1]
    BY <1>2, <2>1 DEF run_frame
  <2> HIDE DEF t
  <2>4. Typed(t)
    BY <2>2, <2>3 DEF Typed, Flags, Fields
  <2>5. Owned(t) /\ Given(t) /\ Frozen(t)
    BY <2>2, <2>3 DEF Typed, Flags, Fields, Owned, Given, Frozen
  <2>6. Alive(t)
    BY <2>2, <2>3 DEF Typed, Flags, Fields, Alive
  <2>7. Rewinds(t)
    <3>1. /\ t.rewind_ring = u.rewind_ring /\ t.rewind_max = u.rewind_max
          /\ t.time = u.time + 1 /\ t.rewind_replay = u.rewind_replay
          /\ t.rewind_enabled = u.rewind_enabled /\ t.module = u.module
          /\ t.disturbed = u.disturbed /\ u.time \in Nat
      BY <2>2, <2>3 DEF Typed, Fields
    <3>2. t.time - 1 = u.time
      BY <3>1
    <3> QED BY <2>2, <3>1, <3>2 DEF Captured, Rewinds
  <2> QED BY <2>4, <2>5, <2>6, <2>7 DEF Sound, Kept, t
<1> QED BY <1>1, <1>2

LEMMA AdvanceSound ==
  ASSUME NEW s, NEW d \in Deliveries, NEW bad, Sound(s)
  PROVE  Sound(advance(s, d, bad))
<1>1. CASE ~Driven(s) \/ (s.requires_content /\ ~s.content_loaded)
  BY <1>1, ReturnSound DEF advance
<1>2. CASE ~(~Driven(s) \/ (s.requires_content /\ ~s.content_loaded))
  <2>1. PICK c : c = capture(s, bad)
    OBVIOUS
  <2>2. Typed(c) /\ Owned(c) /\ Given(c) /\ Frozen(c) /\ Alive(c) /\ Captured(c)
    BY <2>1, CaptureFacts
  <2>3. PICK t : t = [c EXCEPT !.dr_have = FALSE]
    OBVIOUS
  <2>4. Typed(t) /\ t.dr_have = FALSE
    BY <2>2, <2>3 DEF Typed, Flags, Fields
  <2>5. Owned(t) /\ Given(t) /\ Frozen(t)
    BY <2>2, <2>3 DEF Typed, Flags, Fields, Owned, Given, Frozen
  <2>6. Alive(t) /\ Captured(t)
    BY <2>2, <2>3 DEF Typed, Flags, Fields, Alive, Captured
  <2>7. Sound(Return(run_frame(t, d), "OK"))
    BY <2>4, <2>5, <2>6, RunFrameSound, ReturnSound
  <2>8. advance(s, d, bad) = Return(run_frame(t, d), "OK")
    BY <1>2, <2>1, <2>3 DEF advance
  <2> QED BY <2>7, <2>8
<1> QED BY <1>1, <1>2

LEMMA RenderSound ==
  ASSUME NEW s, Sound(s)
  PROVE  Sound(render(s))
<1> DEFINE t == render(s)
<1>1. CASE Driven(s) \/ s.paused \/ ~s.has_ready
  BY <1>1, ReturnSound DEF render
<1>2. CASE ~(Driven(s) \/ s.paused \/ ~s.has_ready)
  <2>1. t = [s EXCEPT !.have_last_ready = TRUE, !.result = "OK",
                 !.last_ready = IF s.surfaces = "lost" THEN "old" ELSE "current"]
    BY <1>2 DEF render
  <2> HIDE DEF t
  <2>2. Typed(t)
    BY <2>1 DEF Sound, Kept, Typed, Flags, Fields
  <2>3. Owned(t) /\ Given(t) /\ Frozen(t)
    BY <2>1 DEF Sound, Kept, Typed, Flags, Fields, Owned, Given, Frozen
  <2>4. Alive(t) /\ Rewinds(t)
    BY <2>1 DEF Sound, Kept, Typed, Flags, Fields, Alive, Rewinds
  <2> QED BY <2>2, <2>3, <2>4 DEF Sound, Kept, t
<1> QED BY <1>1, <1>2

LEMMA PresentSound ==
  ASSUME NEW s, NEW d \in Deliveries, NEW bad, Sound(s)
  PROVE  Sound(present(s, d, bad))
<1>1. PICK a : a = advance(s, d, bad)
  OBVIOUS
<1>2. Sound(a) /\ Sound(render(a)) /\ Sound(render(s))
  BY <1>1, AdvanceSound, RenderSound
<1>3. present(s, d, bad) \in {a, render(a), render(s)}
  BY <1>1 DEF present
<1> QED BY <1>2, <1>3

-----------------------------------------------------------------------------
LEMMA LoadStateSound ==
  ASSUME NEW s, NEW k \in Nat, NEW bad, Sound(s)
  PROVE  Sound(load_state(s, k, bad))
<1> DEFINE t == load_state(s, k, bad)
<1>1. CASE ~HasState(s) \/ bad = "unserialize"
  BY <1>1, ReturnSound DEF load_state
<1>2. CASE ~(~HasState(s) \/ bad = "unserialize")
  <2>1. t = [s EXCEPT !.time = k, !.disturbed = TRUE, !.result = "OK"]
    BY <1>2 DEF load_state
  <2> HIDE DEF t
  <2>2. Typed(t)
    BY <2>1 DEF Sound, Kept, Typed, Flags, Fields
  <2>3. Owned(t) /\ Given(t) /\ Frozen(t)
    BY <2>1 DEF Sound, Kept, Typed, Flags, Fields, Owned, Given, Frozen
  <2>4. Alive(t) /\ Rewinds(t)
    BY <2>1 DEF Sound, Kept, Typed, Flags, Fields, Alive, Rewinds
  <2> QED BY <2>2, <2>3, <2>4 DEF Sound, Kept, t
<1> QED BY <1>1, <1>2

LEMMA SetRewindSound ==
  ASSUME NEW s, NEW enabled \in BOOLEAN, NEW max \in Limits, Sound(s)
  PROVE  Sound(set_rewind(s, enabled, max))
<1> DEFINE t == set_rewind(s, enabled, max)
<1>1. CASE ~HasState(s)
  BY <1>1, ReturnSound DEF set_rewind
<1>2. CASE HasState(s)
  <2>1. PICK limit : limit = IF max = 0 THEN DefaultLimit ELSE max
    OBVIOUS
  <2>2. limit \in Nat /\ limit >= 1
    BY <2>1, LimitsAssumption
  <2>3. t = [s EXCEPT !.rewind_enabled = enabled, !.rewind_max = limit,
                 !.rewind_ring = <<>>, !.rewind_replay = FALSE,
                 !.disturbed = FALSE, !.result = "OK"]
    BY <1>2, <2>1 DEF set_rewind
  <2>4. <<>> \in Seq(History) /\ DOMAIN << >> = {}
    OBVIOUS
  <2>5. s.core_loaded
    BY <1>2 DEF HasState, Sound, Kept, Owned
  <2> HIDE DEF t
  <2>6. Flags(t)
    BY <2>3 DEF Sound, Kept, Typed, Flags, Fields
  <2>7. Typed(t)
    BY <2>2, <2>3, <2>4, <2>6 DEF Sound, Kept, Typed, Fields
  <2>8. Owned(t) /\ Given(t) /\ Frozen(t)
    BY <2>3, <2>5 DEF Sound, Kept, Typed, Flags, Fields, Owned, Given, Frozen
  <2>9. Alive(t)
    BY <2>3, <2>4 DEF Sound, Kept, Typed, Flags, Fields, Alive
  <2>10. Rewinds(t)
    BY <2>2, <2>3 DEF Sound, Kept, Typed, Fields, Rewinds
  <2> QED BY <2>7, <2>8, <2>9, <2>10 DEF Sound, Kept, t
<1> QED BY <1>1, <1>2

\* What is left of a history of two snapshots or more without its last.
LEMMA FrontFacts ==
  ASSUME NEW h \in Seq(History), Len(h) >= 2
  PROVE  LET f == Front(h) IN
         /\ f \in Seq(History) /\ f # <<>> /\ Last(f).time \in Nat
         /\ (\A i \in DOMAIN h : h[i].of = "live")
              => \A i \in DOMAIN f : f[i].of = "live"
         /\ \A max \in Nat, last \in Int :
              Unbroken(h, max, last) => Unbroken(f, max, Last(f).time)
<1> DEFINE f == Front(h)
<1>1. f = SubSeq(h, 1, Len(h) - 1) /\ Len(h) \in Nat
  BY DEF Front
<1> HIDE DEF f
<1>2. /\ f \in Seq(History) /\ Len(f) = Len(h) - 1
      /\ \A i \in 1..Len(f) : f[i] = h[i]
  BY <1>1
<1>3. /\ Last(f) = f[Len(f)] /\ Len(f) \in 1..Len(f) /\ f # <<>>
      /\ DOMAIN f = 1..Len(f) /\ DOMAIN h = 1..Len(h)
  <2>1. Last(f) = f[Len(f)]
    BY DEF Last
  <2>2. Len(f) \in Nat /\ Len(f) >= 1
    BY <1>1, <1>2
  <2>3. f # <<>>
    BY <2>2
  <2> QED BY <1>2, <2>1, <2>2, <2>3
<1>4. f[Len(f)] \in History
  BY <1>2, <1>3
<1>5. Last(f).time \in Nat
  BY <1>3, <1>4 DEF History
<1>6. ASSUME \A i \in DOMAIN h : h[i].of = "live", NEW i \in DOMAIN f
      PROVE  f[i].of = "live"
  BY <1>1, <1>2, <1>3, <1>6
<1>7. ASSUME NEW max \in Nat, NEW last \in Int, Unbroken(h, max, last)
      PROVE  Unbroken(f, max, Last(f).time)
  <2>1. Len(f) <= max
    BY <1>1, <1>2, <1>7 DEF Unbroken
  <2>2. ASSUME NEW i \in 1..(Len(f) - 1)
        PROVE  f[i + 1].time = f[i].time + 1
    <3>1. i \in 1..Len(f) /\ i + 1 \in 1..Len(f) /\ i \in 1..(Len(h) - 1)
      BY <1>1, <1>2
    <3>2. h[i + 1].time = h[i].time + 1
      BY <1>7, <3>1 DEF Unbroken
    <3>3. f[i] = h[i] /\ f[i + 1] = h[i + 1]
      BY <1>2, <3>1
    <3> QED BY <3>2, <3>3
  <2> QED BY <1>3, <2>1, <2>2 DEF Unbroken
<1>8. /\ f \in Seq(History) /\ f # <<>> /\ Last(f).time \in Nat
      /\ (\A i \in DOMAIN h : h[i].of = "live")
           => \A i \in DOMAIN f : f[i].of = "live"
      /\ \A max \in Nat, last \in Int :
           Unbroken(h, max, last) => Unbroken(f, max, Last(f).time)
  BY <1>2, <1>3, <1>5, <1>6, <1>7
<1> QED BY <1>8 DEF f

LEMMA RewindSound ==
  ASSUME NEW s, NEW bad, Sound(s)
  PROVE  Sound(rewind(s, bad))
<1> DEFINE t == rewind(s, bad)
<1>1. CASE ~s.rewind_enabled \/ Len(s.rewind_ring) < 2
  BY <1>1, ReturnSound DEF rewind
<1>2. CASE ~(~s.rewind_enabled \/ Len(s.rewind_ring) < 2)
  <2>1. PICK f : f = Front(s.rewind_ring)
    OBVIOUS
  <2>2. /\ s.rewind_ring \in Seq(History) /\ Len(s.rewind_ring) >= 2
        /\ s.rewind_ring # <<>> /\ s.time \in Nat /\ s.rewind_max \in Nat
    BY <1>2 DEF Sound, Kept, Typed
  <2>3. /\ f \in Seq(History) /\ f # <<>> /\ Last(f).time \in Nat
        /\ (\A i \in DOMAIN s.rewind_ring : s.rewind_ring[i].of = "live")
             => \A i \in DOMAIN f : f[i].of = "live"
        /\ \A max \in Nat, last \in Int :
             Unbroken(s.rewind_ring, max, last) => Unbroken(f, max, Last(f).time)
    BY <2>1, <2>2, FrontFacts
  <2>4. ~s.disturbed => Unbroken(f, s.rewind_max, Last(f).time)
    <3>1. s.time - 1 \in Int /\ s.time \in Int
      BY <2>2
    <3>2. CASE s.rewind_replay
      BY <2>2, <2>3, <3>1, <3>2 DEF Sound, Kept, Rewinds
    <3>3. CASE ~s.rewind_replay
      BY <2>2, <2>3, <3>1, <3>3 DEF Sound, Kept, Rewinds
    <3> QED BY <3>2, <3>3
  <2>5. s.rewind_enabled /\ Serializes(s.module) /\ s.rewind_max >= 1
    BY <1>2, <2>2 DEF Sound, Kept, Rewinds
  <2>6. PICK b : b = [s EXCEPT !.rewind_ring = f, !.rewind_replay = TRUE]
    OBVIOUS
  <2>7. b.rewind_ring = f
    BY <2>6 DEF Sound, Kept, Typed, Fields
  <2>8. CASE bad = "unserialize"
    <3>1. t = [b EXCEPT !.disturbed = TRUE, !.result = "ERR"]
      BY <1>2, <2>1, <2>6, <2>8 DEF rewind
    <3>2. t = [s EXCEPT !.rewind_ring = f, !.rewind_replay = TRUE,
                        !.disturbed = TRUE, !.result = "ERR"]
      BY <2>6, <3>1
    <3> HIDE DEF t
    <3>3. Typed(t)
      BY <2>3, <3>2 DEF Sound, Kept, Typed, Flags, Fields
    <3>4. Owned(t) /\ Given(t) /\ Frozen(t)
      BY <3>2 DEF Sound, Kept, Typed, Flags, Fields, Owned, Given, Frozen
    <3>5. Alive(t)
      BY <2>3, <3>2 DEF Sound, Kept, Typed, Flags, Fields, Alive
    <3>6. Rewinds(t)
      BY <2>5, <3>2 DEF Sound, Kept, Typed, Flags, Fields, Rewinds
    <3> QED BY <3>3, <3>4, <3>5, <3>6 DEF Sound, Kept, t
  <2>9. CASE bad # "unserialize"
    <3>1. t = [b EXCEPT !.time = Last(f).time, !.result = "OK"]
      BY <1>2, <2>1, <2>6, <2>7, <2>9 DEF rewind
    <3>2. t = [s EXCEPT !.rewind_ring = f, !.rewind_replay = TRUE,
                        !.time = Last(f).time, !.result = "OK"]
      BY <2>6, <3>1
    <3> HIDE DEF t
    <3>3. Typed(t)
      BY <2>3, <3>2 DEF Sound, Kept, Typed, Flags, Fields
    <3>4. Owned(t) /\ Given(t) /\ Frozen(t)
      BY <3>2 DEF Sound, Kept, Typed, Flags, Fields, Owned, Given, Frozen
    <3>5. Alive(t)
      BY <2>3, <3>2 DEF Sound, Kept, Typed, Flags, Fields, Alive
    <3>6. Rewinds(t)
      <4>1. /\ t.rewind_ring = f /\ t.rewind_replay = TRUE
            /\ t.time = Last(f).time /\ t.rewind_max = s.rewind_max
            /\ t.rewind_enabled = s.rewind_enabled /\ t.module = s.module
            /\ t.disturbed = s.disturbed
        BY <3>2 DEF Sound, Kept, Typed, Fields
      <4> QED BY <2>4, <2>5, <4>1 DEF Rewinds
    <3> QED BY <3>3, <3>4, <3>5, <3>6 DEF Sound, Kept, t
  <2> QED BY <2>8, <2>9
<1> QED BY <1>1, <1>2

LEMMA PauseSound ==
  ASSUME NEW s, Sound(s)
  PROVE  Sound(pause(s)) /\ Sound(resume(s))
<1>1. Sound(pause(s))
  <2> DEFINE t == pause(s)
  <2>1. t = [s EXCEPT !.paused = @ \/ s.core_loaded, !.result = "OK"]
    BY DEF pause
  <2> HIDE DEF t
  <2>2. Flags(t)
    BY <2>1 DEF Sound, Kept, Typed, Flags, Fields
  <2>3. Typed(t)
    BY <2>1, <2>2 DEF Sound, Kept, Typed, Fields
  <2>4. Owned(t) /\ Given(t) /\ Frozen(t)
    BY <2>1 DEF Sound, Kept, Typed, Flags, Fields, Owned, Given, Frozen
  <2>5. Alive(t) /\ Rewinds(t)
    BY <2>1 DEF Sound, Kept, Typed, Flags, Fields, Alive, Rewinds
  <2> QED BY <2>3, <2>4, <2>5 DEF Sound, Kept, t
<1>2. Sound(resume(s))
  <2> DEFINE t == resume(s)
  <2>1. t = [s EXCEPT !.paused = FALSE, !.result = "OK"]
    BY DEF resume
  <2> HIDE DEF t
  <2>2. Typed(t)
    BY <2>1 DEF Sound, Kept, Typed, Flags, Fields
  <2>3. Owned(t) /\ Given(t) /\ Frozen(t)
    BY <2>1 DEF Sound, Kept, Typed, Flags, Fields, Owned, Given, Frozen
  <2>4. Alive(t) /\ Rewinds(t)
    BY <2>1 DEF Sound, Kept, Typed, Flags, Fields, Alive, Rewinds
  <2> QED BY <2>2, <2>3, <2>4 DEF Sound, Kept, t
<1> QED BY <1>1, <1>2

LEMMA SubmitSound ==
  ASSUME NEW s, Sound(s)
  PROVE  Sound(on_submit(s))
<1> DEFINE t == on_submit(s)
<1>1. CASE s.given # "current"
  BY <1>1 DEF on_submit
<1>2. CASE s.given = "current"
  <2>1. t = [s EXCEPT !.has_ready = TRUE]
    BY <1>2 DEF on_submit
  <2> HIDE DEF t
  <2>2. Typed(t)
    BY <2>1 DEF Sound, Kept, Typed, Flags, Fields
  <2>3. Owned(t) /\ Given(t) /\ Frozen(t)
    BY <2>1 DEF Sound, Kept, Typed, Flags, Fields, Owned, Given, Frozen
  <2>4. Alive(t) /\ Rewinds(t)
    BY <2>1 DEF Sound, Kept, Typed, Flags, Fields, Alive, Rewinds
  <2> QED BY <2>2, <2>3, <2>4 DEF Sound, Kept, t
<1> QED BY <1>1, <1>2

\* reset boots the module again from a fresh instance, and unloads it when it
\* cannot.
LEMMA ResetSound ==
  ASSUME NEW s, NEW bad, NEW sound \in BOOLEAN, Sound(s)
  PROVE  Sound(reset(s, bad, sound))
<1>1. CASE ~s.core_loaded
  <2> DEFINE t == reset(s, bad, sound)
  <2>1. t = [s EXCEPT !.paused = FALSE, !.result = "OK"]
    BY <1>1 DEF reset
  <2> HIDE DEF t
  <2>2. Typed(t)
    BY <2>1 DEF Sound, Kept, Typed, Flags, Fields
  <2>3. Owned(t) /\ Given(t) /\ Frozen(t)
    BY <2>1 DEF Sound, Kept, Typed, Flags, Fields, Owned, Given, Frozen
  <2>4. Alive(t) /\ Rewinds(t)
    BY <2>1 DEF Sound, Kept, Typed, Flags, Fields, Alive, Rewinds
  <2> QED BY <2>2, <2>3, <2>4 DEF Sound, Kept, t
<1>2. CASE s.core_loaded
  <2>1. PICK f : f = forget(s)
    OBVIOUS
  <2>2. /\ DOMAIN f = Fields /\ Flags(f) /\ f.core_loaded
        /\ f.core_type = s.core_type /\ f.module = s.module
        /\ f.init_ok = s.init_ok /\ f.rewind_ring = <<>>
        /\ f.rewind_enabled = s.rewind_enabled /\ f.rewind_max = s.rewind_max
        /\ f.dr_have = FALSE /\ f.dr_is_gl = FALSE /\ f.dr_data = "null"
        /\ f.dr_gl_tex = "null" /\ f.have_last_ready = FALSE
    BY <1>2, <2>1, ZenonT(40) DEF forget, Sound, Kept, Typed, Flags, Fields
  <2>3. PICK g : g = destroy(f)
    OBVIOUS
  <2>4. FreedSnapshots(f.rewind_ring) = <<>>
    BY <2>2 DEF FreedSnapshots
  <2>5. g = [f EXCEPT !.loader = "Unloaded", !.game = Nothing, !.time = 0,
                      !.given = "none", !.dr_data = Freed(@),
                      !.dr_gl_tex = Freed(@), !.rewind_ring = <<>>]
    BY <2>3, <2>4 DEF destroy
  <2>6. /\ s.core_type = TypeOf(s.module) /\ s.module \in Cores /\ s.init_ok
        /\ s.rewind_enabled => s.rewind_max >= 1
        /\ s.core_type \in {"PRESENTING", "DRIVEN"} /\ s.rewind_max \in Nat
    BY <1>2 DEF Sound, Kept, Typed, Owned, Rewinds
  <2>7. PICK t : t = create(g)
    OBVIOUS
  <2>8. t = [g EXCEPT !.loader = "Created"]
    BY <2>7 DEF create
  <2>9. <<>> \in Seq(History) /\ DOMAIN << >> = {}
    OBVIOUS
  <2>10. /\ DOMAIN g = Fields /\ g.core_loaded /\ g.core_type = s.core_type
         /\ g.module = s.module /\ g.init_ok = s.init_ok
         /\ g.rewind_ring = <<>> /\ g.rewind_enabled = s.rewind_enabled
         /\ g.rewind_max = s.rewind_max /\ g.time = 0 /\ g.loader = "Unloaded"
         /\ g.dr_have = FALSE /\ g.dr_is_gl = FALSE /\ g.dr_data = "null"
         /\ g.dr_gl_tex = "null" /\ g.have_last_ready = FALSE
    BY <2>2, <2>5 DEF Fields, Freed
  <2>11. Flags(g)
    BY <2>2, <2>5 DEF Fields, Flags
  <2>12. Typed(g)
    BY <2>6, <2>9, <2>10, <2>11 DEF Typed
  <2>13. Sound(Return(unload_core(g), "ERR"))
    BY <2>10, <2>12, UnloadSound, ReturnSound
  <2>14. Fresh(t)
    <3>1. Typed(t)
      BY <2>8, <2>12 DEF Typed, Flags, Fields
    <3>2. /\ t.rewind_ring = <<>> /\ t.dr_have = FALSE /\ t.dr_is_gl = FALSE
          /\ t.dr_data = "null" /\ t.dr_gl_tex = "null"
          /\ t.have_last_ready = FALSE /\ t.loader = "Created"
          /\ t.module = s.module /\ t.init_ok = s.init_ok
          /\ t.rewind_enabled = s.rewind_enabled /\ t.rewind_max = s.rewind_max
      BY <2>8, <2>10 DEF Fields
    <3>3. Alive(t) /\ Frozen(t)
      BY <2>9, <3>2 DEF Alive, Frozen
    <3> QED BY <2>6, <3>1, <3>2, <3>3 DEF Fresh
  <2>15. t.module = s.module
    BY <2>8, <2>10 DEF Fields
  <2>16. PICK r : r = finish_load_core(t, g.core_type, bad, sound)
    OBVIOUS
  <2>17. Sound(r)
    BY <2>6, <2>10, <2>14, <2>15, <2>16, FinishLoadSound
  <2>18. Sound(load_content(r, s.content_path, bad, sound))
    BY <2>17, LoadContentSound
  <2>19. reset(s, bad, sound) \in
           {Return(unload_core(g), "ERR"), r,
            load_content(r, s.content_path, bad, sound)}
    BY <1>2, <2>1, <2>3, <2>7, <2>16 DEF reset
  <2> QED BY <2>13, <2>17, <2>18, <2>19
<1> QED BY <1>1, <1>2

-----------------------------------------------------------------------------
LEMMA InitSound == Init => Sound(rt)
<1> SUFFICES ASSUME Init PROVE Sound(rt)
  OBVIOUS
<1>1. /\ DOMAIN rt = Fields
      /\ rt.core_loaded = FALSE /\ rt.core_type = "PRESENTING"
      /\ rt.module = Nothing /\ rt.loader = "Unloaded"
      /\ rt.requires_content = FALSE /\ rt.content_loaded = FALSE
      /\ rt.content_path = Nothing
      /\ rt.dr_have = FALSE /\ rt.dr_dupe = FALSE /\ rt.dr_is_gl = FALSE
      /\ rt.dr_data = "null" /\ rt.dr_gl_tex = "null"
  BY DEF Init, Fields
<1>2. /\ rt.rewind_ring = <<>> /\ rt.rewind_enabled = FALSE
      /\ rt.rewind_replay = FALSE /\ rt.rewind_max = 0 /\ rt.paused = FALSE
      /\ rt.have_last_ready = FALSE /\ rt.audio = FALSE /\ rt.time = 0
      /\ rt.disturbed = FALSE
  BY DEF Init
<1>3. <<>> \in Seq(History) /\ DOMAIN << >> = {}
  OBVIOUS
<1>4. Flags(rt)
  BY <1>1, <1>2 DEF Flags
<1>5. Typed(rt)
  BY <1>1, <1>2, <1>3, <1>4 DEF Typed
<1>6. Owned(rt) /\ Given(rt) /\ Frozen(rt)
  BY <1>1, <1>2, CoresAssumption DEF Owned, Given, Frozen
<1>7. Alive(rt) /\ Rewinds(rt)
  BY <1>1, <1>2, <1>3 DEF Alive, Rewinds
<1> QED BY <1>5, <1>6, <1>7 DEF Sound, Kept

LEMMA StepSound == Sound(rt) /\ [Next]_rt => Sound(rt)'
<1> SUFFICES ASSUME Sound(rt), [Next]_rt PROVE Sound(rt')
  OBVIOUS
<1>1. \A s : Sound(s) => Sound(Done(s))
  BY ReturnSound DEF Done
<1>2. CASE LoadCore
  BY <1>1, <1>2, LoadCoreSound DEF LoadCore
<1>3. CASE UnloadCore
  BY <1>1, <1>3, UnloadSound DEF UnloadCore, Sound, Kept
<1>4. CASE LoadContent
  BY <1>1, <1>4, LoadContentSound DEF LoadContent
<1>5. CASE Resize
  BY <1>1, <1>5, ResizeSound DEF Resize
<1>6. CASE Advance
  BY <1>1, <1>6, AdvanceSound DEF Advance
<1>7. CASE Present
  BY <1>1, <1>7, PresentSound DEF Present
<1>8. CASE LoadState
  <2>1. 0..MaxTime \subseteq Nat
    BY TimeAssumption
  <2> QED BY <1>1, <1>8, <2>1, LoadStateSound DEF LoadState
<1>9. CASE SetRewind
  BY <1>1, <1>9, SetRewindSound DEF SetRewind
<1>10. CASE Rewind
  BY <1>1, <1>10, RewindSound DEF Rewind
<1>11. CASE Pause
  BY <1>1, <1>11, PauseSound DEF Pause
<1>12. CASE Resume
  BY <1>1, <1>12, PauseSound DEF Resume
<1>13. CASE Reset
  BY <1>1, <1>13, ResetSound DEF Reset
<1>14. CASE Submit
  BY <1>14, SubmitSound DEF Submit
<1>15. CASE UNCHANGED rt
  BY <1>15
<1> QED BY <1>2, <1>3, <1>4, <1>5, <1>6, <1>7, <1>8, <1>9, <1>10, <1>11,
           <1>12, <1>13, <1>14, <1>15 DEF Next

\* Every state of the runtime between two calls is sound, whatever the order
\* of the calls and whichever step of each of them fails (Runtime.cpp).
THEOREM RuntimeInvariant == Spec => []Sound(rt)
  BY InitSound, StepSound, PTL DEF Spec

\* The flags, the loader and the module always agree, after every call that
\* succeeds and every call that stops at a failing step.
THEOREM LifecycleAgrees == Spec => []LifecycleConsistent
<1>1. Sound(rt) => LifecycleConsistent
  BY CoresAssumption DEF Sound, Kept, Typed, Flags, Owned, Given, TypeOf,
                         LifecycleConsistent
<1> QED BY RuntimeInvariant, <1>1, PTL

\* Neither the frame kept for the next render nor a snapshot of the rewind
\* ring ever points into an instance that has been destroyed.
THEOREM NothingDangles == Spec => []NoDangling
<1>1. Sound(rt) => NoDangling
  BY DEF Sound, Kept, Alive, NoDangling
<1> QED BY RuntimeInvariant, <1>1, PTL

\* The frame that a paused display repeats is one of the current surfaces,
\* unless an allocation has failed.
THEOREM FrozenFrameStaysCurrent == Spec => []FrozenFrameCurrent
<1>1. Sound(rt) => FrozenFrameCurrent
  BY DEF Sound, Kept, Frozen, FrozenFrameCurrent
<1> QED BY RuntimeInvariant, <1>1, PTL

\* For every limit and every sequence of play, rewinds and other calls, an
\* undisturbed rewind ring is the unbroken history up to the frame shown.
THEOREM RewindIsHistory == Spec => []RewindHistory
<1>1. Sound(rt) => RewindHistory
  BY DEF Sound, Kept, Rewinds, Unbroken, RewindHistory, Last
<1> QED BY RuntimeInvariant, <1>1, PTL
=============================================================================
