------------------------------ MODULE MCRuntime ------------------------------
(* One core of each type, with and without content; all but the             *)
(* content-free presenting core save their state.                           *)
EXTENDS Runtime

MCCores == {"refcore_driven", "libretro_shim", "refcore_present", "dolphin_present"}
MCPresenting(c) == c \in {"refcore_present", "dolphin_present"}
MCTakesContent(c) == c \in {"libretro_shim", "dolphin_present"}
MCSerializes(c) == c # "refcore_present"
=============================================================================
