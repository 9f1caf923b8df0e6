------------------------------ MODULE Netplay --------------------------------
(***************************************************************************)
(* What the two kinds of netplay session share: players, input pairs, core *)
(* states, the frame-indexed maps and the wire messages of                 *)
(* src/src/net/NetProtocol.h.                                              *)
(*                                                                         *)
(* The emulated core is deterministic and input-sensitive, so its state    *)
(* before frame f is identified with the f input pairs that produced it:   *)
(* a function on 0..f-1.  Serialising a state is copying that function,    *)
(* and a CRC is taken to be collision-free.                                *)
(***************************************************************************)
EXTENDS Integers, Sequences

CONSTANTS
  Inputs,         \* values of rp_input_state
  Neutral,        \* the zeroed rp_input_state
  Feeds(_, _),    \* Feeds(p, f): inputs p's player may give at frame f
  MaxFrame        \* bound: frames each peer plays

ASSUME InputsAssumption ==
  /\ Neutral \in Inputs
  /\ \A p \in {"host", "join"} : \A f \in 0..MaxFrame : Feeds(p, f) \subseteq Inputs
ASSUME MaxFrameAssumption == MaxFrame \in Nat

Peers == {"host", "join"}
Other(p) == IF p = "host" THEN "join" ELSE "host"

\* The input pair of a frame, by player.
Pairs == [Peers -> Inputs]
PairOf(p, mine, theirs) == [q \in Peers |-> IF q = p THEN mine ELSE theirs]

\* Core states: the input pairs applied so far, indexed by frame.
Take(state, f) == [k \in 0..(f - 1) |-> state[k]]

\* std::map operations.
Put(m, f, v) == [k \in DOMAIN m \union {f} |-> IF k = f THEN v ELSE m[k]]
rb_prune_below(m, floor) == [k \in {f \in DOMAIN m : f >= floor} |-> m[k]]
Empty == [f \in {} |-> Neutral]

InputMsg(f, i) == [type |-> "Input", frame |-> f, state |-> i]
ChecksumMsg(f, c) == [type |-> "Checksum", frame |-> f, crc |-> c]

\* Some frame has two checksums that differ.
Mismatch(own, peer) ==
  \E f \in DOMAIN own \intersect DOMAIN peer : own[f] # peer[f]
=============================================================================
