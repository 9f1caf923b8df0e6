------------------------------- MODULE Lockstep -------------------------------
(***************************************************************************)
(* What netplay promises, whichever way it is done: each player commits one *)
(* input per frame, once and for all, and each peer's game is the replay of *)
(* both players' committed inputs, frame after frame.  The two games        *)
(* therefore agree on every frame both have reached.                        *)
(***************************************************************************)
EXTENDS Netplay

CONSTANT Lead   \* frames whose inputs are neutral from the start

VARIABLES input,   \* input[p]: the inputs p's player has committed, by frame
          game     \* game[p]: the pairs p's machine has settled, by frame

lockstep == <<input, game>>

LockstepInit ==
  /\ input = [p \in Peers |-> [f \in 0..(Lead - 1) |-> Neutral]]
  /\ game = [p \in Peers |-> Empty]

Length(m) == IF DOMAIN m = {} THEN 0
             ELSE 1 + CHOOSE f \in DOMAIN m : \A k \in DOMAIN m : k <= f

Commit(p) ==
  /\ \E i \in Inputs : input' = [input EXCEPT ![p] = Put(@, Length(@), i)]
  /\ UNCHANGED game

\* Settle frames up to n, where both players have committed their inputs.
Play(p) ==
  /\ \E n \in 1..MaxFrame :
       /\ n > Length(game[p])
       /\ \A q \in Peers : n <= Length(input[q])
       /\ game' = [game EXCEPT ![p] =
                     [f \in 0..(n - 1) |-> [q \in Peers |-> input[q][f]]]]
  /\ UNCHANGED input

LockstepNext == \E p \in Peers : Commit(p) \/ Play(p)

LockstepSpec == LockstepInit /\ [][LockstepNext]_lockstep
=============================================================================
