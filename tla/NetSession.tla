------------------------------ MODULE NetSession ------------------------------
(***************************************************************************)
(* Delay-based lockstep netplay between two peers, after                    *)
(* src/src/net/NetSession.cpp.  A tick is tick_send (TickSend) followed by  *)
(* tick_recv_and_advance: receive until the remote input owed for this      *)
(* frame is there (RecvInput, RecvChecksum), then Advance; or give up       *)
(* waiting (Timeout), after which the caller ticks the same frame again.    *)
(***************************************************************************)
EXTENDS Netplay

CONSTANTS
  Delay,          \* delay_, the host's, agreed in the handshake
  ChecksumEvery,  \* kChecksumEvery
  HoldOnWait,     \* TRUE: the caller repeats the input of a frame it waits at
  MaxWaits        \* bound: timeouts per peer

ASSUME DelayAssumption == Delay \in Nat
ASSUME ChecksumAssumption == ChecksumEvery \in Nat \ {0}
ASSUME HoldAssumption == HoldOnWait \in BOOLEAN
ASSUME WaitsAssumption == MaxWaits \in Nat

VARIABLES
  frame, status,
  local_pending, remote_pending,  \* apply frame -> input
  own_crc, peer_crc,              \* frame -> checksum
  core,                           \* the state of the peer's core
  chan,                           \* chan[p]: messages on their way to p
  open,                           \* the connection is up
  pc,                             \* "idle" or "recv"
  waits                           \* timeouts so far, for the bound

pending == <<local_pending, remote_pending>>
crcs == <<own_crc, peer_crc>>
vars == <<frame, status, pending, crcs, core, chan, open, pc, waits>>

Frames == 0..MaxFrame
ApplyFrames == 0..(MaxFrame + Delay)

\* A peer that has played MaxFrame frames has left the model: what is sent to
\* it is never read.
Deliver(p, msgs) ==
  IF frame[Other(p)] = MaxFrame THEN chan
  ELSE [chan EXCEPT ![Other(p)] = @ \o msgs]

-----------------------------------------------------------------------------
\* Both sides just after a successful start_host / start_join.
Init ==
  /\ frame = [p \in Peers |-> 0]
  /\ status = [p \in Peers |-> "Ok"]
  /\ local_pending = [p \in Peers |-> Empty]
  /\ remote_pending = [p \in Peers |-> Empty]
  /\ own_crc = [p \in Peers |-> Empty]
  /\ peer_crc = [p \in Peers |-> Empty]
  /\ core = [p \in Peers |-> Empty]
  /\ chan = [p \in Peers |-> <<>>]
  /\ open = TRUE
  /\ pc = [p \in Peers |-> "idle"]
  /\ waits = [p \in Peers |-> 0]

\* Frame F's tick sends the input of frame F + delay_.  The caller stops on
\* Desync and Disconnected, and ticks again on Ok and Waiting.
ApplyFrame(p) == frame[p] + Delay

MayFeed(p, in) ==
  /\ in \in Feeds(p, frame[p])
  /\ HoldOnWait /\ ApplyFrame(p) \in DOMAIN local_pending[p]
       => in = local_pending[p][ApplyFrame(p)]

\* Faulty variant: the message carries the frame it was sent in.
SentUndelayed(p, in) == InputMsg(frame[p], in)
Sent(p, in) == InputMsg(ApplyFrame(p), in)

TickSend(p, in) ==
  /\ pc[p] = "idle"
  /\ status[p] \in {"Ok", "Waiting"}
  /\ frame[p] < MaxFrame
  /\ MayFeed(p, in)
  /\ local_pending' = [local_pending EXCEPT ![p] = Put(@, ApplyFrame(p), in)]
  /\ IF open
     THEN /\ chan' = Deliver(p, <<Sent(p, in)>>)
          /\ pc' = [pc EXCEPT ![p] = "recv"]
          /\ UNCHANGED status
     ELSE /\ status' = [status EXCEPT ![p] = "Disconnected"]
          /\ UNCHANGED <<chan, pc>>
  /\ UNCHANGED <<frame, remote_pending, crcs, core, open, waits>>

-----------------------------------------------------------------------------
\* Faulty variants: the wait ends as soon as the ring holds any input at all;
\* the frames before the first delayed input are waited for too.
OwedAny(p) == frame[p] >= Delay /\ remote_pending[p] = Empty
OwedAlways(p) == frame[p] \notin DOMAIN remote_pending[p]

\* Nobody sent an input for the frames below delay_.
Owed(p) == frame[p] >= Delay /\ frame[p] \notin DOMAIN remote_pending[p]

Receives(p, type) ==
  /\ pc[p] = "recv"
  /\ Owed(p)
  /\ chan[p] # <<>>
  /\ Head(chan[p]).type = type
  /\ chan' = [chan EXCEPT ![p] = Tail(@)]

RecvInput(p) ==
  /\ Receives(p, "Input")
  /\ LET m == Head(chan[p]) IN
     remote_pending' = [remote_pending EXCEPT ![p] = Put(@, m.frame, m.state)]
  /\ UNCHANGED <<frame, status, local_pending, crcs, core, open, pc, waits>>

RecvChecksum(p) ==
  /\ Receives(p, "Checksum")
  /\ LET m == Head(chan[p]) IN
     peer_crc' = [peer_crc EXCEPT ![p] = Put(@, m.frame, m.crc)]
  /\ UNCHANGED <<frame, status, pending, own_crc, core, open, pc, waits>>

\* kRecvTimeoutMs pass without a message.
Timeout(p) ==
  /\ pc[p] = "recv"
  /\ Owed(p)
  /\ waits[p] < MaxWaits
  /\ waits' = [waits EXCEPT ![p] = @ + 1]
  /\ status' = [status EXCEPT ![p] = "Waiting"]
  /\ pc' = [pc EXCEPT ![p] = "idle"]
  /\ UNCHANGED <<frame, pending, crcs, core, chan, open>>

RecvError(p) ==
  /\ pc[p] = "recv"
  /\ Owed(p)
  /\ ~open
  /\ status' = [status EXCEPT ![p] = "Disconnected"]
  /\ pc' = [pc EXCEPT ![p] = "idle"]
  /\ UNCHANGED <<frame, pending, crcs, core, chan, open, waits>>

-----------------------------------------------------------------------------
\* An input nobody sent is neutral.
InputAt(m, f) == IF f \in DOMAIN m THEN m[f] ELSE Neutral

\* Faulty variant: the local input is used at once, without the delay.
UndelayedPair(p) ==
  PairOf(p, InputAt(local_pending[p], ApplyFrame(p)),
            InputAt(remote_pending[p], frame[p]))

\* The pair applied to this frame.
AppliedPair(p) ==
  PairOf(p, InputAt(local_pending[p], frame[p]),
            InputAt(remote_pending[p], frame[p]))

Presented(p) == Put(core[p], frame[p], AppliedPair(p))

ChecksumDue(p) == frame[p] % ChecksumEvery = 0

\* Faulty variant: one interval of checksums is kept instead of two.
FloorNarrow(f) == IF f >= ChecksumEvery THEN f - ChecksumEvery ELSE 0

\* Prune floors of the input rings and of the checksum maps.
InputFloor(f) == IF f >= 3 THEN f - 3 ELSE 0
CrcFloor(f) == IF f >= 2 * ChecksumEvery THEN f - 2 * ChecksumEvery ELSE 0

\* The checksum that could not be sent: present has run, ++frame_ has not.
AdvanceUnsent(p) ==
  /\ own_crc' = [own_crc EXCEPT ![p] = Put(@, frame[p], Presented(p))]
  /\ status' = [status EXCEPT ![p] = "Disconnected"]
  /\ UNCHANGED <<frame, pending, peer_crc, chan>>

AdvanceSent(p) ==
  LET own == IF ChecksumDue(p) THEN Put(own_crc[p], frame[p], Presented(p))
             ELSE own_crc[p]
      f   == frame[p]
  IN  /\ chan' = IF ChecksumDue(p)
                 THEN Deliver(p, <<ChecksumMsg(f, Presented(p))>>) ELSE chan
      /\ IF Mismatch(own, peer_crc[p])
         THEN /\ own_crc' = [own_crc EXCEPT ![p] = own]
              /\ status' = [status EXCEPT ![p] = "Desync"]
              /\ UNCHANGED <<frame, pending, peer_crc>>
         ELSE /\ own_crc' = [own_crc EXCEPT ![p] = rb_prune_below(own, CrcFloor(f))]
              /\ peer_crc' = [peer_crc EXCEPT ![p] = rb_prune_below(@, CrcFloor(f))]
              /\ remote_pending' =
                   [remote_pending EXCEPT ![p] = rb_prune_below(@, InputFloor(f))]
              /\ local_pending' =
                   [local_pending EXCEPT ![p] = rb_prune_below(@, InputFloor(f))]
              /\ frame' = [frame EXCEPT ![p] = @ + 1]
              /\ status' = [status EXCEPT ![p] = "Ok"]

Advance(p) ==
  /\ pc[p] = "recv"
  /\ ~Owed(p)
  /\ core' = [core EXCEPT ![p] = Presented(p)]
  /\ IF ChecksumDue(p) /\ ~open THEN AdvanceUnsent(p) ELSE AdvanceSent(p)
  /\ pc' = [pc EXCEPT ![p] = "idle"]
  /\ UNCHANGED <<open, waits>>

\* The connection goes down (either side closes it, or the network does).
Close ==
  /\ open
  /\ open' = FALSE
  /\ UNCHANGED <<frame, status, pending, crcs, core, chan, pc, waits>>

Recv(p) == RecvInput(p) \/ RecvChecksum(p)

Next ==
  \/ \E p \in Peers, in \in Inputs : TickSend(p, in)
  \/ \E p \in Peers : RecvInput(p)
  \/ \E p \in Peers : RecvChecksum(p)
  \/ \E p \in Peers : Timeout(p)
  \/ \E p \in Peers : RecvError(p)
  \/ \E p \in Peers : Advance(p)
  \/ Close

Spec == Init /\ [][Next]_vars

\* The caller keeps ticking, a message in flight arrives (the transport is
\* reliable), and what has been received is applied.
Fairness ==
  \A p \in Peers :
    /\ WF_vars(\E in \in Inputs : TickSend(p, in))
    /\ SF_vars(Recv(p))
    /\ WF_vars(Advance(p))

FairSpec == Spec /\ Fairness

-----------------------------------------------------------------------------
IsMap(m, dom) == \A p \in Peers : DOMAIN m[p] \subseteq dom

\* Types of the session's members (NetSession.h).
TypeOK ==
  /\ frame \in [Peers -> Frames]
  /\ status \in [Peers -> {"Ok", "Waiting", "Desync", "Disconnected"}]
  /\ IsMap(local_pending, ApplyFrames) /\ IsMap(remote_pending, ApplyFrames)
  /\ IsMap(own_crc, Frames) /\ IsMap(peer_crc, Frames) /\ IsMap(core, Frames)
  /\ \A p \in Peers :
       /\ local_pending[p] \in [DOMAIN local_pending[p] -> Inputs]
       /\ remote_pending[p] \in [DOMAIN remote_pending[p] -> Inputs]
       /\ core[p] \in [DOMAIN core[p] -> Pairs]
  /\ open \in BOOLEAN
  /\ pc \in [Peers -> {"idle", "recv"}]
  /\ waits \in [Peers -> 0..MaxWaits]

\* The inputs p's player has committed so far, by apply frame: the applied
\* ones are in the core, the others in local_pending_.
Committed(p) ==
  LET n == ApplyFrame(p)
           + IF ApplyFrame(p) \in DOMAIN local_pending[p] THEN 1 ELSE 0
  IN  [f \in 0..(n - 1) |->
         IF f \in DOMAIN core[p] THEN core[p][f][p]
         ELSE InputAt(local_pending[p], f)]

\* No input is lost between the two sides: one that has been committed and is
\* still to be applied by the other peer is on its way or in its ring,
\* whatever was pruned, sent twice or received early.
NoInputLost ==
  \A p \in Peers :
    LET q == Other(p)
        sent == {f \in DOMAIN Committed(q) : f >= Delay /\ f >= frame[p]}
    IN  open /\ frame[p] < MaxFrame =>
        \A f \in sent :
          \/ f \in DOMAIN remote_pending[p]
          \/ \E i \in DOMAIN chan[p] :
               chan[p][i].type = "Input" /\ chan[p][i].frame = f

\* A peer's checksum always meets its counterpart: when it arrives for a frame
\* this side has played, this side's own is still in the map.
ChecksumsMeet ==
  2 * ChecksumEvery > Delay =>
    \A p \in Peers : \A f \in DOMAIN peer_crc[p] :
      f < frame[p] => f \in DOMAIN own_crc[p]

\* Neither side gets further ahead than the delay allows.
BoundedLead ==
  \A p \in Peers : frame[p] <= frame[Other(p)] + Delay + 1

\* Lockstep is what the session implements.
Abstract == INSTANCE Lockstep
  WITH Lead <- Delay, input <- [p \in Peers |-> Committed(p)], game <- core

\* Each side replays the committed inputs of both players.
ImplementsLockstep == Abstract!LockstepSpec

\* Nobody waits for ever: both sides play to the end unless the connection is
\* lost.
Progress == <>(~open \/ \A p \in Peers : frame[p] = MaxFrame)
=============================================================================
