--------------------------- MODULE RollbackSession ---------------------------
(***************************************************************************)
(* GGPO-style rollback netplay between two peers, after                    *)
(* src/src/net/RollbackSession.cpp and src/src/net/RollbackPredict.{h,cpp}.*)
(*                                                                         *)
(* A tick is three kinds of step: BeginTick (record and send the local     *)
(* input), Drain (one successful non-blocking recv, any number of times)   *)
(* and EndTick (the rest, from the recv that finds nothing on).  Between   *)
(* them the other peer may run and messages may arrive.                    *)
(***************************************************************************)
EXTENDS Netplay, FiniteSetsExt

CONSTANTS
  MaxPrediction,  \* max_prediction_, agreed in the handshake
  ChecksumEvery,  \* kChecksumEvery
  HoldOnStall,    \* TRUE: the caller repeats the input of a stalled frame
  SavesFail,      \* TRUE: save_state may fail, or the core have no state to save
  MaxInFlight     \* bound: undelivered messages per direction

ASSUME PredictionAssumption == MaxPrediction \in Nat \ {0}
ASSUME ChecksumAssumption == ChecksumEvery \in Nat \ {0}
ASSUME HoldAssumption == HoldOnStall \in BOOLEAN
ASSUME SavesAssumption == SavesFail \in BOOLEAN
ASSUME InFlightAssumption == MaxInFlight \in Nat

VARIABLES
  frame, confirmed, have_confirmed, verified, rollback_count, status,
  ring,                  \* frame -> serialised state before that frame
  local, remote, used,   \* frame -> input
  own_crc, peer_crc,     \* frame -> checksum
  core,                  \* the state of the peer's core
  chan,                  \* chan[p]: messages on their way to p
  open,                  \* the connection is up
  pc                     \* "idle" or "drain": where p's caller is in tick

net  == <<chan, open>>
hist == <<ring, local, remote, used, own_crc, peer_crc>>
vars == <<frame, confirmed, have_confirmed, verified, rollback_count, status,
          hist, core, net, pc>>

Frames == 0..MaxFrame
States == UNION {[0..(f - 1) -> Pairs] : f \in Frames}

\* What save_ring stores: a state, or the empty blob of a core whose
\* serialize_size is 0.
Blank == [f \in {-1} |-> Neutral]
Blobs == States \union {Blank}

IsInputMap(m) == DOMAIN m \subseteq Frames /\ m \in [DOMAIN m -> Inputs]
IsStateMap(m) == DOMAIN m \subseteq Frames /\ m \in [DOMAIN m -> Blobs]

Messages == [type : {"Input"}, frame : Frames, state : Inputs]
              \union [type : {"Checksum"}, frame : Frames, crc : Blobs]

\* A peer that has played MaxFrame frames has left the model: what is sent to
\* it is never read.
Send(p, m) ==
  chan' = IF frame[Other(p)] = MaxFrame THEN chan
          ELSE [chan EXCEPT ![Other(p)] = Append(@, m)]

-----------------------------------------------------------------------------
\* Both sides just after a successful start_host / start_join.
Init ==
  /\ frame = [p \in Peers |-> 0]
  /\ confirmed = [p \in Peers |-> 0]
  /\ have_confirmed = [p \in Peers |-> FALSE]
  /\ verified = [p \in Peers |-> 0]
  /\ rollback_count = [p \in Peers |-> 0]
  /\ status = [p \in Peers |-> "Ok"]
  /\ ring = [p \in Peers |-> Empty]
  /\ local = [p \in Peers |-> Empty]
  /\ remote = [p \in Peers |-> Empty]
  /\ used = [p \in Peers |-> Empty]
  /\ own_crc = [p \in Peers |-> Empty]
  /\ peer_crc = [p \in Peers |-> Empty]
  /\ core = [p \in Peers |-> Empty]
  /\ chan = [p \in Peers |-> <<>>]
  /\ open = TRUE
  /\ pc = [p \in Peers |-> "idle"]

-----------------------------------------------------------------------------
\* tick, step 1.  A stalled frame is ticked again, with the input of the
\* moment: local_[F] is overwritten and sent once more.
MayFeed(p, in) ==
  /\ in \in Feeds(p, frame[p])
  /\ HoldOnStall /\ frame[p] \in DOMAIN local[p] => in = local[p][frame[p]]

\* The bound on messages in flight: p waits while the other side has a full
\* queue to read, unless p has one too; and no tick ends with a full queue
\* unread (EndTick), so that the bound makes nobody wait for ever.
HasRoom(p) ==
  \/ frame[Other(p)] = MaxFrame
  \/ Len(chan[Other(p)]) < MaxInFlight
  \/ Len(chan[p]) >= MaxInFlight

BeginTick(p, in) ==
  /\ pc[p] = "idle"
  /\ status[p] # "Disconnected"
  /\ frame[p] < MaxFrame
  /\ HasRoom(p)
  /\ MayFeed(p, in)
  /\ local' = [local EXCEPT ![p] = Put(@, frame[p], in)]
  /\ IF open
       THEN /\ Send(p, InputMsg(frame[p], in))
            /\ pc' = [pc EXCEPT ![p] = "drain"]
            /\ UNCHANGED status
       ELSE /\ status' = [status EXCEPT ![p] = "Disconnected"]
            /\ UNCHANGED <<chan, pc>>
  /\ UNCHANGED <<frame, confirmed, have_confirmed, verified, rollback_count,
                 ring, remote, used, own_crc, peer_crc, core, open>>

\* tick, step 2: one message.
\* Faulty variants: the first confirmation is kept for ever; an off-by-one.
StuckConfirmed(p, f) == IF have_confirmed[p] THEN confirmed[p] ELSE f
ConfirmedBelow(p, f) == f - 1

NewConfirmed(p, f) ==
  IF ~have_confirmed[p] \/ f > confirmed[p] THEN f ELSE confirmed[p]

DrainInput(p) ==
  LET m == Head(chan[p]) IN
  /\ pc[p] = "drain"
  /\ chan[p] # <<>>
  /\ m.type = "Input"
  /\ remote' = [remote EXCEPT ![p] = Put(@, m.frame, m.state)]
  /\ confirmed' = [confirmed EXCEPT ![p] = NewConfirmed(p, m.frame)]
  /\ have_confirmed' = [have_confirmed EXCEPT ![p] = TRUE]
  /\ chan' = [chan EXCEPT ![p] = Tail(@)]
  /\ UNCHANGED <<frame, verified, rollback_count, status, ring, local, used,
                 own_crc, peer_crc, core, open, pc>>

DrainChecksum(p) ==
  LET m == Head(chan[p]) IN
  /\ pc[p] = "drain"
  /\ chan[p] # <<>>
  /\ m.type = "Checksum"
  /\ peer_crc' = [peer_crc EXCEPT ![p] = Put(@, m.frame, m.crc)]
  /\ chan' = [chan EXCEPT ![p] = Tail(@)]
  /\ UNCHANGED <<frame, confirmed, have_confirmed, verified, rollback_count,
                 status, ring, local, remote, used, own_crc, core, open, pc>>

\* recv fails for another reason than RP_ERR_NOT_FOUND.
DrainError(p) ==
  /\ pc[p] = "drain"
  /\ ~open
  /\ status' = [status EXCEPT ![p] = "Disconnected"]
  /\ pc' = [pc EXCEPT ![p] = "idle"]
  /\ UNCHANGED <<frame, confirmed, have_confirmed, verified, rollback_count,
                 hist, core, net>>

-----------------------------------------------------------------------------
\* tick, step 3: reconcile [verified_, min(confirmed_, F-1)].
Hi(p) == IF confirmed[p] < frame[p] - 1 THEN confirmed[p] ELSE frame[p] - 1

Reconciles(p) == have_confirmed[p] /\ frame[p] > 0 /\ verified[p] <= Hi(p)

UsedAt(p, f) == IF f \in DOMAIN used[p] THEN used[p][f] ELSE Neutral

Mispredicted(p) ==
  {f \in verified[p]..Hi(p) :
     f \in DOMAIN remote[p] /\ remote[p][f] # UsedAt(p, f)}

RollsBack(p) == Reconciles(p) /\ Mispredicted(p) # {}
\* Faulty variant: the scan returns the latest misprediction.
LastMispredicted(p) == Max(Mispredicted(p))
rb_first_mispredicted(p) == Min(Mispredicted(p))

rb_predict(p) ==
  IF confirmed[p] \in DOMAIN remote[p] THEN remote[p][confirmed[p]] ELSE Neutral

RemoteInput(p, f) ==
  IF f \in DOMAIN remote[p] THEN remote[p][f] ELSE rb_predict(p)

LocalInput(p, f) == IF f \in DOMAIN local[p] THEN local[p][f] ELSE Neutral

\* What step 3 leaves in the core, ring_, used_ and verified_.  The loop that
\* loads ring_[g] and replays g..F-1 is written in closed form.
ReconciledCore(p) ==
  IF ~RollsBack(p) THEN core[p]
  ELSE LET g == rb_first_mispredicted(p) IN
       [k \in 0..(frame[p] - 1) |->
          IF k < g THEN ring[p][g][k]
          ELSE PairOf(p, LocalInput(p, k), RemoteInput(p, k))]

\* Faulty variants: the replay does not save its states, does not note the
\* inputs it used, or (as slice-h design section 2 words it) leaves verified_
\* on the last frame checked.
UnsavedReplay(p, lost, blank) == ring[p]
UnnotedReplay(p) == used[p]
VerifiedAtHi(p) == IF Reconciles(p) THEN Hi(p) ELSE verified[p]

\* save_ring for some frames of the timeline c.  Where save_state fails, the
\* frames lost, nothing is stored: what ring_ held, if anything, stays.
SaveRing(r, frames, c, lost, blank) ==
  [f \in DOMAIN r \union (frames \ lost) |->
     IF f \notin frames \ lost THEN r[f]
     ELSE IF f \in blank THEN Blank ELSE Take(c, f)]

FailedSaves(p) == IF SavesFail THEN SUBSET (0..frame[p]) ELSE {{}}

ReconciledRing(p, lost, blank) ==
  IF ~RollsBack(p) THEN ring[p]
  ELSE SaveRing(ring[p], (rb_first_mispredicted(p) + 1)..frame[p],
                ReconciledCore(p), lost, blank)

ReconciledUsed(p) ==
  IF ~RollsBack(p) THEN used[p]
  ELSE LET g == rb_first_mispredicted(p) IN
       [f \in DOMAIN used[p] \union (g..(frame[p] - 1)) |->
          IF f \in g..(frame[p] - 1) THEN RemoteInput(p, f) ELSE used[p][f]]

ReconciledVerified(p) == IF Reconciles(p) THEN Hi(p) + 1 ELSE verified[p]

\* load_state refuses an empty blob, which is also what operator[] inserts for
\* a snapshot that is not there.
LoadFails(p) ==
  /\ RollsBack(p)
  /\ \/ rb_first_mispredicted(p) \notin DOMAIN ring[p]
     \/ ring[p][rb_first_mispredicted(p)] = Blank

\* tick, step 4.
Ahead(p) ==
  IF frame[p] > 0 /\ have_confirmed[p] /\ frame[p] - 1 > confirmed[p]
  THEN frame[p] - 1 - confirmed[p] ELSE 0
Stalls(p) == Ahead(p) >= MaxPrediction

-----------------------------------------------------------------------------
\* tick, step 6, with the ring, the used inputs and verified_ as they are by
\* then.  The send's result is ignored.
SendsChecksum(v, r) == v # 0 /\ v % ChecksumEvery = 0 /\ v \in DOMAIN r

\* Faulty variant: the newest snapshot is checksummed, verified or not.
ChecksumNewest(p, v, r) ==
  LET n == frame[p] IN
  IF SendsChecksum(n, r)
  THEN /\ own_crc' = [own_crc EXCEPT ![p] = Put(@, n, r[n])]
       /\ IF open THEN Send(p, ChecksumMsg(n, r[n])) ELSE UNCHANGED chan
  ELSE UNCHANGED <<own_crc, chan>>

maybe_send_checksum(p, v, r) ==
  IF SendsChecksum(v, r)
  THEN /\ own_crc' = [own_crc EXCEPT ![p] = Put(@, v, r[v])]
       /\ IF open THEN Send(p, ChecksumMsg(v, r[v])) ELSE UNCHANGED chan
  ELSE UNCHANGED <<own_crc, chan>>

check_desync(own, peer, st) == IF Mismatch(own, peer) THEN "Desync" ELSE st

\* tick assigns status_ after check_desync has, and returns that.
TickStatus(checked, result) == result

\* Faulty variant: the snapshot of the first unverified frame goes too.
PruneAhead(v) == v + 1

PruneFloor(v) ==
  LET slack == MaxPrediction + 2 IN IF v > slack THEN v - slack ELSE 0

prune(p, v, r, u) ==
  /\ ring' = [ring EXCEPT ![p] = rb_prune_below(r, PruneFloor(v))]
  /\ used' = [used EXCEPT ![p] = rb_prune_below(u, PruneFloor(v))]
  /\ local' = [local EXCEPT ![p] = rb_prune_below(@, PruneFloor(v))]
  /\ remote' = [remote EXCEPT ![p] = rb_prune_below(@, PruneFloor(v))]

CountRollback(p) ==
  rollback_count' = [rollback_count EXCEPT ![p] =
                       IF RollsBack(p) THEN @ + 1 ELSE @]

\* The end of a tick that goes on to step 6.
FinishTick(p, v, r, u, result) ==
  /\ verified' = [verified EXCEPT ![p] = v]
  /\ CountRollback(p)
  /\ maybe_send_checksum(p, v, r)
  /\ status' = [status EXCEPT ![p] =
                  TickStatus(check_desync(own_crc'[p], peer_crc[p], @), result)]
  /\ prune(p, v, r, u)

FailTick(p) ==
  /\ status' = [status EXCEPT ![p] = "Desync"]
  /\ ring' = [ring EXCEPT ![p] = Put(@, rb_first_mispredicted(p), Blank)]
  /\ UNCHANGED <<frame, verified, rollback_count, core, own_crc, chan,
                 local, remote, used>>

StallTick(p, lost, blank) ==
  /\ core' = [core EXCEPT ![p] = ReconciledCore(p)]
  /\ FinishTick(p, ReconciledVerified(p), ReconciledRing(p, lost, blank),
                ReconciledUsed(p), "Stalled")
  /\ UNCHANGED frame

\* Step 5, save_ring(F) included.
SimulatedCore(p) ==
  [k \in 0..frame[p] |->
     IF k < frame[p] THEN ReconciledCore(p)[k]
     ELSE PairOf(p, LocalInput(p, frame[p]), RemoteInput(p, frame[p]))]
SimulatedRing(p, lost, blank) ==
  SaveRing(ReconciledRing(p, lost, blank), {frame[p]}, ReconciledCore(p),
           lost, blank)
SimulatedUsed(p) == Put(ReconciledUsed(p), frame[p], RemoteInput(p, frame[p]))

SimulateTick(p, lost, blank) ==
  /\ core' = [core EXCEPT ![p] = SimulatedCore(p)]
  /\ frame' = [frame EXCEPT ![p] = @ + 1]
  /\ FinishTick(p, ReconciledVerified(p), SimulatedRing(p, lost, blank),
                SimulatedUsed(p), "Ok")

EndTick(p) ==
  /\ pc[p] = "drain"
  /\ Len(chan[p]) < MaxInFlight
  /\ \E lost, blank \in FailedSaves(p) :
       IF LoadFails(p) THEN FailTick(p)
       ELSE IF Stalls(p) THEN StallTick(p, lost, blank)
       ELSE SimulateTick(p, lost, blank)
  /\ pc' = [pc EXCEPT ![p] = "idle"]
  /\ UNCHANGED <<confirmed, have_confirmed, peer_crc, open>>

\* The connection goes down (either side closes it, or the network does).
Close ==
  /\ open
  /\ open' = FALSE
  /\ UNCHANGED <<frame, confirmed, have_confirmed, verified, rollback_count,
                 status, hist, core, chan, pc>>

Drain(p) == DrainInput(p) \/ DrainChecksum(p)

Next ==
  \/ \E p \in Peers, in \in Inputs : BeginTick(p, in)
  \/ \E p \in Peers : DrainInput(p)
  \/ \E p \in Peers : DrainChecksum(p)
  \/ \E p \in Peers : DrainError(p)
  \/ \E p \in Peers : EndTick(p)
  \/ Close

Spec == Init /\ [][Next]_vars

-----------------------------------------------------------------------------
IsPerPeer(m) == m = [p \in Peers |-> m[p]]

\* Types of the session's members (RollbackSession.h).
TypeOK ==
  /\ frame \in [Peers -> Frames]
  /\ confirmed \in [Peers -> Frames]
  /\ have_confirmed \in [Peers -> BOOLEAN]
  /\ verified \in [Peers -> Frames]
  /\ rollback_count \in [Peers -> Nat]
  /\ status \in [Peers -> {"Ok", "Stalled", "Desync", "Disconnected"}]
  /\ IsPerPeer(ring) /\ IsPerPeer(own_crc) /\ IsPerPeer(peer_crc)
  /\ IsPerPeer(local) /\ IsPerPeer(remote) /\ IsPerPeer(used)
  /\ \A p \in Peers :
       /\ IsStateMap(ring[p]) /\ IsStateMap(own_crc[p]) /\ IsStateMap(peer_crc[p])
       /\ IsInputMap(local[p]) /\ IsInputMap(remote[p]) /\ IsInputMap(used[p])
  /\ core \in [Peers -> States]
  /\ chan \in [Peers -> Seq(Messages)]
  /\ open \in BOOLEAN
  /\ pc \in [Peers -> {"idle", "drain"}]

\* Whatever remote input arrives next, the rollback it calls for can be done:
\* every frame not yet verified still has a snapshot that load_state takes and
\* both its inputs, however prune() and the stalls have interleaved with the
\* deliveries.  It takes a core whose saves succeed (SavesFail = FALSE).
RollbackPossible ==
  \A p \in Peers : \A f \in verified[p]..(frame[p] - 1) :
    /\ f \in DOMAIN ring[p] /\ ring[p][f] # Blank
    /\ f \in DOMAIN local[p] /\ f \in DOMAIN used[p]

\* The snapshots and the running core tell one story: ring_[f] is the state
\* the core went through before frame f of its current timeline, never one of
\* a timeline that a rollback has replaced.  It takes a core whose saves succeed:
\* a save that fails in a replay leaves the snapshot of the replaced timeline.
RingOnTimeline ==
  \A p \in Peers : DOMAIN core[p] = 0..(frame[p] - 1) /\
    \A f \in DOMAIN ring[p] : f <= frame[p] /\ ring[p][f] = Take(core[p], f)

\* Not so when saves fail: "save/load failure mid-resim -> surfaced" (slice-h
\* design, section 4), but save_ring drops the result of save_state and the tick
\* returns Ok or Stalled; only a later load_state of a blob that is missing or
\* empty is reported, and one of a stale snapshot succeeds.
SaveFailureSurfaced ==
  (\A p \in Peers : status[p] \in {"Ok", "Stalled"}) =>
    RollbackPossible /\ RingOnTimeline

\* local_ and used_ record what the core was really fed, so a later comparison
\* with remote_ judges the frames that were simulated.
InputsOnTimeline ==
  \A p \in Peers : \A f \in 0..(frame[p] - 1) :
    /\ f \in DOMAIN local[p] => core[p][f][p] = local[p][f]
    /\ f \in DOMAIN used[p] => core[p][f][Other(p)] = used[p][f]

\* Confirmed states converge: on the frames both sides have verified, both
\* cores were fed the same pairs (slice-h design, section 3).
Convergence ==
  \A k \in 0..(MaxFrame - 1) :
    (\A p \in Peers : k < verified[p]) => core["host"][k] = core["join"][k]

\* The inputs p's player has committed, by frame: the ones simulated are in the
\* core, the one of the frame being ticked in local_.
Committed(p) ==
  LET n == frame[p] + IF frame[p] \in DOMAIN local[p] THEN 1 ELSE 0 IN
  [f \in 0..(n - 1) |-> IF f < frame[p] THEN core[p][f][p] ELSE local[p][f]]

\* The verified part of each game is the lockstep replay of both players'
\* inputs: prediction and rollback are invisible in it.
Abstract == INSTANCE Lockstep
  WITH Lead <- 0, input <- [p \in Peers |-> Committed(p)],
       game <- [p \in Peers |-> Take(core[p], verified[p])]

\* Rollback netplay implements lockstep netplay on the verified frames.
ImplementsLockstep == Abstract!LockstepSpec

\* Only verified states are checksummed, so equal inputs never look like a
\* desync: "never checksum a predicted frame" (slice-h design, section 2).
NoFalseDesync == \A p \in Peers : ~Mismatch(own_crc[p], peer_crc[p])

\* Every rollback settles at least one more frame for good: there are never
\* more rollbacks than verified frames, whatever the delivery pattern.
RollbackBudget == \A p \in Peers : rollback_count[p] <= verified[p]

\* A mismatch between the two checksums of a frame is reported by the tick
\* that sees it: "Desync ... halt+report" (slice-h design, section 4).
DesyncReported ==
  \A p \in Peers :
    pc[p] = "idle" /\ Mismatch(own_crc[p], peer_crc[p])
      => status[p] \in {"Desync", "Disconnected"}

\* The caller keeps ticking; a message that keeps being looked for while it is
\* in flight arrives (the transport is reliable); and the drain loop ends: the
\* peer sends once per displayed frame, far slower than recv empties the queue.
Fairness ==
  \A p \in Peers :
    /\ WF_vars(\E in \in Inputs : BeginTick(p, in))
    /\ SF_vars(Drain(p))
    /\ SF_vars(EndTick(p))

FairSpec == Spec /\ Fairness

\* The two stall guards never hold each other up for ever: both sides play to
\* the end unless the connection is lost.
Progress == <>(~open \/ \A p \in Peers : frame[p] = MaxFrame)
=============================================================================
