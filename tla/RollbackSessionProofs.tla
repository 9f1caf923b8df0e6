------------------------ MODULE RollbackSessionProofs ------------------------
(* Proofs about RollbackSession.                                            *)
EXTENDS RollbackSession, WellFoundedInduction, TLAPS

\* The smallest element of a set of frames, as FiniteSetsExt's Min picks it.
LEMMA MinProperty ==
  ASSUME NEW S, S \subseteq Nat, S # {}
  PROVE  Min(S) \in S /\ \A y \in S : Min(S) <= y
<1> DEFINE R == OpToRel(<, Nat)
<1>1. \A y, x \in Nat : y < x => <<y, x>> \in R
  BY DEF OpToRel
<1>2. IsWellFoundedOn(R, Nat)
  BY NatLessThanWellFounded
<1> HIDE DEF R
<1>3. PICK x \in S : \A y \in S : ~(<<y, x>> \in R)
  BY <1>2, WFMin
<1>4. \A y \in S : x <= y
  <2>1. \A y \in S : y \in Nat /\ x \in Nat
    OBVIOUS
  <2>2. \A y \in S : ~(y < x)
    BY <1>1, <1>3, <2>1, Zenon
  <2>3. QED
    BY <2>1, <2>2
<1>5. QED
  BY <1>4 DEF Min

-----------------------------------------------------------------------------
\* What links the counters to the place a peer is in its tick.
Bookkeeping ==
  \A p \in Peers :
    /\ verified[p] <= frame[p]
    /\ pc[p] = "drain" => frame[p] < MaxFrame /\ frame[p] \in DOMAIN local[p]

\* A snapshot of frame f is empty or holds the f frames before it, whichever
\* timeline they are from.
Fits(f, b) == b = Blank \/ b \in [0..(f - 1) -> Pairs]
Fitting(r, n) == IsStateMap(r) /\ \A f \in DOMAIN r : f <= n /\ Fits(f, r[f])
Sized ==
  \A p \in Peers : DOMAIN core[p] = 0..(frame[p] - 1) /\ Fitting(ring[p], frame[p])

\* What is inductive whether saves fail or not.
BaseInv == TypeOK /\ Bookkeeping /\ Sized /\ RollbackBudget

\* The inductive invariant of a session whose saves all succeed.
IInv ==
  /\ TypeOK
  /\ Bookkeeping
  /\ Sized
  /\ RollbackBudget
  /\ ~SavesFail
  /\ RollbackPossible
  /\ RingOnTimeline
  /\ InputsOnTimeline

LEMMA OtherPeer == \A p \in Peers : Other(p) \in Peers /\ Other(p) # p
  BY DEF Peers, Other

LEMMA PairFacts ==
  ASSUME NEW p \in Peers, NEW a \in Inputs, NEW b \in Inputs
  PROVE  /\ PairOf(p, a, b) \in Pairs
         /\ PairOf(p, a, b)[p] = a
         /\ PairOf(p, a, b)[Other(p)] = b
  BY OtherPeer DEF PairOf, Pairs

\* The input a simulated frame gets for the remote player is an input.
LEMMA InputTypes ==
  ASSUME TypeOK, NEW p \in Peers, NEW f
  PROVE  RemoteInput(p, f) \in Inputs /\ LocalInput(p, f) \in Inputs
  BY InputsAssumption
     DEF TypeOK, RemoteInput, LocalInput, rb_predict, IsInputMap

\* The frame a rollback goes back to was simulated and is not verified.
LEMMA TargetFrame ==
  ASSUME BaseInv, NEW p \in Peers, RollsBack(p)
  PROVE  LET g == rb_first_mispredicted(p) IN
         g \in verified[p]..(frame[p] - 1) /\ g \in Nat
<1> DEFINE g == rb_first_mispredicted(p)
<1>1. frame[p] \in Nat /\ verified[p] \in Nat /\ confirmed[p] \in Nat
  BY MaxFrameAssumption DEF BaseInv, TypeOK, Frames
<1>2. Mispredicted(p) \subseteq Nat /\ Mispredicted(p) # {}
  BY <1>1 DEF RollsBack, Mispredicted, Hi
<1>3. g \in Mispredicted(p)
  BY <1>2, MinProperty DEF rb_first_mispredicted
<1>4. QED
  BY <1>1, <1>3 DEF Mispredicted, Hi

\* With saves that succeed its snapshot is held, and so are the inputs of every
\* frame from it on.
LEMMA RollbackTarget ==
  ASSUME IInv, NEW p \in Peers, RollsBack(p)
  PROVE  LET g == rb_first_mispredicted(p) IN
         /\ g \in verified[p]..(frame[p] - 1)
         /\ g \in Nat
         /\ g \in DOMAIN ring[p] /\ ring[p][g] # Blank
         /\ \A f \in g..(frame[p] - 1) : f \in DOMAIN local[p]
<1> DEFINE g == rb_first_mispredicted(p)
<1>1. frame[p] \in Nat /\ verified[p] \in Nat
  BY MaxFrameAssumption DEF IInv, TypeOK, Frames
<1>2. g \in verified[p]..(frame[p] - 1) /\ g \in Nat
  BY TargetFrame DEF IInv, BaseInv
<1>3. QED
  BY <1>1, <1>2 DEF IInv, RollbackPossible

\* A rollback never meets a missing snapshot.
LEMMA NoLoadFailure ==
  ASSUME IInv, NEW p \in Peers
  PROVE  ~LoadFails(p)
  BY RollbackTarget DEF LoadFails

LEMMA TakeType ==
  ASSUME NEW n \in Nat, NEW s \in [0..(n - 1) -> Pairs], n <= MaxFrame,
         NEW f \in 0..n
  PROVE  Take(s, f) \in States /\ Take(s, f) \in [0..(f - 1) -> Pairs]
  BY MaxFrameAssumption DEF Take, States, Frames

LEMMA TakeIsNotBlank ==
  ASSUME NEW s, NEW f \in Nat
  PROVE  Take(s, f) # Blank
<1>1. -1 \in DOMAIN Blank
  BY DEF Blank
<1>2. -1 \notin DOMAIN Take(s, f)
  BY DEF Take
<1>3. QED
  BY <1>1, <1>2

\* Whichever saves fail, the ring holds blobs of the right length.
LEMMA SaveRingFits ==
  ASSUME NEW n \in Frames, NEW c \in [0..(n - 1) -> Pairs], NEW r, Fitting(r, n),
         NEW frames, frames \subseteq 0..n, NEW lost, NEW blank
  PROVE  Fitting(SaveRing(r, frames, c, lost, blank), n)
<1> DEFINE s == SaveRing(r, frames, c, lost, blank)
<1>1. n \in Nat /\ n <= MaxFrame /\ 0..n \subseteq Frames
  BY MaxFrameAssumption DEF Frames
<1>2. s = [f \in DOMAIN r \union (frames \ lost) |->
             IF f \notin frames \ lost THEN r[f]
             ELSE IF f \in blank THEN Blank ELSE Take(c, f)]
  BY DEF SaveRing
<1> HIDE DEF s
<1>3. DOMAIN s \subseteq Frames /\ DOMAIN s = DOMAIN r \union (frames \ lost)
  BY <1>1, <1>2 DEF Fitting, IsStateMap
<1>4. ASSUME NEW f \in DOMAIN s
      PROVE  f <= n /\ Fits(f, s[f]) /\ s[f] \in Blobs
  <2>1. CASE f \notin frames \ lost
    <3>1. f \in DOMAIN r /\ s[f] = r[f]
      BY <1>2, <1>3, <2>1
    <3>2. QED
      BY <3>1 DEF Fitting, IsStateMap
  <2>2. CASE f \in frames \ lost
    <3>1. f \in 0..n /\ s[f] = IF f \in blank THEN Blank ELSE Take(c, f)
      BY <1>2, <1>3, <2>2
    <3>2. Take(c, f) \in States /\ Take(c, f) \in [0..(f - 1) -> Pairs]
      BY <1>1, <3>1, TakeType
    <3>3. f <= n
      BY <1>1, <3>1
    <3>4. QED
      BY <3>1, <3>2, <3>3, Zenon DEF Fits, Blobs
  <2>3. QED
    BY <2>1, <2>2
<1>5. IsStateMap(s)
  BY <1>2, <1>3, <1>4 DEF IsStateMap
<1>6. QED
  BY <1>4, <1>5 DEF Fitting, s

\* Step 3 of tick, whichever of its saves fail.
LEMMA ReconcileBase ==
  ASSUME BaseInv, NEW p \in Peers, ~LoadFails(p), NEW lost, NEW blank
  PROVE  /\ ReconciledCore(p) \in [0..(frame[p] - 1) -> Pairs]
         /\ Fitting(ReconciledRing(p, lost, blank), frame[p])
         /\ IsInputMap(ReconciledUsed(p))
         /\ ReconciledVerified(p) \in Frames
         /\ verified[p] <= ReconciledVerified(p)
         /\ ReconciledVerified(p) <= frame[p]
         /\ RollsBack(p) => verified[p] < ReconciledVerified(p)
<1> DEFINE F == frame[p]
           c == ReconciledCore(p)
           r == ReconciledRing(p, lost, blank)
           u == ReconciledUsed(p)
           v == ReconciledVerified(p)
<1>1. /\ F \in Nat /\ F <= MaxFrame /\ F \in Frames /\ verified[p] \in Nat
      /\ confirmed[p] \in Nat /\ verified[p] <= F
  BY MaxFrameAssumption DEF BaseInv, TypeOK, Frames, Bookkeeping
<1>2. /\ core[p] \in [0..(F - 1) -> Pairs]
      /\ Fitting(ring[p], F) /\ IsInputMap(used[p])
  <2>1. PICK f \in Frames : core[p] \in [0..(f - 1) -> Pairs]
    BY DEF BaseInv, TypeOK, States
  <2>2. DOMAIN core[p] = 0..(F - 1)
    BY DEF BaseInv, Sized
  <2>3. QED
    BY <2>1, <2>2 DEF BaseInv, TypeOK, Sized
<1>3. /\ v \in Frames /\ verified[p] <= v /\ v <= F
      /\ RollsBack(p) => verified[p] < v
  BY <1>1, MaxFrameAssumption
     DEF ReconciledVerified, Reconciles, RollsBack, Hi, Frames
<1>4. CASE ~RollsBack(p)
  BY <1>2, <1>3, <1>4 DEF ReconciledCore, ReconciledRing, ReconciledUsed
<1>5. CASE RollsBack(p)
  <2> DEFINE g == rb_first_mispredicted(p)
  <2>1. g \in Nat /\ g < F
    BY <1>1, <1>5, TargetFrame
  <2>2. g \in DOMAIN ring[p] /\ ring[p][g] # Blank
    BY <1>5 DEF LoadFails
  <2>3. ring[p][g] \in [0..(g - 1) -> Pairs]
    BY <1>2, <2>2 DEF Fitting, Fits
  <2>4. c = [k \in 0..(F - 1) |->
               IF k < g THEN ring[p][g][k]
               ELSE PairOf(p, LocalInput(p, k), RemoteInput(p, k))]
    BY <1>5 DEF ReconciledCore
  <2>5. r = SaveRing(ring[p], (g + 1)..F, c, lost, blank)
    BY <1>5 DEF ReconciledRing
  <2>6. u = [f \in DOMAIN used[p] \union (g..(F - 1)) |->
               IF f \in g..(F - 1) THEN RemoteInput(p, f) ELSE used[p][f]]
    BY <1>5 DEF ReconciledUsed
  <2> HIDE DEF g, c, r, u, F
  <2>7. \A k \in 0..(F - 1) :
          PairOf(p, LocalInput(p, k), RemoteInput(p, k)) \in Pairs
    BY InputTypes, PairFacts DEF BaseInv
  <2>8. c \in [0..(F - 1) -> Pairs]
    <3>1. ASSUME NEW k \in 0..(F - 1)
          PROVE  c[k] \in Pairs
      <4>1. CASE k < g
        BY <1>1, <2>1, <2>3, <2>4, <4>1
      <4>2. CASE ~(k < g)
        BY <2>4, <2>7, <4>2
      <4>3. QED
        BY <4>1, <4>2
    <3>2. QED
      BY <2>4, <3>1
  <2>9. Fitting(r, F)
    <3>1. (g + 1)..F \subseteq 0..F
      BY <1>1, <2>1
    <3>2. QED
      BY <1>1, <1>2, <2>5, <2>8, <3>1, SaveRingFits
  <2>10. IsInputMap(u)
    <3>1. DOMAIN u \subseteq Frames
      BY <1>1, <1>2, <2>1, <2>6, MaxFrameAssumption DEF IsInputMap, Frames
    <3>2. \A f \in DOMAIN u : u[f] \in Inputs
      BY <1>2, <2>6, InputTypes DEF BaseInv, IsInputMap
    <3>3. QED
      BY <2>6, <3>1, <3>2 DEF IsInputMap
  <2>11. QED
    BY <1>3, <2>8, <2>9, <2>10 DEF F, c, r, u
<1>6. QED
  BY <1>4, <1>5

\* What step 3 of tick leaves behind: a timeline of the same length on which
\* the ring, the local and the used inputs lie, and a larger verified_.
Reconciled(p, c, r, u, v) ==
  /\ c \in [0..(frame[p] - 1) -> Pairs]
  /\ IsStateMap(r) /\ IsInputMap(u)
  /\ DOMAIN ring[p] \subseteq DOMAIN r /\ DOMAIN used[p] \subseteq DOMAIN u
  /\ \A f \in DOMAIN r : f <= frame[p] /\ r[f] = Take(c, f)
  /\ \A f \in 0..(frame[p] - 1) :
       /\ f \in DOMAIN local[p] => c[f][p] = local[p][f]
       /\ f \in DOMAIN u => c[f][Other(p)] = u[f]
  /\ v \in Frames /\ verified[p] <= v /\ v <= frame[p]
  /\ RollsBack(p) => verified[p] < v

LEMMA ReconcileStep ==
  ASSUME IInv, NEW p \in Peers
  PROVE  Reconciled(p, ReconciledCore(p), ReconciledRing(p, {}, {}),
                    ReconciledUsed(p), ReconciledVerified(p))
<1> DEFINE F == frame[p]
           c == ReconciledCore(p)
           r == ReconciledRing(p, {}, {})
           u == ReconciledUsed(p)
           v == ReconciledVerified(p)
<1>1. /\ F \in Nat /\ F <= MaxFrame /\ verified[p] \in Nat
      /\ confirmed[p] \in Nat /\ verified[p] <= F
  BY MaxFrameAssumption DEF IInv, TypeOK, Frames, Bookkeeping
<1>2. /\ core[p] \in [0..(F - 1) -> Pairs]
      /\ IsStateMap(ring[p]) /\ IsInputMap(used[p]) /\ IsInputMap(local[p])
  <2>1. PICK f \in Frames : core[p] \in [0..(f - 1) -> Pairs]
    BY DEF IInv, TypeOK, States
  <2>2. DOMAIN core[p] = 0..(F - 1)
    BY DEF IInv, RingOnTimeline
  <2>3. QED
    BY <2>1, <2>2 DEF IInv, TypeOK
<1>3. /\ c \in [0..(F - 1) -> Pairs] /\ IsStateMap(r) /\ IsInputMap(u)
      /\ v \in Frames /\ verified[p] <= v /\ v <= F
      /\ RollsBack(p) => verified[p] < v
  BY NoLoadFailure, ReconcileBase DEF IInv, BaseInv, Fitting
<1>4. CASE ~RollsBack(p)
  <2>1. c = core[p] /\ r = ring[p] /\ u = used[p]
    BY <1>4 DEF ReconciledCore, ReconciledRing, ReconciledUsed
  <2>2. /\ \A f \in DOMAIN ring[p] : f <= F /\ ring[p][f] = Take(core[p], f)
        /\ \A f \in 0..(F - 1) :
             /\ f \in DOMAIN local[p] => core[p][f][p] = local[p][f]
             /\ f \in DOMAIN used[p] => core[p][f][Other(p)] = used[p][f]
    BY DEF IInv, RingOnTimeline, InputsOnTimeline
  <2>3. QED
    BY <1>2, <1>3, <2>1, <2>2 DEF Reconciled
<1>5. CASE RollsBack(p)
  <2> DEFINE g == rb_first_mispredicted(p)
  <2>1. /\ g \in Nat /\ g < F
        /\ g \in DOMAIN ring[p]
        /\ \A f \in g..(F - 1) : f \in DOMAIN local[p]
    BY <1>1, <1>5, RollbackTarget
  <2>2. ring[p][g] = Take(core[p], g)
    BY <2>1 DEF IInv, RingOnTimeline
  <2>3. c = [k \in 0..(F - 1) |->
               IF k < g THEN ring[p][g][k]
               ELSE PairOf(p, LocalInput(p, k), RemoteInput(p, k))]
    BY <1>5 DEF ReconciledCore
  <2>4. r = [f \in DOMAIN ring[p] \union ((g + 1)..F) |->
               IF f \in (g + 1)..F THEN Take(c, f) ELSE ring[p][f]]
    BY <1>5 DEF ReconciledRing, SaveRing
  <2>5. u = [f \in DOMAIN used[p] \union (g..(F - 1)) |->
               IF f \in g..(F - 1) THEN RemoteInput(p, f) ELSE used[p][f]]
    BY <1>5 DEF ReconciledUsed
  <2> HIDE DEF g, c, r, u, F
  <2>6. \A k \in 0..(F - 1) : k < g => c[k] = core[p][k]
    BY <1>1, <2>1, <2>2, <2>3 DEF Take
  <2>7. \A k \in 0..(F - 1) :
          k >= g => c[k] = PairOf(p, LocalInput(p, k), RemoteInput(p, k))
    BY <1>1, <2>1, <2>3
  <2>10. \A f \in DOMAIN r : f <= F /\ r[f] = Take(c, f)
    <3>1. \A f \in DOMAIN ring[p] : f \in Nat /\ f <= F /\ ring[p][f] = Take(core[p], f)
      BY MaxFrameAssumption DEF IInv, TypeOK, IsStateMap, Frames, RingOnTimeline, F
    <3>2. ASSUME NEW f \in DOMAIN ring[p], f \notin (g + 1)..F
          PROVE  Take(core[p], f) = Take(c, f)
      <4>1. f \in Nat /\ f <= g
        BY <1>1, <2>1, <3>1, <3>2
      <4>2. \A k \in 0..(f - 1) : core[p][k] = c[k]
        BY <1>1, <2>1, <2>6, <4>1
      <4>3. QED
        BY <4>2 DEF Take
    <3>3. QED
      BY <1>1, <2>1, <2>4, <3>1, <3>2
  <2>13. ASSUME NEW f \in 0..(F - 1)
         PROVE  /\ f \in DOMAIN local[p] => c[f][p] = local[p][f]
                /\ f \in DOMAIN u => c[f][Other(p)] = u[f]
    <3>1. CASE f < g
      <4>1. /\ f \in DOMAIN local[p] => core[p][f][p] = local[p][f]
            /\ f \in DOMAIN used[p] => core[p][f][Other(p)] = used[p][f]
        BY <2>13 DEF IInv, InputsOnTimeline, F
      <4>2. f \in DOMAIN u => f \in DOMAIN used[p] /\ u[f] = used[p][f]
        BY <1>1, <2>1, <2>5, <3>1
      <4>3. QED
        BY <2>6, <3>1, <4>1, <4>2
    <3>2. CASE f >= g
      <4>1. f \in DOMAIN local[p] /\ LocalInput(p, f) = local[p][f]
        BY <1>1, <2>1, <3>2 DEF LocalInput
      <4>2. u[f] = RemoteInput(p, f)
        BY <1>1, <2>1, <2>5, <3>2
      <4>3. LocalInput(p, f) \in Inputs /\ RemoteInput(p, f) \in Inputs
        BY InputTypes DEF IInv
      <4>4. QED
        BY <2>7, <3>2, <4>1, <4>2, <4>3, PairFacts
    <3>3. QED
      BY <1>1, <2>1, <3>1, <3>2
  <2>14. DOMAIN ring[p] \subseteq DOMAIN r /\ DOMAIN used[p] \subseteq DOMAIN u
    BY <2>4, <2>5
  <2>15. QED
    BY <1>3, <2>10, <2>13, <2>14 DEF Reconciled, F, c, r, u
<1>6. QED
  BY <1>4, <1>5

-----------------------------------------------------------------------------
LEMMA SendType ==
  ASSUME TypeOK, NEW p \in Peers, NEW m \in Messages, Send(p, m)
  PROVE  chan' \in [Peers -> Seq(Messages)]
  BY OtherPeer DEF TypeOK, Send

LEMMA PutTypes ==
  ASSUME NEW m, NEW f \in Frames, NEW v
  PROVE  /\ IsInputMap(m) /\ v \in Inputs => IsInputMap(Put(m, f, v))
         /\ IsStateMap(m) /\ v \in Blobs => IsStateMap(Put(m, f, v))
         /\ DOMAIN Put(m, f, v) = DOMAIN m \union {f}
         /\ Put(m, f, v)[f] = v
         /\ \A k \in DOMAIN m : k # f => Put(m, f, v)[k] = m[k]
  BY DEF IsInputMap, IsStateMap, Put

LEMMA PruneTypes ==
  ASSUME NEW m, NEW floor \in Nat
  PROVE  /\ IsInputMap(m) => IsInputMap(rb_prune_below(m, floor))
         /\ IsStateMap(m) => IsStateMap(rb_prune_below(m, floor))
         /\ DOMAIN rb_prune_below(m, floor) = {f \in DOMAIN m : f >= floor}
         /\ \A f \in DOMAIN rb_prune_below(m, floor) :
              rb_prune_below(m, floor)[f] = m[f]
  BY DEF IsInputMap, IsStateMap, rb_prune_below

\* Pruning keeps what a rollback may still need.
LEMMA FloorBelow ==
  ASSUME NEW v \in Nat
  PROVE  PruneFloor(v) \in Nat /\ PruneFloor(v) <= v
  BY PredictionAssumption DEF PruneFloor

LEMMA ChecksumTypes ==
  ASSUME TypeOK, NEW p \in Peers, NEW v, NEW r, IsStateMap(r),
         maybe_send_checksum(p, v, r)
  PROVE  /\ chan' \in [Peers -> Seq(Messages)]
         /\ IsPerPeer(own_crc')
         /\ \A q \in Peers : IsStateMap(own_crc'[q])
<1>1. CASE SendsChecksum(v, r)
  <2>1. v \in Frames /\ r[v] \in Blobs
    BY <1>1 DEF SendsChecksum, IsStateMap
  <2>2. ChecksumMsg(v, r[v]) \in Messages
    BY <2>1 DEF ChecksumMsg, Messages
  <2>3. chan' \in [Peers -> Seq(Messages)]
    BY <1>1, <2>2, SendType DEF maybe_send_checksum, TypeOK
  <2>4. own_crc' = [own_crc EXCEPT ![p] = Put(@, v, r[v])]
    BY <1>1 DEF maybe_send_checksum
  <2>5. IsPerPeer(own_crc) /\ \A q \in Peers : IsStateMap(own_crc[q])
    BY DEF TypeOK
  <2>6. IsStateMap(Put(own_crc[p], v, r[v]))
    BY <2>1, <2>5, PutTypes
  <2>7. QED
    BY <2>3, <2>4, <2>5, <2>6 DEF IsPerPeer
<1>2. CASE ~SendsChecksum(v, r)
  BY <1>2 DEF maybe_send_checksum, TypeOK
<1>3. QED
  BY <1>1, <1>2

\* Steps 4 to 6 of a tick that leaves frame_ at n, the core at c, and hands
\* step 6 the ring r, the used inputs u and the verified frame v.
LEMMA FinishBase ==
  ASSUME BaseInv, NEW p \in Peers, pc[p] = "drain",
         pc' = [pc EXCEPT ![p] = "idle"],
         NEW n \in Frames, NEW c \in [0..(n - 1) -> Pairs], NEW r, NEW u,
         NEW v \in Frames, NEW result \in {"Ok", "Stalled"},
         frame' = [frame EXCEPT ![p] = n],
         core' = [core EXCEPT ![p] = c],
         FinishTick(p, v, r, u, result),
         UNCHANGED <<confirmed, have_confirmed, peer_crc, open>>,
         Fitting(r, n), IsInputMap(u),
         verified[p] <= v, v <= n, RollsBack(p) => verified[p] < v
  PROVE  BaseInv'
<1> DEFINE floor == PruneFloor(v)
<1>1. v \in Nat /\ n \in Nat /\ floor \in Nat /\ floor <= v
  BY FloorBelow, MaxFrameAssumption DEF Frames
<1> HIDE DEF floor
<1>2. /\ verified' = [verified EXCEPT ![p] = v]
      /\ rollback_count' = [rollback_count EXCEPT ![p] =
                              IF RollsBack(p) THEN @ + 1 ELSE @]
      /\ status' = [status EXCEPT ![p] = result]
      /\ ring' = [ring EXCEPT ![p] = rb_prune_below(r, floor)]
      /\ used' = [used EXCEPT ![p] = rb_prune_below(u, floor)]
      /\ local' = [local EXCEPT ![p] = rb_prune_below(@, floor)]
      /\ remote' = [remote EXCEPT ![p] = rb_prune_below(@, floor)]
  BY DEF FinishTick, CountRollback, TickStatus, prune, floor
<1>3. TypeOK
  BY DEF BaseInv
<1>4. /\ chan' \in [Peers -> Seq(Messages)]
      /\ IsPerPeer(own_crc')
      /\ \A q \in Peers : IsStateMap(own_crc'[q])
  BY <1>3, ChecksumTypes DEF FinishTick, Fitting
<1>5. /\ IsStateMap(rb_prune_below(r, floor))
      /\ IsInputMap(rb_prune_below(u, floor))
      /\ IsInputMap(rb_prune_below(local[p], floor))
      /\ IsInputMap(rb_prune_below(remote[p], floor))
  BY <1>1, <1>3, PruneTypes DEF TypeOK, Fitting
<1>6. c \in States
  BY DEF States
<1>7. TypeOK'
  <2>1. /\ frame' \in [Peers -> Frames]
        /\ confirmed' \in [Peers -> Frames]
        /\ have_confirmed' \in [Peers -> BOOLEAN]
        /\ verified' \in [Peers -> Frames]
        /\ status' \in [Peers -> {"Ok", "Stalled", "Desync", "Disconnected"}]
        /\ core' \in [Peers -> States]
        /\ pc' \in [Peers -> {"idle", "drain"}]
        /\ open' \in BOOLEAN
    BY <1>2, <1>3, <1>6 DEF TypeOK
  <2>2. rollback_count' \in [Peers -> Nat]
    BY <1>2, <1>3 DEF TypeOK
  <2>3. /\ IsPerPeer(ring') /\ IsPerPeer(local') /\ IsPerPeer(remote')
        /\ IsPerPeer(used') /\ IsPerPeer(peer_crc')
    BY <1>2, <1>3 DEF TypeOK, IsPerPeer
  <2>4. ASSUME NEW q \in Peers
        PROVE  /\ IsStateMap(ring'[q]) /\ IsStateMap(peer_crc'[q])
               /\ IsInputMap(local'[q]) /\ IsInputMap(remote'[q])
               /\ IsInputMap(used'[q])
    BY <1>2, <1>3, <1>5 DEF TypeOK, IsPerPeer
  <2>5. QED
    BY <1>4, <2>1, <2>2, <2>3, <2>4 DEF TypeOK
<1>8. \A q \in Peers \ {p} :
        /\ frame'[q] = frame[q] /\ verified'[q] = verified[q]
        /\ rollback_count'[q] = rollback_count[q] /\ pc'[q] = pc[q]
        /\ ring'[q] = ring[q] /\ local'[q] = local[q] /\ used'[q] = used[q]
        /\ core'[q] = core[q]
  BY <1>2, <1>3 DEF TypeOK, IsPerPeer
<1>9. /\ frame'[p] = n /\ verified'[p] = v /\ pc'[p] = "idle" /\ core'[p] = c
      /\ ring'[p] = rb_prune_below(r, floor)
      /\ used'[p] = rb_prune_below(u, floor)
      /\ local'[p] = rb_prune_below(local[p], floor)
      /\ rollback_count'[p] = IF RollsBack(p) THEN rollback_count[p] + 1
                              ELSE rollback_count[p]
  BY <1>2, <1>3 DEF TypeOK, IsPerPeer
<1>10. Bookkeeping'
  BY <1>8, <1>9 DEF Bookkeeping, BaseInv
<1>11. RollbackBudget'
  <2>1. rollback_count[p] \in Nat /\ verified[p] \in Nat /\ rollback_count[p] <= verified[p]
    BY MaxFrameAssumption DEF BaseInv, TypeOK, RollbackBudget, Frames
  <2>2. rollback_count'[p] <= v
    BY <1>1, <1>9, <2>1
  <2>3. QED
    BY <1>8, <1>9, <2>2 DEF RollbackBudget, BaseInv
<1>12. Sized'
  <2>1. Fitting(rb_prune_below(r, floor), n)
    <3>1. \A f \in DOMAIN rb_prune_below(r, floor) :
            f \in DOMAIN r /\ rb_prune_below(r, floor)[f] = r[f]
      BY DEF rb_prune_below
    <3>2. QED
      BY <1>5, <3>1 DEF Fitting
  <2>2. ASSUME NEW q \in Peers
        PROVE  DOMAIN core'[q] = 0..(frame'[q] - 1) /\ Fitting(ring'[q], frame'[q])
    <3>1. CASE q = p
      BY <1>9, <2>1, <3>1
    <3>2. CASE q # p
      BY <1>8, <3>2 DEF BaseInv, Sized
    <3>3. QED
      BY <3>1, <3>2
  <2>3. QED
    BY <2>2 DEF Sized, Fitting, Fits, IsStateMap, Blobs, Blank, States
<1>13. QED
  BY <1>7, <1>10, <1>11, <1>12 DEF BaseInv

\* The same when the ring, the inputs and the core tell one story.
LEMMA FinishStep ==
  ASSUME IInv, NEW p \in Peers, pc[p] = "drain",
         pc' = [pc EXCEPT ![p] = "idle"],
         NEW n \in Frames, NEW c \in [0..(n - 1) -> Pairs], NEW r, NEW u,
         NEW v \in Frames, NEW result \in {"Ok", "Stalled"},
         frame' = [frame EXCEPT ![p] = n],
         core' = [core EXCEPT ![p] = c],
         FinishTick(p, v, r, u, result),
         UNCHANGED <<confirmed, have_confirmed, peer_crc, open>>,
         Fitting(r, n), IsInputMap(u),
         \A f \in DOMAIN r : f <= n /\ r[f] = Take(c, f),
         \A f \in 0..(n - 1) :
           /\ f \in DOMAIN local[p] => c[f][p] = local[p][f]
           /\ f \in DOMAIN u => c[f][Other(p)] = u[f],
         \A f \in v..(n - 1) :
           f \in DOMAIN r /\ f \in DOMAIN u /\ f \in DOMAIN local[p],
         verified[p] <= v, v <= n, RollsBack(p) => verified[p] < v
  PROVE  IInv'
<1> DEFINE floor == PruneFloor(v)
<1>1. v \in Nat /\ n \in Nat /\ floor \in Nat /\ floor <= v
  BY FloorBelow, MaxFrameAssumption DEF Frames
<1> HIDE DEF floor
<1>2. /\ verified' = [verified EXCEPT ![p] = v]
      /\ rollback_count' = [rollback_count EXCEPT ![p] =
                              IF RollsBack(p) THEN @ + 1 ELSE @]
      /\ status' = [status EXCEPT ![p] = result]
      /\ ring' = [ring EXCEPT ![p] = rb_prune_below(r, floor)]
      /\ used' = [used EXCEPT ![p] = rb_prune_below(u, floor)]
      /\ local' = [local EXCEPT ![p] = rb_prune_below(@, floor)]
      /\ remote' = [remote EXCEPT ![p] = rb_prune_below(@, floor)]
  BY DEF FinishTick, CountRollback, TickStatus, prune, floor
<1>3. TypeOK
  BY DEF IInv
<1>8. \A q \in Peers \ {p} :
        /\ frame'[q] = frame[q] /\ verified'[q] = verified[q]
        /\ rollback_count'[q] = rollback_count[q] /\ pc'[q] = pc[q]
        /\ ring'[q] = ring[q] /\ local'[q] = local[q] /\ used'[q] = used[q]
        /\ core'[q] = core[q]
  BY <1>2, <1>3 DEF TypeOK, IsPerPeer
<1>9. /\ frame'[p] = n /\ verified'[p] = v /\ pc'[p] = "idle" /\ core'[p] = c
      /\ ring'[p] = rb_prune_below(r, floor)
      /\ used'[p] = rb_prune_below(u, floor)
      /\ local'[p] = rb_prune_below(local[p], floor)
      /\ rollback_count'[p] = IF RollsBack(p) THEN rollback_count[p] + 1
                              ELSE rollback_count[p]
  BY <1>2, <1>3 DEF TypeOK, IsPerPeer
<1>10. /\ \A f : f \in DOMAIN ring'[p] <=> f \in DOMAIN r /\ f >= floor
       /\ \A f : f \in DOMAIN used'[p] <=> f \in DOMAIN u /\ f >= floor
       /\ \A f : f \in DOMAIN local'[p] <=> f \in DOMAIN local[p] /\ f >= floor
       /\ \A f \in DOMAIN ring'[p] : ring'[p][f] = r[f]
       /\ \A f \in DOMAIN used'[p] : used'[p][f] = u[f]
       /\ \A f \in DOMAIN local'[p] : local'[p][f] = local[p][f]
  <2>1. ASSUME NEW m
        PROVE  /\ \A f : f \in DOMAIN rb_prune_below(m, floor)
                           <=> f \in DOMAIN m /\ f >= floor
               /\ \A f \in DOMAIN rb_prune_below(m, floor) :
                    rb_prune_below(m, floor)[f] = m[f]
    BY DEF rb_prune_below
  <2>2. /\ \A f : f \in DOMAIN ring'[p] <=> f \in DOMAIN r /\ f >= floor
        /\ \A f \in DOMAIN ring'[p] : ring'[p][f] = r[f]
    BY <1>9, <2>1
  <2>3. /\ \A f : f \in DOMAIN used'[p] <=> f \in DOMAIN u /\ f >= floor
        /\ \A f \in DOMAIN used'[p] : used'[p][f] = u[f]
    BY <1>9, <2>1
  <2>4. /\ \A f : f \in DOMAIN local'[p] <=> f \in DOMAIN local[p] /\ f >= floor
        /\ \A f \in DOMAIN local'[p] : local'[p][f] = local[p][f]
    BY <1>9, <2>1
  <2>5. QED
    BY <2>2, <2>3, <2>4
<1>12. RollbackPossible'
  <2>1. ASSUME NEW f \in v..(n - 1)
        PROVE  /\ f \in DOMAIN ring'[p] /\ ring'[p][f] # Blank
               /\ f \in DOMAIN local'[p] /\ f \in DOMAIN used'[p]
    <3>1. f \in Nat /\ f >= floor
      BY <1>1, <2>1
    <3>2. /\ f \in DOMAIN ring'[p] /\ f \in DOMAIN local'[p]
          /\ f \in DOMAIN used'[p] /\ ring'[p][f] = Take(c, f)
      BY <1>10, <2>1, <3>1
    <3>3. QED
      BY <3>1, <3>2, TakeIsNotBlank
  <2>2. ASSUME NEW q \in Peers, NEW f \in verified'[q]..(frame'[q] - 1)
        PROVE  /\ f \in DOMAIN ring'[q] /\ ring'[q][f] # Blank
               /\ f \in DOMAIN local'[q] /\ f \in DOMAIN used'[q]
    <3>1. CASE q = p
      BY <1>9, <2>1, <2>2, <3>1
    <3>2. CASE q # p
      BY <1>8, <2>2, <3>2 DEF RollbackPossible, IInv
    <3>3. QED
      BY <3>1, <3>2
  <2>3. QED
    BY <2>2 DEF RollbackPossible, Blank
<1>13. RingOnTimeline'
  <2>1. DOMAIN c = 0..(n - 1)
    OBVIOUS
  <2>2. \A f \in DOMAIN ring'[p] : f <= n /\ ring'[p][f] = Take(c, f)
    BY <1>10
  <2>3. ASSUME NEW q \in Peers
        PROVE  /\ DOMAIN core'[q] = 0..(frame'[q] - 1)
               /\ \A f \in DOMAIN ring'[q] :
                    f <= frame'[q] /\ ring'[q][f] = Take(core'[q], f)
    <3>1. CASE q = p
      BY <1>9, <2>1, <2>2, <3>1
    <3>2. CASE q # p
      BY <1>8, <3>2 DEF IInv, RingOnTimeline
    <3>3. QED
      BY <3>1, <3>2
  <2>4. QED
    BY <2>3 DEF RingOnTimeline, Take
<1>14. InputsOnTimeline'
  <2>1. ASSUME NEW q \in Peers, NEW f \in 0..(frame'[q] - 1)
        PROVE  /\ f \in DOMAIN local'[q] => core'[q][f][q] = local'[q][f]
               /\ f \in DOMAIN used'[q] => core'[q][f][Other(q)] = used'[q][f]
    <3>1. CASE q = p
      <4>1. f \in 0..(n - 1)
        BY <1>9, <3>1
      <4>2. /\ f \in DOMAIN local'[p] => c[f][p] = local'[p][f]
            /\ f \in DOMAIN used'[p] => c[f][Other(p)] = used'[p][f]
        BY <1>10, <4>1
      <4>3. QED
        BY <1>9, <3>1, <4>2
    <3>2. CASE q # p
      BY <1>8, <2>1, <3>2 DEF IInv, InputsOnTimeline
    <3>3. QED
      BY <3>1, <3>2
  <2>2. QED
    BY <2>1 DEF InputsOnTimeline
<1>15. BaseInv'
  BY FinishBase DEF IInv, BaseInv
<1>16. QED
  BY <1>12, <1>13, <1>14, <1>15 DEF IInv, BaseInv

-----------------------------------------------------------------------------
LEMMA InitBase == Init => BaseInv
<1> SUFFICES ASSUME Init PROVE BaseInv
  OBVIOUS
<1>1. 0 \in Frames /\ Empty \in [0..(0 - 1) -> Pairs] /\ Empty \in States
  <2>1. 0 \in Frames
    BY MaxFrameAssumption DEF Frames
  <2>2. Empty \in [0..(0 - 1) -> Pairs]
    BY DEF Empty
  <2>3. QED
    BY <2>1, <2>2 DEF States
<1>2. DOMAIN Empty = {} /\ IsInputMap(Empty) /\ IsStateMap(Empty)
  BY DEF Empty, IsInputMap, IsStateMap
<1>3. TypeOK
  <2>1. <<>> \in Seq(Messages)
    OBVIOUS
  <2>2. QED
    BY <1>1, <1>2, <2>1 DEF Init, TypeOK, IsPerPeer
<1>4. QED
  BY <1>2, <1>3 DEF Init, BaseInv, Bookkeeping, Sized, Fitting, RollbackBudget

LEMMA InitIInv ==
  ASSUME ~SavesFail
  PROVE  Init => IInv
<1> SUFFICES ASSUME Init PROVE IInv
  OBVIOUS
<1>1. DOMAIN Empty = {}
  BY DEF Empty
<1>2. RollbackPossible /\ RingOnTimeline /\ InputsOnTimeline
  BY <1>1 DEF Init, RollbackPossible, RingOnTimeline, InputsOnTimeline
<1>3. QED
  BY <1>2, InitBase DEF IInv, BaseInv

\* What a tick's first step does to local_, the rest left alone.
LEMMA BeginTickBase ==
  ASSUME BaseInv, NEW p \in Peers, NEW in \in Inputs, BeginTick(p, in)
  PROVE  /\ BaseInv'
         /\ UNCHANGED <<frame, verified, ring, used, core>>
         /\ \A q \in Peers : DOMAIN local[q] \subseteq DOMAIN local'[q]
         /\ \A q \in Peers : \A k \in 0..(frame[q] - 1) :
              k \in DOMAIN local'[q] => k \in DOMAIN local[q] /\ local'[q][k] = local[q][k]
<1>1. frame[p] \in Nat /\ frame[p] < MaxFrame /\ frame[p] \in Frames
  BY MaxFrameAssumption DEF BeginTick, BaseInv, TypeOK, Frames
<1>2. local' = [local EXCEPT ![p] = Put(@, frame[p], in)]
  BY DEF BeginTick
<1>3. TypeOK
  BY DEF BaseInv
<1>4. /\ IsPerPeer(local')
      /\ \A q \in Peers \ {p} : local'[q] = local[q]
      /\ local'[p] = Put(local[p], frame[p], in)
  BY <1>2, <1>3 DEF TypeOK, IsPerPeer
<1>5. /\ \A q \in Peers : IsInputMap(local'[q])
      /\ \A q \in Peers : DOMAIN local[q] \subseteq DOMAIN local'[q]
      /\ frame[p] \in DOMAIN local'[p]
      /\ \A k \in 0..(frame[p] - 1) :
           k \in DOMAIN local'[p] => k \in DOMAIN local[p] /\ local'[p][k] = local[p][k]
  <2>1. /\ IsInputMap(local'[p])
        /\ DOMAIN local'[p] = DOMAIN local[p] \union {frame[p]}
        /\ \A k \in DOMAIN local[p] : k # frame[p] => local'[p][k] = local[p][k]
    <3>1. IsInputMap(local[p])
      BY <1>3 DEF TypeOK
    <3>2. IsInputMap(Put(local[p], frame[p], in))
      BY <1>1, <3>1, PutTypes
    <3>3. QED
      BY <1>4, <3>2 DEF Put
  <2>2. \A q \in Peers : IsInputMap(local[q])
    BY <1>3 DEF TypeOK
  <2>3. \A k \in 0..(frame[p] - 1) : k # frame[p]
    BY <1>1
  <2>4. QED
    BY <1>4, <2>1, <2>2, <2>3
<1>6. chan' \in [Peers -> Seq(Messages)]
  <2>1. InputMsg(frame[p], in) \in Messages
    BY <1>1 DEF InputMsg, Messages
  <2>2. QED
    BY <1>3, <2>1, SendType DEF BeginTick, TypeOK
<1>7. /\ UNCHANGED <<frame, confirmed, have_confirmed, verified, rollback_count,
                     ring, remote, used, own_crc, peer_crc, core, open>>
      /\ status' \in [Peers -> {"Ok", "Stalled", "Desync", "Disconnected"}]
      /\ pc' \in [Peers -> {"idle", "drain"}]
      /\ \A q \in Peers \ {p} : pc'[q] = pc[q]
  BY <1>3 DEF BeginTick, TypeOK
<1>8. TypeOK'
  BY <1>3, <1>4, <1>5, <1>6, <1>7 DEF TypeOK
<1>9. Bookkeeping' /\ RollbackBudget'
  BY <1>1, <1>4, <1>5, <1>7 DEF BaseInv, Bookkeeping, RollbackBudget
<1>10. Sized'
  BY <1>7 DEF BaseInv, Sized, Fitting, Fits, IsStateMap, Blobs, Blank, States
<1>11. QED
  BY <1>4, <1>5, <1>7, <1>8, <1>9, <1>10 DEF BaseInv

\* The timeline invariants mention nothing that these steps change.
LEMMA BeginTickIInv ==
  ASSUME IInv, NEW p \in Peers, NEW in \in Inputs, BeginTick(p, in)
  PROVE  IInv'
<1>1. BaseInv
  BY DEF IInv, BaseInv
<1>2. /\ BaseInv'
      /\ UNCHANGED <<frame, verified, ring, used, core>>
      /\ \A q \in Peers : DOMAIN local[q] \subseteq DOMAIN local'[q]
      /\ \A q \in Peers : \A k \in 0..(frame[q] - 1) :
           k \in DOMAIN local'[q] => k \in DOMAIN local[q] /\ local'[q][k] = local[q][k]
  BY <1>1, BeginTickBase
<1>3. RollbackPossible'
  BY <1>2 DEF IInv, RollbackPossible, Blank
<1>4. RingOnTimeline'
  BY <1>2 DEF IInv, RingOnTimeline, Take
<1>5. InputsOnTimeline'
  BY <1>2 DEF IInv, InputsOnTimeline
<1>6. QED
  BY <1>2, <1>3, <1>4, <1>5 DEF IInv, BaseInv

LEMMA DrainTypes ==
  ASSUME TypeOK, NEW p \in Peers, chan[p] # <<>>
  PROVE  /\ Head(chan[p]) \in Messages
         /\ [chan EXCEPT ![p] = Tail(@)] \in [Peers -> Seq(Messages)]
  BY DEF TypeOK

LEMMA DrainBase ==
  ASSUME BaseInv, NEW p \in Peers,
         DrainInput(p) \/ DrainChecksum(p) \/ DrainError(p)
  PROVE  BaseInv' /\ UNCHANGED <<frame, verified, ring, local, used, core>>
<1>1. UNCHANGED <<frame, verified, rollback_count, ring, local, used, core>>
  BY DEF DrainInput, DrainChecksum, DrainError, hist
<1>2. \A q \in Peers : pc'[q] = pc[q] \/ pc'[q] = "idle"
  BY DEF DrainInput, DrainChecksum, DrainError, BaseInv, TypeOK
<1>3. TypeOK
  BY DEF BaseInv
<1>4. TypeOK'
  <2>1. CASE DrainInput(p)
    <3> DEFINE m == Head(chan[p])
    <3>1. m \in Messages /\ chan' \in [Peers -> Seq(Messages)]
      BY <1>3, <2>1, DrainTypes DEF DrainInput
    <3>2. m.frame \in Frames /\ m.state \in Inputs
      BY <2>1, <3>1 DEF DrainInput, Messages
    <3>3. IsInputMap(Put(remote[p], m.frame, m.state))
      BY <1>3, <3>2, PutTypes DEF TypeOK
    <3>4. remote' = [remote EXCEPT ![p] = Put(@, m.frame, m.state)]
      BY <2>1 DEF DrainInput
    <3>5. IsPerPeer(remote') /\ \A q \in Peers : IsInputMap(remote'[q])
      BY <1>3, <3>3, <3>4 DEF TypeOK, IsPerPeer
    <3>6. /\ confirmed' \in [Peers -> Frames]
          /\ have_confirmed' \in [Peers -> BOOLEAN]
      BY <1>3, <2>1, <3>2 DEF DrainInput, TypeOK, NewConfirmed
    <3>7. QED
      BY <1>1, <1>3, <2>1, <3>1, <3>5, <3>6 DEF DrainInput, TypeOK
  <2>2. CASE DrainChecksum(p)
    <3> DEFINE m == Head(chan[p])
    <3>1. m \in Messages /\ chan' \in [Peers -> Seq(Messages)]
      BY <1>3, <2>2, DrainTypes DEF DrainChecksum
    <3>2. m.frame \in Frames /\ m.crc \in Blobs
      BY <2>2, <3>1 DEF DrainChecksum, Messages
    <3>3. IsStateMap(Put(peer_crc[p], m.frame, m.crc))
      BY <1>3, <3>2, PutTypes DEF TypeOK
    <3>4. peer_crc' = [peer_crc EXCEPT ![p] = Put(@, m.frame, m.crc)]
      BY <2>2 DEF DrainChecksum
    <3>5. IsPerPeer(peer_crc') /\ \A q \in Peers : IsStateMap(peer_crc'[q])
      BY <1>3, <3>3, <3>4 DEF TypeOK, IsPerPeer
    <3>6. QED
      BY <1>1, <1>3, <2>2, <3>1, <3>5 DEF DrainChecksum, TypeOK
  <2>3. CASE DrainError(p)
    BY <1>3, <2>3 DEF DrainError, TypeOK, hist, net
  <2>4. QED
    BY <2>1, <2>2, <2>3
<1>5. Bookkeeping' /\ RollbackBudget'
  BY <1>1, <1>2 DEF BaseInv, Bookkeeping, RollbackBudget
<1>6. Sized'
  BY <1>1 DEF BaseInv, Sized, Fitting, Fits, IsStateMap, Blobs, Blank, States
<1>7. QED
  BY <1>1, <1>4, <1>5, <1>6 DEF BaseInv

\* A step that leaves the timeline alone.
LEMMA TimelineKept ==
  ASSUME IInv, BaseInv', UNCHANGED <<frame, verified, ring, local, used, core>>
  PROVE  IInv'
<1>1. RollbackPossible' /\ InputsOnTimeline'
  BY DEF IInv, RollbackPossible, InputsOnTimeline, Blank
<1>2. RingOnTimeline'
  BY DEF IInv, RingOnTimeline, Take
<1>3. QED
  BY <1>1, <1>2 DEF IInv, BaseInv

LEMMA DrainIInv ==
  ASSUME IInv, NEW p \in Peers,
         DrainInput(p) \/ DrainChecksum(p) \/ DrainError(p)
  PROVE  IInv'
  BY DrainBase, TimelineKept DEF IInv, BaseInv

\* A tick that fails to load: only the ring changes, and the status.
LEMMA FailTickBase ==
  ASSUME BaseInv, NEW p \in Peers, LoadFails(p), FailTick(p),
         pc' = [pc EXCEPT ![p] = "idle"],
         UNCHANGED <<confirmed, have_confirmed, peer_crc, open>>
  PROVE  BaseInv'
<1> DEFINE g == rb_first_mispredicted(p)
           r == Put(ring[p], g, Blank)
<1>1. /\ TypeOK /\ frame[p] \in Frames /\ verified[p] \in Nat
      /\ Fitting(ring[p], frame[p])
  BY MaxFrameAssumption DEF BaseInv, Sized, TypeOK, Frames
<1>2. g \in Frames /\ g <= frame[p]
  BY <1>1, TargetFrame, MaxFrameAssumption DEF LoadFails, Frames
<1> HIDE DEF g
<1>3. Fitting(r, frame[p])
  <2>1. IsStateMap(r)
    BY <1>1, <1>2, PutTypes DEF Fitting, Blobs
  <2>2. \A f \in DOMAIN r : f \in DOMAIN ring[p] \union {g}
    BY DEF Put
  <2>3. \A f \in DOMAIN r : r[f] = IF f = g THEN Blank ELSE ring[p][f]
    BY DEF Put
  <2> HIDE DEF r
  <2>4. \A f \in DOMAIN r : f <= frame[p] /\ Fits(f, r[f])
    BY <1>1, <1>2, <2>2, <2>3 DEF Fitting, Fits
  <2>5. QED
    BY <2>1, <2>4 DEF Fitting
<1>4. ring' = [ring EXCEPT ![p] = r]
  BY DEF FailTick, g
<1> HIDE DEF r
<1>5. /\ UNCHANGED <<frame, confirmed, have_confirmed, verified, rollback_count,
                     core, own_crc, peer_crc, chan, open, local, remote, used>>
      /\ status' = [status EXCEPT ![p] = "Desync"]
  BY DEF FailTick
<1>6. /\ IsPerPeer(ring') /\ ring'[p] = r
      /\ \A q \in Peers \ {p} : ring'[q] = ring[q]
  BY <1>1, <1>4 DEF TypeOK, IsPerPeer
<1>7. \A q \in Peers : pc'[q] = pc[q] \/ pc'[q] = "idle"
  BY <1>1 DEF TypeOK
<1>8. ASSUME NEW q \in Peers
      PROVE  Fitting(ring'[q], frame[q])
  <2>1. CASE q = p
    BY <1>3, <1>6, <2>1
  <2>2. CASE q # p
    BY <1>6, <2>2 DEF BaseInv, Sized
  <2>3. QED
    BY <2>1, <2>2
<1>9. TypeOK'
  <2>1. \A q \in Peers : IsStateMap(ring'[q])
    BY <1>8 DEF Fitting
  <2>2. /\ status' \in [Peers -> {"Ok", "Stalled", "Desync", "Disconnected"}]
        /\ pc' \in [Peers -> {"idle", "drain"}]
    BY <1>1, <1>5 DEF TypeOK
  <2>3. QED
    BY <1>1, <1>5, <1>6, <2>1, <2>2 DEF TypeOK
<1>10. Bookkeeping' /\ RollbackBudget'
  BY <1>5, <1>7 DEF BaseInv, Bookkeeping, RollbackBudget
<1>11. Sized'
  BY <1>5, <1>8 DEF BaseInv, Sized, Fitting, Fits, IsStateMap, Blobs, Blank, States
<1>12. QED
  BY <1>9, <1>10, <1>11 DEF BaseInv

LEMMA EndTickBase ==
  ASSUME BaseInv, NEW p \in Peers, EndTick(p)
  PROVE  BaseInv'
<1> DEFINE F == frame[p]
           c == ReconciledCore(p)
           u == ReconciledUsed(p)
           v == ReconciledVerified(p)
<1>1. /\ F \in Nat /\ F \in Frames /\ F + 1 \in Frames
      /\ verified[p] \in Nat /\ F \in DOMAIN local[p]
      /\ frame = [frame EXCEPT ![p] = F]
  BY MaxFrameAssumption DEF EndTick, BaseInv, TypeOK, Frames, Bookkeeping
<1>2. /\ pc[p] = "drain" /\ pc' = [pc EXCEPT ![p] = "idle"]
      /\ UNCHANGED <<confirmed, have_confirmed, peer_crc, open>>
  BY DEF EndTick
<1>3. PICK lost, blank \in FailedSaves(p) :
        IF LoadFails(p) THEN FailTick(p)
        ELSE IF Stalls(p) THEN StallTick(p, lost, blank)
        ELSE SimulateTick(p, lost, blank)
  BY DEF EndTick
<1>4. CASE LoadFails(p)
  BY <1>2, <1>3, <1>4, FailTickBase
<1>5. CASE ~LoadFails(p)
  <2> DEFINE r == ReconciledRing(p, lost, blank)
  <2>1. /\ c \in [0..(F - 1) -> Pairs] /\ Fitting(r, F) /\ IsInputMap(u)
        /\ v \in Frames /\ v \in Nat /\ verified[p] <= v /\ v <= F
        /\ RollsBack(p) => verified[p] < v
    BY <1>5, ReconcileBase, MaxFrameAssumption DEF Frames
  <2> HIDE DEF F, c, r, u, v
  <2>2. CASE Stalls(p)
    <3>1. /\ core' = [core EXCEPT ![p] = c]
          /\ FinishTick(p, v, r, u, "Stalled")
          /\ frame' = [frame EXCEPT ![p] = F]
      BY <1>1, <1>3, <1>5, <2>2 DEF StallTick, c, r, u, v
    <3>2. QED
      BY <1>1, <1>2, <2>1, <3>1, FinishBase
  <2>3. CASE ~Stalls(p)
    <3> DEFINE rin == RemoteInput(p, F)
               c1 == SimulatedCore(p)
               r1 == SimulatedRing(p, lost, blank)
               u1 == SimulatedUsed(p)
    <3>1. /\ core' = [core EXCEPT ![p] = c1]
          /\ FinishTick(p, v, r1, u1, "Ok")
          /\ frame' = [frame EXCEPT ![p] = F + 1]
      BY <1>3, <1>5, <2>3 DEF SimulateTick, v, F
    <3>2. /\ c1 = [k \in 0..F |-> IF k < F THEN c[k]
                                   ELSE PairOf(p, LocalInput(p, F), rin)]
          /\ r1 = SaveRing(r, {F}, c, lost, blank) /\ u1 = Put(u, F, rin)
      BY DEF SimulatedCore, SimulatedRing, SimulatedUsed, c, r, u, F
    <3>3. rin \in Inputs /\ PairOf(p, LocalInput(p, F), rin) \in Pairs
      BY InputTypes, PairFacts DEF BaseInv
    <3> HIDE DEF rin, c1, r1, u1
    <3>4. c1 \in [0..((F + 1) - 1) -> Pairs]
      <4>1. \A k \in 0..F : c1[k] \in Pairs
        BY <1>1, <2>1, <3>2, <3>3
      <4>2. (F + 1) - 1 = F
        BY <1>1
      <4>3. QED
        BY <3>2, <4>1, <4>2
    <3>5. Fitting(r1, F + 1)
      <4>1. {F} \subseteq 0..F
        BY <1>1
      <4>2. Fitting(r1, F)
        BY <1>1, <2>1, <3>2, <4>1, SaveRingFits
      <4>3. \A f \in DOMAIN r1 : f \in Nat
        BY <4>2, MaxFrameAssumption DEF Fitting, IsStateMap, Frames
      <4>4. QED
        BY <1>1, <4>2, <4>3 DEF Fitting
    <3>6. IsInputMap(u1)
      BY <1>1, <2>1, <3>2, <3>3, PutTypes
    <3>7. v <= F + 1
      BY <1>1, <2>1
    <3>8. QED
      BY <1>1, <1>2, <2>1, <3>1, <3>4, <3>5, <3>6, <3>7, FinishBase
  <2>4. QED
    BY <2>2, <2>3
<1>6. QED
  BY <1>4, <1>5

\* With saves that succeed a tick stores every state it means to.
LEMMA EverySaveStored ==
  ASSUME IInv, NEW p \in Peers, EndTick(p)
  PROVE  /\ IF Stalls(p) THEN StallTick(p, {}, {}) ELSE SimulateTick(p, {}, {})
         /\ SimulatedRing(p, {}, {}) =
              Put(ReconciledRing(p, {}, {}), frame[p], ReconciledCore(p))
<1>1. FailedSaves(p) = {{}}
  BY DEF IInv, FailedSaves
<1>2. ~LoadFails(p)
  BY NoLoadFailure
<1>3. IF Stalls(p) THEN StallTick(p, {}, {}) ELSE SimulateTick(p, {}, {})
  BY <1>1, <1>2 DEF EndTick
<1> DEFINE c == ReconciledCore(p)
           r == ReconciledRing(p, {}, {})
           F == frame[p]
<1>4. c \in [0..(F - 1) -> Pairs]
  BY <1>2, ReconcileBase DEF IInv, BaseInv
<1>5. Take(c, F) = c
  BY <1>4 DEF Take
<1>6. SaveRing(r, {F}, c, {}, {}) = [f \in DOMAIN r \union {F} |->
                                      IF f \notin {F} THEN r[f] ELSE Take(c, f)]
  BY DEF SaveRing
<1>7. SimulatedRing(p, {}, {}) = SaveRing(r, {F}, c, {}, {})
  BY DEF SimulatedRing
<1> HIDE DEF c, r, F
<1>8. SaveRing(r, {F}, c, {}, {}) = Put(r, F, c)
  BY <1>5, <1>6 DEF Put
<1>9. QED
  BY <1>3, <1>7, <1>8 DEF c, r, F

LEMMA EndTickIInv ==
  ASSUME IInv, NEW p \in Peers, EndTick(p)
  PROVE  IInv'
<1> DEFINE F == frame[p]
           c == ReconciledCore(p)
           r == ReconciledRing(p, {}, {})
           u == ReconciledUsed(p)
           v == ReconciledVerified(p)
<1>1. /\ F \in Nat /\ F \in Frames /\ F + 1 \in Frames
      /\ verified[p] \in Nat /\ F \in DOMAIN local[p]
      /\ frame = [frame EXCEPT ![p] = F]
  BY MaxFrameAssumption DEF EndTick, IInv, TypeOK, Frames, Bookkeeping
<1>2. Reconciled(p, c, r, u, v)
  BY ReconcileStep
<1>3. IF Stalls(p) THEN StallTick(p, {}, {}) ELSE SimulateTick(p, {}, {})
  BY EverySaveStored
<1>4. /\ pc[p] = "drain" /\ pc' = [pc EXCEPT ![p] = "idle"]
      /\ UNCHANGED <<confirmed, have_confirmed, peer_crc, open>>
  BY DEF EndTick
<1>9. Fitting(r, F)
  BY NoLoadFailure, ReconcileBase DEF IInv, BaseInv
<1> HIDE DEF F, c, r, u, v
<1>5. /\ c \in [0..(F - 1) -> Pairs]
      /\ Fitting(r, F) /\ IsInputMap(u)
      /\ \A f \in DOMAIN r : f <= F /\ r[f] = Take(c, f)
      /\ \A f \in 0..(F - 1) :
           /\ f \in DOMAIN local[p] => c[f][p] = local[p][f]
           /\ f \in DOMAIN u => c[f][Other(p)] = u[f]
      /\ v \in Frames /\ v \in Nat /\ verified[p] <= v /\ v <= F
      /\ RollsBack(p) => verified[p] < v
  BY <1>2, <1>9, MaxFrameAssumption DEF Reconciled, F, Frames
<1>6. \A f \in v..(F - 1) :
        f \in DOMAIN r /\ f \in DOMAIN u /\ f \in DOMAIN local[p]
  <2>1. ASSUME NEW f \in v..(F - 1)
        PROVE  f \in DOMAIN r /\ f \in DOMAIN u /\ f \in DOMAIN local[p]
    <3>1. f \in verified[p]..(F - 1)
      BY <1>1, <1>5, <2>1
    <3>2. f \in DOMAIN ring[p] /\ f \in DOMAIN used[p] /\ f \in DOMAIN local[p]
      BY <3>1 DEF IInv, RollbackPossible, F
    <3>3. QED
      BY <1>2, <3>2 DEF Reconciled
  <2>2. QED
    BY <2>1
<1>7. CASE Stalls(p)
  <2>1. /\ core' = [core EXCEPT ![p] = c]
        /\ FinishTick(p, v, r, u, "Stalled")
        /\ frame' = [frame EXCEPT ![p] = F]
    BY <1>1, <1>3, <1>7 DEF StallTick, c, r, u, v
  <2>2. QED
    BY <1>1, <1>4, <1>5, <1>6, <2>1, FinishStep
<1>8. CASE ~Stalls(p)
  <2> DEFINE rin == RemoteInput(p, F)
             lin == LocalInput(p, F)
             c1 == SimulatedCore(p)
             r1 == SimulatedRing(p, {}, {})
             u1 == SimulatedUsed(p)
  <2>1. /\ core' = [core EXCEPT ![p] = c1]
        /\ FinishTick(p, v, r1, u1, "Ok")
        /\ frame' = [frame EXCEPT ![p] = F + 1]
    BY <1>3, <1>8 DEF SimulateTick, v, F
  <2>2. /\ c1 = [k \in 0..F |-> IF k < F THEN c[k] ELSE PairOf(p, lin, rin)]
        /\ r1 = Put(r, F, c) /\ u1 = Put(u, F, rin)
    BY EverySaveStored DEF SimulatedCore, SimulatedUsed, c, r, u, F
  <2>3. lin \in Inputs /\ rin \in Inputs /\ lin = local[p][F]
    BY <1>1, InputTypes DEF IInv, LocalInput
  <2>4. /\ PairOf(p, lin, rin) \in Pairs
        /\ PairOf(p, lin, rin)[p] = lin
        /\ PairOf(p, lin, rin)[Other(p)] = rin
    BY <2>3, PairFacts
  <2> HIDE DEF rin, lin, c1, r1, u1
  <2>5. c1 \in [0..((F + 1) - 1) -> Pairs]
    <3>1. \A k \in 0..F : c1[k] \in Pairs
      BY <1>1, <1>5, <2>2, <2>4
    <3>2. (F + 1) - 1 = F
      BY <1>1
    <3>3. QED
      BY <2>2, <3>1, <3>2
  <2>6. c \in States
    BY <1>1, <1>5 DEF States
  <2>7. /\ Fitting(r1, F + 1) /\ IsInputMap(u1)
        /\ DOMAIN r1 = DOMAIN r \union {F} /\ DOMAIN u1 = DOMAIN u \union {F}
        /\ r1[F] = c /\ u1[F] = rin
        /\ \A f \in DOMAIN r : f # F => r1[f] = r[f]
        /\ \A f \in DOMAIN u : f # F => u1[f] = u[f]
    <3>1. IsStateMap(Put(r, F, c)) /\ IsInputMap(Put(u, F, rin))
      BY <1>1, <1>5, <2>3, <2>6, PutTypes DEF Fitting, Blobs
    <3>2. /\ DOMAIN r1 = DOMAIN r \union {F} /\ DOMAIN u1 = DOMAIN u \union {F}
          /\ r1[F] = c /\ u1[F] = rin
          /\ \A f \in DOMAIN r : f # F => r1[f] = r[f]
          /\ \A f \in DOMAIN u : f # F => u1[f] = u[f]
      BY <2>2 DEF Put
    <3>3. \A f \in DOMAIN r1 : f \in Nat
      BY <2>2, <3>1, MaxFrameAssumption DEF IsStateMap, Frames
    <3>4. \A f \in DOMAIN r1 : f <= F + 1 /\ Fits(f, r1[f])
      <4>1. Fits(F, c)
        BY <1>5 DEF Fits
      <4>2. \A f \in DOMAIN r : f <= F /\ Fits(f, r[f])
        BY <1>5 DEF Fitting
      <4>3. QED
        BY <1>1, <3>2, <3>3, <4>1, <4>2
    <3>5. QED
      BY <2>2, <3>1, <3>2, <3>4 DEF Fitting
  <2>8. \A f \in DOMAIN r1 : f <= F + 1 /\ r1[f] = Take(c1, f)
    <3>1. \A f \in DOMAIN r1 : f \in Nat
      BY <2>7, MaxFrameAssumption DEF Fitting, IsStateMap, Frames
    <3>2. \A f \in Nat : f <= F => Take(c1, f) = Take(c, f)
      BY <1>1, <2>2 DEF Take
    <3>3. Take(c, F) = c
      BY <1>1, <1>5 DEF Take
    <3>4. ASSUME NEW f \in DOMAIN r1
          PROVE  f <= F /\ r1[f] = Take(c, f)
      BY <1>1, <1>5, <2>7, <3>3
    <3>5. QED
      BY <1>1, <3>1, <3>2, <3>4
  <2>9. \A f \in 0..((F + 1) - 1) :
          /\ f \in DOMAIN local[p] => c1[f][p] = local[p][f]
          /\ f \in DOMAIN u1 => c1[f][Other(p)] = u1[f]
    <3>1. ASSUME NEW f \in 0..((F + 1) - 1)
          PROVE  /\ f \in DOMAIN local[p] => c1[f][p] = local[p][f]
                 /\ f \in DOMAIN u1 => c1[f][Other(p)] = u1[f]
      <4>1. CASE f = F
        BY <1>1, <2>2, <2>3, <2>4, <2>7, <4>1
      <4>2. CASE f # F
        <5>1. f \in 0..(F - 1) /\ c1[f] = c[f]
          BY <1>1, <2>2, <3>1, <4>2
        <5>2. QED
          BY <1>5, <2>7, <4>2, <5>1
      <4>3. QED
        BY <4>1, <4>2
    <3>2. QED
      BY <3>1
  <2>10. \A f \in v..((F + 1) - 1) :
           f \in DOMAIN r1 /\ f \in DOMAIN u1 /\ f \in DOMAIN local[p]
    BY <1>1, <1>5, <1>6, <2>7
  <2>11. v <= F + 1
    BY <1>1, <1>5
  <2>12. /\ F + 1 \in Frames /\ Fitting(r1, F + 1) /\ IsInputMap(u1)
         /\ v \in Frames /\ verified[p] <= v
         /\ RollsBack(p) => verified[p] < v
    BY <1>1, <1>5, <2>7
  <2>13. QED
    BY <1>4, <2>1, <2>5, <2>8, <2>9, <2>10, <2>11, <2>12, FinishStep
<1>10. QED
  BY <1>7, <1>8

LEMMA CloseBase ==
  BaseInv /\ Close => BaseInv' /\ UNCHANGED <<frame, verified, ring, local, used, core>>
<1> SUFFICES ASSUME BaseInv, Close
             PROVE  BaseInv' /\ UNCHANGED <<frame, verified, ring, local, used, core>>
  OBVIOUS
<1>1. UNCHANGED <<frame, confirmed, have_confirmed, verified, rollback_count,
                  status, ring, local, remote, used, own_crc, peer_crc, core,
                  chan, pc>>
  BY DEF Close, hist
<1>2. TypeOK'
  BY <1>1 DEF BaseInv, TypeOK, Close
<1>3. RollbackBudget' /\ Bookkeeping'
  BY <1>1 DEF BaseInv, RollbackBudget, Bookkeeping
<1>4. Sized'
  BY <1>1 DEF BaseInv, Sized, Fitting, Fits, IsStateMap, Blobs, Blank, States
<1>5. QED
  BY <1>1, <1>2, <1>3, <1>4 DEF BaseInv

LEMMA StutterBase ==
  BaseInv /\ UNCHANGED vars
    => BaseInv' /\ UNCHANGED <<frame, verified, ring, local, used, core>>
<1> SUFFICES ASSUME BaseInv, UNCHANGED vars
             PROVE  BaseInv' /\ UNCHANGED <<frame, verified, ring, local, used, core>>
  OBVIOUS
<1>1. UNCHANGED <<frame, verified, ring, local, used, core>>
  BY DEF vars, hist
<1>2. TypeOK' /\ RollbackBudget' /\ Bookkeeping'
  BY DEF vars, hist, net, BaseInv, TypeOK, RollbackBudget, Bookkeeping
<1>3. Sized'
  BY <1>1 DEF BaseInv, Sized, Fitting, Fits, IsStateMap, Blobs, Blank, States
<1>4. QED
  BY <1>1, <1>2, <1>3 DEF BaseInv

LEMMA CloseIInv == IInv /\ Close => IInv'
  BY CloseBase, TimelineKept DEF IInv, BaseInv

LEMMA StutterIInv == IInv /\ UNCHANGED vars => IInv'
  BY StutterBase, TimelineKept DEF IInv, BaseInv

\* Whichever saves fail, the session's members keep their types, the counters
\* their order, and every snapshot the length of its frame.
THEOREM RollbackBaseInvariant == Spec => []BaseInv
<1>1. BaseInv /\ [Next]_vars => BaseInv'
  BY BeginTickBase, DrainBase, EndTickBase, CloseBase, StutterBase DEF Next
<1>2. QED
  BY <1>1, InitBase, PTL DEF Spec

\* Every member keeps its type (RollbackSession.h), also when saves fail.
THEOREM RollbackTypes == Spec => []TypeOK
  BY RollbackBaseInvariant, PTL DEF BaseInv

\* There are never more rollbacks than verified frames, also when saves fail.
THEOREM RollbacksBounded == Spec => []RollbackBudget
  BY RollbackBaseInvariant, PTL DEF BaseInv

\* When every save succeeds, a rollback session keeps every snapshot and input
\* a rollback can ask for, and its snapshots and input logs on the core's
\* current timeline, whatever the prediction window, the inputs and the order
\* of deliveries.
THEOREM RollbackInvariant ==
  ASSUME ~SavesFail
  PROVE  Spec => []IInv
<1>1. IInv /\ [Next]_vars => IInv'
  BY BeginTickIInv, DrainIInv, EndTickIInv, CloseIInv, StutterIInv DEF Next
<1>2. Init => IInv
  BY InitIInv
<1>3. QED
  BY <1>1, <1>2, PTL DEF Spec

\* When every save succeeds, tick never reaches its load_state failure: the
\* snapshot is there and is not empty.
THEOREM RollbackAlwaysPossible ==
  ASSUME ~SavesFail
  PROVE  Spec => []RollbackPossible
  BY RollbackInvariant, PTL DEF IInv

\* When every save succeeds, snapshots never come from a timeline that a
\* rollback has replaced.
THEOREM RingStaysOnTimeline ==
  ASSUME ~SavesFail
  PROVE  Spec => []RingOnTimeline
  BY RollbackInvariant, PTL DEF IInv

\* When every save succeeds, local_ and used_ are what the core was fed.
THEOREM InputsStayOnTimeline ==
  ASSUME ~SavesFail
  PROVE  Spec => []InputsOnTimeline
  BY RollbackInvariant, PTL DEF IInv

-----------------------------------------------------------------------------
(* Agreement: what one side has settled is what the other side's player     *)
(* committed.  Three invariants, each on top of the ones before.            *)

\* The inputs p's player has committed so far, and the one of frame k.
Count(p) == frame[p] + IF frame[p] \in DOMAIN local[p] THEN 1 ELSE 0
InputOf(p, k) == IF k < frame[p] THEN core[p][k][p] ELSE local[p][k]

IsInput(m) == m.type = "Input"

\* The first frame p has no input for, and the frames p has sent one of.
Expected(p) == IF have_confirmed[p] THEN confirmed[p] + 1 ELSE 0
Sent(p) == frame[p] + IF pc[p] = "drain" THEN 1 ELSE 0

\* Message i on the way to p is the input of frame k.
InputAt(p, i, k) == IsInput(chan[p][i]) /\ chan[p][i].frame = k

\* confirmed_ has no gap below it.  The wire keeps the order of the inputs and
\* loses none, so an input is never received before the ones it follows.
NoGap(p) ==
  /\ \A k \in DOMAIN local[p] : k <= frame[p]
  /\ \A k \in verified[p]..(Expected(p) - 1) : k \in DOMAIN remote[p]
  /\ frame[p] < MaxFrame =>
       /\ \A k \in 0..(Sent(Other(p)) - 1) :
            k < Expected(p) \/ \E i \in DOMAIN chan[p] : InputAt(p, i, k)
       /\ \A i \in DOMAIN chan[p], k \in Nat :
            IsInput(chan[p][i]) /\ k < chan[p][i].frame =>
              k < Expected(p) \/ \E j \in DOMAIN chan[p] : j < i /\ InputAt(p, j, k)
NoGapInv == \A p \in Peers : NoGap(p)

\* Received, travelling and settled inputs are those the other side committed.
Agree(p) ==
  LET q == Other(p) IN
  /\ \A i \in DOMAIN chan[p], k \in Nat :
       IsInput(chan[p][i]) /\ chan[p][i].frame = k =>
         k < Count(q) /\ chan[p][i].state = InputOf(q, k)
  /\ \A k \in DOMAIN remote[p] : k < Count(q) /\ remote[p][k] = InputOf(q, k)
  /\ \A k \in 0..(verified[p] - 1) :
       k < Count(q) /\ core[p][k][q] = InputOf(q, k)
AgreeInv == \A p \in Peers : Agree(p)

\* A checksum, kept or travelling, is that of a verified state.
IsSumOf(p, f, c) == f <= verified[p] /\ c = Take(core[p], f)
Sums(p) ==
  LET q == Other(p) IN
  /\ \A f \in DOMAIN own_crc[p] : IsSumOf(p, f, own_crc[p][f])
  /\ \A f \in DOMAIN peer_crc[p] : IsSumOf(q, f, peer_crc[p][f])
  /\ \A i \in DOMAIN chan[p], f \in Nat :
       ~IsInput(chan[p][i]) /\ chan[p][i].frame = f => IsSumOf(q, f, chan[p][i].crc)
SumsInv == \A p \in Peers : Sums(p)

LEMMA Both ==
  ASSUME NEW p \in Peers
  PROVE  /\ Other(p) \in Peers /\ Other(p) # p /\ Other(Other(p)) = p
         /\ \A r \in Peers : r = p \/ r = Other(p)
  BY DEF Peers, Other

LEMMA AppendFacts ==
  ASSUME NEW S, NEW s \in Seq(S), NEW m \in S
  PROVE  /\ DOMAIN Append(s, m) = 1..(Len(s) + 1) /\ Len(s) \in Nat
         /\ DOMAIN s = 1..Len(s)
         /\ Append(s, m)[Len(s) + 1] = m
         /\ \A i \in DOMAIN s : i \in DOMAIN Append(s, m) /\ Append(s, m)[i] = s[i]
  OBVIOUS

\* The facts about one peer that the steps below keep needing.
LEMMA PeerFacts ==
  ASSUME IInv, NEW p \in Peers
  PROVE  /\ frame[p] \in Nat /\ frame[p] <= MaxFrame /\ MaxFrame \in Nat
         /\ verified[p] \in Nat /\ verified[p] <= frame[p]
         /\ confirmed[p] \in Nat /\ Expected(p) \in Nat
         /\ Sent(p) \in Nat /\ Count(p) \in Nat /\ frame[p] <= Count(p)
         /\ frame[p] \in DOMAIN local[p] => Count(p) = frame[p] + 1
         /\ frame[p] \notin DOMAIN local[p] => Count(p) = frame[p]
         /\ \A k \in DOMAIN local[p] : k \in Nat
         /\ \A k \in DOMAIN remote[p] : k \in Nat
         /\ core[p] \in [0..(frame[p] - 1) -> Pairs]
         /\ chan[p] \in Seq(Messages)
<1>1. /\ frame[p] \in Nat /\ frame[p] <= MaxFrame /\ MaxFrame \in Nat
      /\ verified[p] \in Nat /\ verified[p] <= frame[p]
      /\ confirmed[p] \in Nat /\ chan[p] \in Seq(Messages)
  BY MaxFrameAssumption DEF IInv, TypeOK, Frames, Bookkeeping
<1>2. /\ Expected(p) \in Nat /\ Sent(p) \in Nat /\ Count(p) \in Nat
      /\ frame[p] <= Count(p)
      /\ frame[p] \in DOMAIN local[p] => Count(p) = frame[p] + 1
      /\ frame[p] \notin DOMAIN local[p] => Count(p) = frame[p]
  BY <1>1 DEF Expected, Sent, Count
<1>3. (\A k \in DOMAIN local[p] : k \in Nat) /\ (\A k \in DOMAIN remote[p] : k \in Nat)
  BY MaxFrameAssumption DEF IInv, TypeOK, IsInputMap, Frames
<1>4. core[p] \in [0..(frame[p] - 1) -> Pairs]
  <2>1. PICK f \in Frames : core[p] \in [0..(f - 1) -> Pairs]
    BY DEF IInv, TypeOK, States
  <2>2. DOMAIN core[p] = 0..(frame[p] - 1)
    BY DEF IInv, RingOnTimeline
  <2> QED BY <2>1, <2>2
<1> QED BY <1>1, <1>2, <1>3, <1>4

LEMMA MessageFrames ==
  ASSUME IInv, NEW p \in Peers, NEW i \in DOMAIN chan[p]
  PROVE  chan[p][i] \in Messages /\ chan[p][i].frame \in Nat
<1>1. chan[p] \in Seq(Messages)
  BY PeerFacts
<1>2. chan[p][i] \in Messages
  BY <1>1
<1> QED BY <1>2, MaxFrameAssumption DEF Messages, Frames

\* BeginTick in terms of the two peers.
LEMMA BeginTickFacts ==
  ASSUME IInv, NEW p \in Peers, NEW in \in Inputs, BeginTick(p, in)
  PROVE  /\ UNCHANGED <<frame, confirmed, have_confirmed, verified, remote,
                        own_crc, peer_crc, core>>
         /\ frame[p] < MaxFrame /\ pc[p] = "idle" /\ MayFeed(p, in)
         /\ local'[p] = Put(local[p], frame[p], in)
         /\ local'[Other(p)] = local[Other(p)]
         /\ chan'[p] = chan[p] /\ pc'[Other(p)] = pc[Other(p)]
         /\ InputMsg(frame[p], in) \in Messages
         /\ \/ chan'[Other(p)] = chan[Other(p)] /\ frame[Other(p)] = MaxFrame
            \/ chan'[Other(p)] = chan[Other(p)] /\ pc'[p] = pc[p]
            \/ chan'[Other(p)] = Append(chan[Other(p)], InputMsg(frame[p], in))
<1>1. Other(p) \in Peers /\ Other(p) # p
  BY Both
<1>2. TypeOK
  BY DEF IInv
<1>3. /\ UNCHANGED <<frame, confirmed, have_confirmed, verified, remote,
                     own_crc, peer_crc, core>>
      /\ frame[p] < MaxFrame /\ pc[p] = "idle" /\ MayFeed(p, in)
      /\ local' = [local EXCEPT ![p] = Put(@, frame[p], in)]
  BY DEF BeginTick
<1>4. /\ local'[p] = Put(local[p], frame[p], in)
      /\ local'[Other(p)] = local[Other(p)]
  BY <1>1, <1>2, <1>3 DEF TypeOK, IsPerPeer
<1>5. InputMsg(frame[p], in) \in Messages
  BY <1>2 DEF TypeOK, InputMsg, Messages
<1>6. CASE open
  <2>1. Send(p, InputMsg(frame[p], in)) /\ pc' = [pc EXCEPT ![p] = "drain"]
    BY <1>6 DEF BeginTick
  <2>2. pc'[Other(p)] = pc[Other(p)]
    BY <1>1, <1>2, <2>1 DEF TypeOK
  <2>3. /\ chan'[p] = chan[p]
        /\ \/ chan'[Other(p)] = chan[Other(p)] /\ frame[Other(p)] = MaxFrame
           \/ chan'[Other(p)] = Append(chan[Other(p)], InputMsg(frame[p], in))
    BY <1>1, <1>2, <2>1 DEF TypeOK, Send
  <2> QED BY <1>3, <1>4, <1>5, <2>2, <2>3
<1>7. CASE ~open
  <2>1. chan' = chan /\ pc' = pc
    BY <1>7 DEF BeginTick
  <2> QED BY <1>3, <1>4, <1>5, <2>1
<1> QED BY <1>6, <1>7

\* One message read, in terms of the two peers.
LEMMA DrainFacts ==
  ASSUME IInv, NEW p \in Peers, DrainInput(p) \/ DrainChecksum(p)
  PROVE  LET m == Head(chan[p]) IN
         /\ UNCHANGED <<frame, verified, local, own_crc, core, pc>>
         /\ pc[p] = "drain" /\ frame[p] < MaxFrame
         /\ m \in Messages /\ m.frame \in Nat
         /\ 1 \in DOMAIN chan[p] /\ m = chan[p][1]
         /\ chan'[Other(p)] = chan[Other(p)]
         /\ \A i \in DOMAIN chan'[p] :
              i \in Nat /\ i + 1 \in DOMAIN chan[p] /\ chan'[p][i] = chan[p][i + 1]
         /\ \A i \in DOMAIN chan[p] :
              i = 1 \/ (i - 1 \in DOMAIN chan'[p] /\ chan'[p][i - 1] = chan[p][i])
<1>1. Other(p) \in Peers /\ Other(p) # p
  BY Both
<1>2. /\ UNCHANGED <<frame, verified, local, own_crc, core, pc>>
      /\ pc[p] = "drain" /\ chan[p] # <<>>
      /\ chan' = [chan EXCEPT ![p] = Tail(@)]
  BY DEF DrainInput, DrainChecksum
<1>3. chan[p] \in Seq(Messages) /\ chan \in [Peers -> Seq(Messages)]
  BY DEF IInv, TypeOK
<1>4. chan'[p] = Tail(chan[p]) /\ chan'[Other(p)] = chan[Other(p)]
  BY <1>1, <1>2, <1>3
<1>5. /\ Head(chan[p]) = chan[p][1] /\ 1 \in DOMAIN chan[p]
      /\ Head(chan[p]) \in Messages /\ Len(chan[p]) \in Nat
      /\ DOMAIN chan[p] = 1..Len(chan[p])
      /\ DOMAIN Tail(chan[p]) = 1..(Len(chan[p]) - 1)
      /\ \A i \in DOMAIN Tail(chan[p]) :
           i + 1 \in DOMAIN chan[p] /\ Tail(chan[p])[i] = chan[p][i + 1]
  BY <1>2, <1>3
<1>6. /\ \A i \in DOMAIN chan'[p] :
           i \in Nat /\ i + 1 \in DOMAIN chan[p] /\ chan'[p][i] = chan[p][i + 1]
      /\ \A i \in DOMAIN chan[p] :
           i = 1 \/ (i - 1 \in DOMAIN chan'[p] /\ chan'[p][i - 1] = chan[p][i])
  <2>1. \A i \in DOMAIN chan'[p] :
          i \in Nat /\ i + 1 \in DOMAIN chan[p] /\ chan'[p][i] = chan[p][i + 1]
    BY <1>4, <1>5
  <2>2. \A i \in DOMAIN chan[p] : i # 1 => i - 1 \in DOMAIN chan'[p]
    BY <1>4, <1>5
  <2>3. ASSUME NEW i \in DOMAIN chan[p], i # 1
        PROVE  chan'[p][i - 1] = chan[p][i]
    <3>1. (i - 1) + 1 = i
      BY <1>5
    <3> QED BY <2>1, <2>2, <2>3, <3>1
  <2> QED BY <2>1, <2>2, <2>3
<1>7. Head(chan[p]).frame \in Nat
  BY <1>5, MaxFrameAssumption DEF Messages, Frames
<1>8. frame[p] < MaxFrame
  BY <1>2 DEF IInv, Bookkeeping
<1> QED BY <1>2, <1>4, <1>5, <1>6, <1>7, <1>8

LEMMA DrainInputFacts ==
  ASSUME IInv, NEW p \in Peers, DrainInput(p)
  PROVE  LET m == Head(chan[p]) IN
         /\ IsInput(m) /\ peer_crc' = peer_crc
         /\ remote'[p] = Put(remote[p], m.frame, m.state)
         /\ UNCHANGED <<remote[Other(p)], confirmed[Other(p)],
                        have_confirmed[Other(p)]>>
         /\ Expected(p)' = IF m.frame < Expected(p) THEN Expected(p)
                           ELSE m.frame + 1
<1> DEFINE m == Head(chan[p])
<1>1. Other(p) \in Peers /\ Other(p) # p
  BY Both
<1>2. m.frame \in Nat /\ confirmed[p] \in Nat
  BY DrainFacts, PeerFacts
<1>3. /\ m.type = "Input" /\ peer_crc' = peer_crc
      /\ remote' = [remote EXCEPT ![p] = Put(@, m.frame, m.state)]
      /\ confirmed' = [confirmed EXCEPT ![p] = NewConfirmed(p, m.frame)]
      /\ have_confirmed' = [have_confirmed EXCEPT ![p] = TRUE]
  BY DEF DrainInput
<1>4. /\ remote'[p] = Put(remote[p], m.frame, m.state)
      /\ UNCHANGED <<remote[Other(p)], confirmed[Other(p)],
                     have_confirmed[Other(p)]>>
      /\ confirmed'[p] = NewConfirmed(p, m.frame) /\ have_confirmed'[p] = TRUE
  BY <1>1, <1>3 DEF IInv, TypeOK, IsPerPeer
<1>5. Expected(p)' = IF m.frame < Expected(p) THEN Expected(p) ELSE m.frame + 1
  <2>1. CASE have_confirmed[p]
    BY <1>2, <1>4, <2>1 DEF Expected, NewConfirmed
  <2>2. CASE ~have_confirmed[p]
    BY <1>2, <1>4, <2>2 DEF Expected, NewConfirmed
  <2> QED BY <2>1, <2>2
<1> QED BY <1>3, <1>4, <1>5 DEF IsInput

\* Step 3 of tick leaves the settled frames and the local inputs alone, and
\* settles frames on the remote inputs received.
LEMMA ReconcileKeeps ==
  ASSUME IInv, NEW p \in Peers
  PROVE  LET c == ReconciledCore(p) IN
         /\ \A k \in 0..(verified[p] - 1) : c[k] = core[p][k]
         /\ \A k \in 0..(frame[p] - 1) : c[k][p] = core[p][k][p]
         /\ \A k \in verified[p]..(ReconciledVerified(p) - 1) :
              /\ k < Expected(p)
              /\ k \in DOMAIN remote[p] => c[k][Other(p)] = remote[p][k]
<1> DEFINE q == Other(p)
           F == frame[p]
           c == ReconciledCore(p)
           v == ReconciledVerified(p)
<1>1. /\ F \in Nat /\ verified[p] \in Nat /\ verified[p] <= F
      /\ confirmed[p] \in Nat /\ core[p] \in [0..(F - 1) -> Pairs]
  BY PeerFacts
<1>2. \A k \in verified[p]..(v - 1) :
        /\ Reconciles(p) /\ k \in verified[p]..Hi(p) /\ k < Expected(p)
        /\ k \in 0..(F - 1)
  BY <1>1 DEF ReconciledVerified, Reconciles, Hi, Expected
<1>3. \A k \in verified[p]..(F - 1) :
        /\ k \in DOMAIN local[p] /\ k \in DOMAIN used[p]
        /\ core[p][k][q] = used[p][k]
  BY <1>1 DEF IInv, RollbackPossible, InputsOnTimeline
<1>4. \A k \in 0..(F - 1) : k \in DOMAIN local[p] =>
        c[k][p] = local[p][k] /\ core[p][k][p] = local[p][k]
  <2>1. Reconciled(p, c, ReconciledRing(p, {}, {}), ReconciledUsed(p), v)
    BY ReconcileStep
  <2> HIDE DEF c, v
  <2> QED BY <2>1 DEF Reconciled, IInv, InputsOnTimeline
<1>5. CASE ~RollsBack(p)
  <2>1. c = core[p]
    BY <1>5 DEF ReconciledCore
  <2>2. ASSUME NEW k \in verified[p]..(v - 1), k \in DOMAIN remote[p]
        PROVE  c[k][q] = remote[p][k]
    <3>1. Reconciles(p) /\ k \in verified[p]..Hi(p) /\ k \in verified[p]..(F - 1)
      BY <1>1, <1>2, <2>2
    <3>2. k \notin Mispredicted(p)
      BY <1>5, <3>1 DEF RollsBack
    <3>3. remote[p][k] = UsedAt(p, k)
      BY <2>2, <3>1, <3>2 DEF Mispredicted
    <3> QED BY <1>3, <2>1, <3>1, <3>3 DEF UsedAt
  <2> QED BY <1>2, <2>1, <2>2
<1>6. CASE RollsBack(p)
  <2> DEFINE g == rb_first_mispredicted(p)
  <2>1. /\ g \in Nat /\ g < F /\ verified[p] <= g /\ g \in DOMAIN ring[p]
    BY <1>1, <1>6, RollbackTarget
  <2>2. ring[p][g] = Take(core[p], g)
    BY <2>1 DEF IInv, RingOnTimeline
  <2>3. c = [k \in 0..(F - 1) |->
               IF k < g THEN ring[p][g][k]
               ELSE PairOf(p, LocalInput(p, k), RemoteInput(p, k))]
    BY <1>6 DEF ReconciledCore
  <2>4. \A k \in verified[p]..Hi(p) :
          k < g /\ k \in DOMAIN remote[p] => remote[p][k] = UsedAt(p, k)
    <3>1. Mispredicted(p) \subseteq Nat /\ Mispredicted(p) # {}
      BY <1>1, <1>6 DEF RollsBack, Mispredicted, Hi
    <3>2. \A y \in Mispredicted(p) : g <= y
      BY <3>1, MinProperty DEF rb_first_mispredicted
    <3>3. \A k \in verified[p]..Hi(p) : k \in Nat
      BY <1>1 DEF Hi
    <3>4. ASSUME NEW k \in verified[p]..Hi(p), k < g, k \in DOMAIN remote[p],
                 remote[p][k] # UsedAt(p, k)
          PROVE  FALSE
      <4>1. k \in Mispredicted(p)
        BY <3>4 DEF Mispredicted
      <4> HIDE DEF g
      <4> QED BY <2>1, <3>2, <3>3, <3>4, <4>1
    <3> QED BY <3>4
  <2> HIDE DEF g, c, v, F
  <2>5. \A k \in 0..(F - 1) : k < g => c[k] = core[p][k]
    BY <1>1, <2>1, <2>2, <2>3 DEF Take
  <2>6. \A k \in 0..(verified[p] - 1) : c[k] = core[p][k]
    BY <1>1, <2>1, <2>5
  <2>7. \A k \in 0..(F - 1) : c[k][p] = core[p][k][p]
    BY <1>1, <1>3, <1>4, <2>6
  <2>8. ASSUME NEW k \in verified[p]..(v - 1), k \in DOMAIN remote[p]
        PROVE  c[k][q] = remote[p][k]
    <3>1. /\ k \in verified[p]..Hi(p) /\ k \in 0..(F - 1)
          /\ k \in verified[p]..(F - 1)
      BY <1>1, <1>2, <2>8
    <3>2. CASE k < g
      BY <1>3, <2>4, <2>5, <2>8, <3>1, <3>2 DEF UsedAt
    <3>3. CASE ~(k < g)
      <4>1. c[k] = PairOf(p, LocalInput(p, k), RemoteInput(p, k))
        BY <2>3, <3>1, <3>3
      <4>2. c[k][q] = RemoteInput(p, k)
        BY <4>1, PairFacts, InputTypes DEF IInv
      <4> QED BY <2>8, <4>2 DEF RemoteInput
    <3> QED BY <3>2, <3>3
  <2> QED BY <1>2, <2>6, <2>7, <2>8 DEF c, v, F
<1> QED BY <1>5, <1>6

\* What a finished tick did to p: it kept what was settled, settled the frames
\* up to v on the inputs received, and may have sent the checksum of frame v.
\* n is the new frame_, c the new state of the core.
Ticked(p, n, c, v) ==
  LET q == Other(p)
      floor == PruneFloor(v)
  IN
  /\ n \in {frame[p], frame[p] + 1} /\ n <= MaxFrame
  /\ frame'[p] = n /\ frame'[q] = frame[q]
  /\ core'[p] = c /\ core'[q] = core[q]
  /\ verified'[p] = v /\ verified'[q] = verified[q]
  /\ v \in Nat /\ verified[p] <= v /\ v <= frame[p]
  /\ c \in [0..(n - 1) -> Pairs]
  /\ \A k \in 0..(verified[p] - 1) : c[k] = core[p][k]
  /\ \A k \in 0..(frame[p] - 1) : c[k][p] = core[p][k][p]
  /\ n = frame[p] + 1 => c[frame[p]][p] = local[p][frame[p]]
  /\ \A k \in verified[p]..(v - 1) :
       /\ k < Expected(p)
       /\ k \in DOMAIN remote[p] => c[k][q] = remote[p][k]
  /\ local'[p] = rb_prune_below(local[p], floor) /\ local'[q] = local[q]
  /\ remote'[p] = rb_prune_below(remote[p], floor) /\ remote'[q] = remote[q]
  /\ pc[p] = "drain" /\ pc'[p] = "idle" /\ pc'[q] = pc[q]
  /\ UNCHANGED <<confirmed, have_confirmed, peer_crc, chan[p], own_crc[q]>>
  /\ own_crc'[p] = own_crc[p] \/ own_crc'[p] = Put(own_crc[p], v, Take(c, v))
  /\ ChecksumMsg(v, Take(c, v)) \in Messages
  /\ \/ chan'[q] = chan[q]
     \/ chan'[q] = Append(chan[q], ChecksumMsg(v, Take(c, v)))

\* FinishTick, for the two ways a tick comes to it.
LEMMA FinishFacts ==
  ASSUME IInv, NEW p \in Peers, pc[p] = "drain",
         pc' = [pc EXCEPT ![p] = "idle"],
         NEW n \in {frame[p], frame[p] + 1}, n <= MaxFrame,
         NEW c \in [0..(n - 1) -> Pairs],
         NEW r, NEW u, NEW result,
         frame' = [frame EXCEPT ![p] = n],
         core' = [core EXCEPT ![p] = c],
         FinishTick(p, ReconciledVerified(p), r, u, result),
         UNCHANGED <<confirmed, have_confirmed, peer_crc, open>>,
         \A f \in DOMAIN r : r[f] = Take(c, f),
         \A k \in 0..(frame[p] - 1) : c[k] = ReconciledCore(p)[k],
         n = frame[p] + 1 => c[frame[p]][p] = local[p][frame[p]]
  PROVE  Ticked(p, n, c, ReconciledVerified(p))
<1> DEFINE q == Other(p)
           v == ReconciledVerified(p)
           m == ChecksumMsg(v, Take(c, v))
<1>1. q \in Peers /\ q # p
  BY Both
<1>2. /\ frame[p] \in Nat /\ verified[p] \in Nat /\ verified[p] <= frame[p]
      /\ frame[p] <= MaxFrame /\ MaxFrame \in Nat
  BY PeerFacts
<1>3. v \in Nat /\ v \in Frames /\ verified[p] <= v /\ v <= frame[p]
  <2>1. Reconciled(p, ReconciledCore(p), ReconciledRing(p, {}, {}),
                   ReconciledUsed(p), v)
    BY ReconcileStep
  <2> HIDE DEF v
  <2> QED BY <2>1, MaxFrameAssumption DEF Reconciled, Frames
<1>4. /\ \A k \in 0..(verified[p] - 1) : ReconciledCore(p)[k] = core[p][k]
      /\ \A k \in 0..(frame[p] - 1) : ReconciledCore(p)[k][p] = core[p][k][p]
      /\ \A k \in verified[p]..(v - 1) :
           /\ k < Expected(p)
           /\ k \in DOMAIN remote[p] =>
                ReconciledCore(p)[k][Other(p)] = remote[p][k]
  BY ReconcileKeeps
<1>5. /\ verified' = [verified EXCEPT ![p] = v]
      /\ local' = [local EXCEPT ![p] = rb_prune_below(@, PruneFloor(v))]
      /\ remote' = [remote EXCEPT ![p] = rb_prune_below(@, PruneFloor(v))]
      /\ maybe_send_checksum(p, v, r)
  BY DEF FinishTick, prune
<1> HIDE DEF v
<1>6. /\ frame'[p] = n /\ frame'[q] = frame[q]
      /\ core'[p] = c /\ core'[q] = core[q]
      /\ verified'[p] = v /\ verified'[q] = verified[q]
      /\ pc'[p] = "idle" /\ pc'[q] = pc[q]
  BY <1>1, <1>5 DEF IInv, TypeOK
<1>7. /\ local'[p] = rb_prune_below(local[p], PruneFloor(v))
      /\ local'[q] = local[q]
      /\ remote'[p] = rb_prune_below(remote[p], PruneFloor(v))
      /\ remote'[q] = remote[q]
  BY <1>1, <1>5 DEF IInv, TypeOK, IsPerPeer
<1>8. m \in Messages
  <2>1. Take(c, v) \in States
    <3>1. v \in 0..n /\ n \in Nat
      BY <1>2, <1>3
    <3> QED BY <3>1, TakeType
  <2> QED BY <1>3, <2>1 DEF ChecksumMsg, Messages, Blobs
<1>9. /\ own_crc'[q] = own_crc[q] /\ chan'[p] = chan[p]
      /\ own_crc'[p] = own_crc[p] \/ own_crc'[p] = Put(own_crc[p], v, Take(c, v))
      /\ chan'[q] = chan[q] \/ chan'[q] = Append(chan[q], m)
  <2>1. CASE SendsChecksum(v, r)
    <3>1. r[v] = Take(c, v)
      BY <2>1 DEF SendsChecksum
    <3>2. /\ own_crc' = [own_crc EXCEPT ![p] = Put(@, v, Take(c, v))]
          /\ Send(p, m) \/ chan' = chan
      BY <1>5, <2>1, <3>1 DEF maybe_send_checksum
    <3>3. /\ own_crc'[q] = own_crc[q]
          /\ own_crc'[p] = Put(own_crc[p], v, Take(c, v))
      BY <1>1, <3>2 DEF IInv, TypeOK, IsPerPeer
    <3> HIDE DEF m
    <3>4. /\ chan'[p] = chan[p]
          /\ chan'[q] = chan[q] \/ chan'[q] = Append(chan[q], m)
      BY <1>1, <3>2 DEF IInv, TypeOK, Send
    <3> QED BY <3>3, <3>4
  <2>2. CASE ~SendsChecksum(v, r)
    BY <1>5, <2>2 DEF maybe_send_checksum
  <2> QED BY <2>1, <2>2
<1>10. /\ \A k \in 0..(verified[p] - 1) : c[k] = core[p][k]
       /\ \A k \in 0..(frame[p] - 1) : c[k][p] = core[p][k][p]
       /\ \A k \in verified[p]..(v - 1) :
            /\ k < Expected(p)
            /\ k \in DOMAIN remote[p] => c[k][Other(p)] = remote[p][k]
  <2>1. \A k \in 0..(verified[p] - 1) : k \in 0..(frame[p] - 1)
    BY <1>2
  <2>2. \A k \in verified[p]..(v - 1) : k \in 0..(frame[p] - 1)
    BY <1>2, <1>3
  <2> QED BY <1>4, <2>1, <2>2
<1> QED
  BY <1>3, <1>6, <1>7, <1>8, <1>9, <1>10 DEF Ticked, v

LEMMA EndTickFacts ==
  ASSUME IInv, NEW p \in Peers, EndTick(p)
  PROVE  \E n, c, v : Ticked(p, n, c, v)
<1> DEFINE F == frame[p]
           c == ReconciledCore(p)
           v == ReconciledVerified(p)
           r == ReconciledRing(p, {}, {})
<1>1. /\ F \in Nat /\ F < MaxFrame /\ MaxFrame \in Nat /\ F \in DOMAIN local[p]
  BY PeerFacts DEF EndTick, IInv, Bookkeeping
<1>2. /\ c \in [0..(F - 1) -> Pairs]
      /\ \A f \in DOMAIN r : f \in Nat /\ f <= F /\ r[f] = Take(c, f)
  <2>1. Reconciled(p, c, r, ReconciledUsed(p), v)
    BY ReconcileStep
  <2> HIDE DEF c, v, r
  <2> QED BY <2>1, MaxFrameAssumption DEF Reconciled, IsStateMap, Frames
<1>3. IF Stalls(p) THEN StallTick(p, {}, {}) ELSE SimulateTick(p, {}, {})
  BY EverySaveStored
<1>4. /\ pc[p] = "drain" /\ pc' = [pc EXCEPT ![p] = "idle"]
      /\ UNCHANGED <<confirmed, have_confirmed, peer_crc, open>>
  BY DEF EndTick
<1> HIDE DEF c, v, r
<1>5. CASE Stalls(p)
  <2>1. /\ core' = [core EXCEPT ![p] = c]
        /\ FinishTick(p, v, r, ReconciledUsed(p), "Stalled")
        /\ frame' = frame
    BY <1>3, <1>5 DEF StallTick, c, v, r
  <2>2. frame' = [frame EXCEPT ![p] = F]
    BY <2>1 DEF IInv, TypeOK
  <2>3. F # F + 1 /\ F <= MaxFrame
    BY <1>1
  <2>4. Ticked(p, F, c, v)
    BY <1>2, <1>4, <2>1, <2>2, <2>3, FinishFacts DEF c, v
  <2> QED BY <2>4
<1>6. CASE ~Stalls(p)
  <2> DEFINE c1 == SimulatedCore(p)
             r1 == SimulatedRing(p, {}, {})
             rin == RemoteInput(p, F)
             lin == LocalInput(p, F)
  <2>1. /\ core' = [core EXCEPT ![p] = c1]
        /\ FinishTick(p, v, r1, SimulatedUsed(p), "Ok")
        /\ frame' = [frame EXCEPT ![p] = F + 1]
    BY <1>3, <1>6 DEF SimulateTick, v
  <2>2. /\ c1 = [k \in 0..F |-> IF k < F THEN c[k] ELSE PairOf(p, lin, rin)]
        /\ r1 = Put(r, F, c)
    BY EverySaveStored DEF SimulatedCore, c, r
  <2>3. lin \in Inputs /\ rin \in Inputs /\ lin = local[p][F]
    BY <1>1, InputTypes DEF IInv, LocalInput
  <2>4. PairOf(p, lin, rin) \in Pairs /\ PairOf(p, lin, rin)[p] = lin
    BY <2>3, PairFacts
  <2> HIDE DEF rin, lin, c1, r1, F
  <2>5. c1 \in [0..((F + 1) - 1) -> Pairs]
    <3>1. \A k \in 0..F : c1[k] \in Pairs
      BY <1>1, <1>2, <2>2, <2>4
    <3>2. (F + 1) - 1 = F
      BY <1>1
    <3> QED BY <2>2, <3>1, <3>2
  <2>6. \A k \in 0..(F - 1) : c1[k] = c[k]
    BY <1>1, <2>2
  <2>7. c1[F][p] = local[p][F]
    BY <1>1, <2>2, <2>3, <2>4
  <2>8. \A f \in DOMAIN r1 : r1[f] = Take(c1, f)
    <3>1. \A f \in Nat : f <= F => Take(c1, f) = Take(c, f)
      BY <1>1, <2>2 DEF Take
    <3>2. Take(c, F) = c
      BY <1>1, <1>2 DEF Take
    <3>3. DOMAIN r1 = DOMAIN r \union {F} /\ r1[F] = c
          /\ \A f \in DOMAIN r : f # F => r1[f] = r[f]
      BY <2>2 DEF Put
    <3> QED BY <1>1, <1>2, <3>1, <3>2, <3>3
  <2>9. F + 1 <= MaxFrame
    BY <1>1
  <2>10. Ticked(p, F + 1, c1, v)
    BY <1>1, <1>4, <2>1, <2>5, <2>6, <2>7, <2>8, <2>9, FinishFacts DEF F, c, v
  <2> QED BY <2>10
<1> QED BY <1>5, <1>6

-----------------------------------------------------------------------------
LEMMA Grows ==
  ASSUME IInv, NEW p \in Peers, NEW m \in Messages,
         chan'[p] = Append(chan[p], m)
  PROVE  \E last \in Nat :
         /\ DOMAIN chan'[p] = DOMAIN chan[p] \union {last}
         /\ chan'[p][last] = m
         /\ \A i \in DOMAIN chan[p] :
              i \in Nat /\ i < last /\ chan'[p][i] = chan[p][i]
<1>1. chan[p] \in Seq(Messages)
  BY PeerFacts
<1>2. /\ DOMAIN chan'[p] = 1..(Len(chan[p]) + 1) /\ Len(chan[p]) \in Nat
      /\ DOMAIN chan[p] = 1..Len(chan[p])
      /\ chan'[p][Len(chan[p]) + 1] = m
      /\ \A i \in DOMAIN chan[p] : chan'[p][i] = chan[p][i]
  BY <1>1, AppendFacts
<1> DEFINE last == Len(chan[p]) + 1
<1>3. last \in Nat /\ DOMAIN chan'[p] = DOMAIN chan[p] \union {last}
  BY <1>2
<1>4. \A i \in DOMAIN chan[p] : i \in Nat /\ i < last
  BY <1>2
<1> QED BY <1>2, <1>3, <1>4

LEMMA InitNoGap == Init => NoGapInv
<1> SUFFICES ASSUME Init, NEW p \in Peers PROVE NoGap(p)
  BY DEF NoGapInv
<1>1. /\ Other(p) \in Peers /\ DOMAIN Empty = {}
  BY Both DEF Empty
<1>2. /\ local[p] = Empty /\ chan[p] = <<>> /\ Expected(p) = 0
      /\ verified[p] = 0 /\ Sent(Other(p)) = 0
  BY <1>1 DEF Init, Expected, Sent
<1>3. DOMAIN chan[p] = {}
  BY <1>2
<1> QED BY <1>1, <1>2, <1>3 DEF NoGap

\* A step that sends and receives nothing.
LEMMA QuietNoGap ==
  ASSUME IInv, NoGapInv,
         UNCHANGED <<frame, verified, confirmed, have_confirmed, local, remote,
                     chan>>,
         \A r \in Peers : pc'[r] = pc[r] \/ pc'[r] = "idle"
  PROVE  NoGapInv'
<1> SUFFICES ASSUME NEW p \in Peers PROVE NoGap(p)'
  BY DEF NoGapInv
<1>1. Other(p) \in Peers /\ NoGap(p)
  BY Both DEF NoGapInv
<1>2. Expected(p)' = Expected(p)
  BY DEF Expected
<1>3. frame[Other(p)] \in Nat
  BY <1>1, PeerFacts
<1>4. \A k \in 0..(Sent(Other(p))' - 1) : k \in 0..(Sent(Other(p)) - 1)
  BY <1>1, <1>3 DEF Sent
<1> QED BY <1>1, <1>2, <1>4 DEF NoGap, InputAt

LEMMA BeginTickNoGap ==
  ASSUME IInv, NoGapInv, NEW p \in Peers, NEW in \in Inputs, BeginTick(p, in)
  PROVE  NoGapInv'
<1> DEFINE q == Other(p)
           F == frame[p]
           m == InputMsg(F, in)
<1>1. q \in Peers /\ q # p /\ Other(q) = p /\ \A r \in Peers : r = p \/ r = q
  BY Both
<1>2. /\ UNCHANGED <<frame, confirmed, have_confirmed, verified, remote, core>>
      /\ F < MaxFrame /\ pc[p] = "idle"
      /\ local'[p] = Put(local[p], F, in) /\ local'[q] = local[q]
      /\ chan'[p] = chan[p] /\ pc'[q] = pc[q]
      /\ m \in Messages
      /\ \/ chan'[q] = chan[q] /\ frame[q] = MaxFrame
         \/ chan'[q] = chan[q] /\ pc'[p] = pc[p]
         \/ chan'[q] = Append(chan[q], m)
  BY BeginTickFacts
<1>3. F \in Nat /\ NoGap(p) /\ NoGap(q) /\ frame[q] \in Nat /\ MaxFrame \in Nat
  BY <1>1, PeerFacts DEF NoGapInv
<1>4. /\ Expected(p)' = Expected(p) /\ Expected(q)' = Expected(q)
      /\ Sent(q)' = Sent(q)
  BY <1>2 DEF Expected, Sent
<1>5. \A k \in DOMAIN local'[p] : k <= F
  <2>1. DOMAIN local'[p] = DOMAIN local[p] \union {F}
    BY <1>2 DEF Put
  <2> QED BY <1>3, <2>1 DEF NoGap
<1>6. NoGap(p)'
  BY <1>2, <1>3, <1>4, <1>5 DEF NoGap, InputAt
<1>7. CASE chan'[q] = chan[q] /\ frame[q] = MaxFrame
  <2>1. ~(frame'[q] < MaxFrame)
    BY <1>2, <1>3, <1>7
  <2>2. NoGap(q)'
    BY <1>2, <1>3, <1>4, <2>1 DEF NoGap
  <2> QED BY <1>1, <1>6, <2>2 DEF NoGapInv
<1>8. CASE chan'[q] = chan[q] /\ pc'[p] = pc[p]
  <2>1. Sent(p)' = Sent(p)
    BY <1>2, <1>8 DEF Sent
  <2>2. NoGap(q)'
    BY <1>1, <1>2, <1>3, <1>4, <1>8, <2>1 DEF NoGap, InputAt
  <2> QED BY <1>1, <1>6, <2>2 DEF NoGapInv
<1>9. CASE chan'[q] = Append(chan[q], m)
  <2>1. PICK last \in Nat :
          /\ DOMAIN chan'[q] = DOMAIN chan[q] \union {last}
          /\ chan'[q][last] = m
          /\ \A i \in DOMAIN chan[q] :
               i \in Nat /\ i < last /\ chan'[q][i] = chan[q][i]
    BY <1>1, <1>2, <1>9, Grows
  <2>2. IsInput(m) /\ m.frame = F
    BY DEF IsInput, InputMsg
  <2> HIDE DEF m
  <2>3. \A k \in 0..(Sent(p)' - 1) : k = F \/ k \in 0..(F - 1)
    BY <1>2, <1>3 DEF Sent
  <2>4. \A k \in 0..(F - 1) : k \in 0..(Sent(p) - 1)
    BY <1>2, <1>3 DEF Sent
  <2>5. CASE ~(frame[q] < MaxFrame)
    BY <1>1, <1>2, <1>3, <1>4, <1>6, <2>5 DEF NoGap, NoGapInv
  <2>6. CASE frame[q] < MaxFrame
    <3>1. \A k \in 0..(F - 1) :
            k < Expected(q) \/ \E i \in DOMAIN chan[q] : InputAt(q, i, k)
      BY <1>1, <1>3, <2>4, <2>6 DEF NoGap
    <3>2. \A k : \A i \in DOMAIN chan[q] : InputAt(q, i, k) =>
            i \in DOMAIN chan'[q] /\ i < last /\ InputAt(q, i, k)'
      BY <2>1 DEF InputAt
    <3>3. \A k \in 0..(Sent(p)' - 1) :
            k < Expected(q) \/ \E i \in DOMAIN chan'[q] : InputAt(q, i, k)'
      <4>1. InputAt(q, last, F)' /\ last \in DOMAIN chan'[q]
        BY <1>2, <2>1, <2>2 DEF InputAt
      <4>2. ASSUME NEW k \in 0..(Sent(p)' - 1)
            PROVE  k < Expected(q) \/ \E i \in DOMAIN chan'[q] : InputAt(q, i, k)'
        <5>1. CASE k = F
          <6>1. \A j : j = F => InputAt(q, last, j)'
            BY <1>2, <2>1, <2>2 DEF InputAt
          <6> QED BY <4>1, <5>1, <6>1
        <5>2. CASE k \in 0..(F - 1)
          BY <3>1, <3>2, <5>2
        <5> QED BY <2>3, <4>2, <5>1, <5>2
      <4> QED BY <4>2
    <3>4. ASSUME NEW i \in DOMAIN chan'[q], NEW k \in Nat,
                 IsInput(chan'[q][i]), k < chan'[q][i].frame
          PROVE  k < Expected(q) \/ \E j \in DOMAIN chan'[q] :
                                      j < i /\ InputAt(q, j, k)'
      <4>1. CASE i = last
        <5>1. k \in 0..(F - 1)
          BY <1>3, <2>1, <2>2, <3>4, <4>1
        <5> QED BY <3>1, <3>2, <4>1, <5>1
      <4>2. CASE i # last
        <5>1. i \in DOMAIN chan[q] /\ chan'[q][i] = chan[q][i]
          BY <2>1, <3>4, <4>2
        <5>2. k < Expected(q) \/ \E j \in DOMAIN chan[q] :
                                   j < i /\ InputAt(q, j, k)
          BY <1>3, <2>6, <3>4, <5>1 DEF NoGap
        <5> QED BY <3>2, <5>2
      <4> QED BY <4>1, <4>2
    <3>5. NoGap(q)'
      BY <1>1, <1>2, <1>3, <1>4, <3>3, <3>4 DEF NoGap
    <3> QED BY <1>1, <1>6, <3>5 DEF NoGapInv
  <2> QED BY <2>5, <2>6
<1> QED BY <1>2, <1>7, <1>8, <1>9

LEMMA DrainNoGap ==
  ASSUME IInv, NoGapInv, NEW p \in Peers, DrainInput(p) \/ DrainChecksum(p)
  PROVE  NoGapInv'
<1> DEFINE q == Other(p)
           m == Head(chan[p])
<1>1. q \in Peers /\ q # p /\ Other(q) = p /\ \A r \in Peers : r = p \/ r = q
  BY Both
<1>2. /\ UNCHANGED <<frame, verified, local, core, pc>>
      /\ frame[p] < MaxFrame /\ m.frame \in Nat
      /\ 1 \in DOMAIN chan[p] /\ m = chan[p][1]
      /\ chan'[q] = chan[q]
      /\ \A i \in DOMAIN chan'[p] :
           i \in Nat /\ i + 1 \in DOMAIN chan[p] /\ chan'[p][i] = chan[p][i + 1]
      /\ \A i \in DOMAIN chan[p] :
           i = 1 \/ (i - 1 \in DOMAIN chan'[p] /\ chan'[p][i - 1] = chan[p][i])
  BY DrainFacts
<1>3. /\ NoGap(p) /\ NoGap(q) /\ Expected(p) \in Nat /\ verified[p] \in Nat
      /\ \A i \in DOMAIN chan[p] : i \in Nat /\ i >= 1
  <2>1. chan[p] \in Seq(Messages) /\ Expected(p) \in Nat /\ verified[p] \in Nat
    BY PeerFacts
  <2>2. DOMAIN chan[p] = 1..Len(chan[p]) /\ Len(chan[p]) \in Nat
    BY <2>1
  <2> QED BY <1>1, <2>1, <2>2 DEF NoGapInv
\* The first message has nothing before it, so it is not ahead of its turn.
<1>4. IsInput(m) => m.frame <= Expected(p)
  <2> SUFFICES ASSUME IsInput(m), Expected(p) < m.frame PROVE FALSE
    BY <1>2, <1>3
  <2>1. \E j \in DOMAIN chan[p] : j < 1 /\ InputAt(p, j, Expected(p))
    BY <1>2, <1>3 DEF NoGap
  <2> QED BY <1>3, <2>1
<1>5. /\ Expected(q)' = Expected(q) /\ remote'[q] = remote[q]
      /\ Expected(p)' \in Nat /\ Expected(p) <= Expected(p)'
      /\ IsInput(m) => m.frame < Expected(p)'
      /\ \A k \in verified[p]..(Expected(p)' - 1) : k \in DOMAIN remote'[p]
  <2>1. CASE DrainInput(p)
    <3>1. /\ IsInput(m)
          /\ remote'[p] = Put(remote[p], m.frame, m.state)
          /\ UNCHANGED <<remote[q], confirmed[q], have_confirmed[q]>>
          /\ Expected(p)' = IF m.frame < Expected(p) THEN Expected(p)
                            ELSE m.frame + 1
      BY <2>1, DrainInputFacts
    <3>2. DOMAIN remote'[p] = DOMAIN remote[p] \union {m.frame}
      BY <3>1 DEF Put
    <3>3. Expected(q)' = Expected(q)
      BY <3>1 DEF Expected
    <3>4. /\ Expected(p)' \in Nat /\ Expected(p) <= Expected(p)'
          /\ m.frame < Expected(p)'
          /\ \A k \in verified[p]..(Expected(p)' - 1) :
               k \in verified[p]..(Expected(p) - 1) \/ k = m.frame
      BY <1>2, <1>3, <1>4, <3>1
    <3> QED BY <1>3, <3>1, <3>2, <3>3, <3>4 DEF NoGap
  <2>2. CASE DrainChecksum(p)
    <3>1. /\ UNCHANGED <<confirmed, have_confirmed, remote>> /\ ~IsInput(m)
      BY <2>2 DEF DrainChecksum, IsInput
    <3>2. Expected(q)' = Expected(q) /\ Expected(p)' = Expected(p)
      BY <3>1 DEF Expected
    <3> QED BY <1>3, <3>1, <3>2 DEF NoGap
  <2> QED BY <2>1, <2>2
<1> HIDE DEF m
<1>6. NoGap(q)'
  <2>1. Sent(p)' = Sent(p)
    BY <1>2 DEF Sent
  <2> QED BY <1>1, <1>2, <1>3, <1>5, <2>1 DEF NoGap, InputAt
\* What was ahead of a message is still ahead of it, or was just received.
<1>7. ASSUME NEW i \in DOMAIN chan[p], NEW k \in Nat, InputAt(p, i, k)
      PROVE  \/ k < Expected(p)'
             \/ i - 1 \in DOMAIN chan'[p] /\ InputAt(p, i - 1, k)'
  <2>1. CASE i = 1
    BY <1>2, <1>5, <1>7, <2>1 DEF InputAt
  <2>2. CASE i # 1
    BY <1>2, <1>7, <2>2 DEF InputAt
  <2> QED BY <2>1, <2>2
<1>8. NoGap(p)'
  <2>1. Sent(q)' = Sent(q)
    BY <1>2 DEF Sent
  <2>2. ASSUME NEW k \in 0..(Sent(q) - 1)
        PROVE  k < Expected(p)' \/ \E i \in DOMAIN chan'[p] : InputAt(p, i, k)'
    <3>1. k \in Nat /\ (k < Expected(p) => k < Expected(p)')
      BY <1>3, <1>5
    <3>2. k < Expected(p) \/ \E i \in DOMAIN chan[p] : InputAt(p, i, k)
      BY <1>2, <1>3 DEF NoGap
    <3> QED BY <1>7, <3>1, <3>2
  <2>3. ASSUME NEW i \in DOMAIN chan'[p], NEW k \in Nat,
               IsInput(chan'[p][i]), k < chan'[p][i].frame
        PROVE  k < Expected(p)' \/ \E j \in DOMAIN chan'[p] :
                                     j < i /\ InputAt(p, j, k)'
    <3>1. i \in Nat /\ i + 1 \in DOMAIN chan[p] /\ chan'[p][i] = chan[p][i + 1]
      BY <1>2
    <3>2. k < Expected(p) \/ \E j \in DOMAIN chan[p] :
                               j < i + 1 /\ InputAt(p, j, k)
      BY <1>2, <1>3, <2>3, <3>1 DEF NoGap
    <3>3. CASE k < Expected(p)
      BY <1>3, <1>5, <3>3
    <3>4. CASE \E j \in DOMAIN chan[p] : j < i + 1 /\ InputAt(p, j, k)
      <4>1. PICK j \in DOMAIN chan[p] : j < i + 1 /\ InputAt(p, j, k)
        BY <3>4
      <4>2. j - 1 < i
        BY <1>3, <3>1, <4>1
      <4> QED BY <1>7, <4>1, <4>2
    <3> QED BY <3>2, <3>3, <3>4
  <2> QED BY <1>2, <1>3, <1>5, <2>1, <2>2, <2>3 DEF NoGap
<1> QED BY <1>1, <1>6, <1>8 DEF NoGapInv

LEMMA EndTickNoGap ==
  ASSUME IInv, NoGapInv, NEW p \in Peers, EndTick(p)
  PROVE  NoGapInv'
<1> DEFINE q == Other(p)
<1>1. q \in Peers /\ q # p /\ Other(q) = p /\ \A r \in Peers : r = p \/ r = q
  BY Both
<1>2. PICK n, c, v : Ticked(p, n, c, v)
  BY EndTickFacts
<1> DEFINE m == ChecksumMsg(v, Take(c, v))
<1>3. /\ n \in {frame[p], frame[p] + 1} /\ n <= MaxFrame
      /\ frame'[p] = n /\ frame'[q] = frame[q]
      /\ verified'[p] = v /\ verified'[q] = verified[q]
      /\ v \in Nat /\ verified[p] <= v
      /\ local'[p] = rb_prune_below(local[p], PruneFloor(v)) /\ local'[q] = local[q]
      /\ remote'[p] = rb_prune_below(remote[p], PruneFloor(v))
      /\ remote'[q] = remote[q]
      /\ pc[p] = "drain" /\ pc'[p] = "idle" /\ pc'[q] = pc[q]
      /\ confirmed' = confirmed /\ have_confirmed' = have_confirmed
      /\ chan'[p] = chan[p] /\ m \in Messages
      /\ chan'[q] = chan[q] \/ chan'[q] = Append(chan[q], m)
  BY <1>2 DEF Ticked
<1>4. ~IsInput(m)
  BY DEF m, ChecksumMsg, IsInput
<1>5. /\ frame[p] \in Nat /\ MaxFrame \in Nat /\ verified[p] \in Nat
      /\ frame[q] \in Nat /\ verified[q] \in Nat
      /\ NoGap(p) /\ NoGap(q) /\ Expected(p) \in Nat
      /\ PruneFloor(v) \in Nat /\ PruneFloor(v) <= v
  BY <1>1, <1>3, PeerFacts, FloorBelow DEF NoGapInv
<1>6. Expected(p)' = Expected(p) /\ Expected(q)' = Expected(q)
  BY <1>3 DEF Expected
<1>7. Sent(q)' = Sent(q) /\ \A k \in 0..(Sent(p)' - 1) : k \in 0..(Sent(p) - 1)
  BY <1>3, <1>5 DEF Sent
<1> HIDE DEF m
<1>8. NoGap(p)'
  <2>1. \A k \in DOMAIN local'[p] : k <= n
    <3>1. \A k \in DOMAIN local[p] : k \in Nat /\ k <= frame[p]
      BY <1>5, PeerFacts DEF NoGap
    <3>2. \A k \in DOMAIN local'[p] : k \in DOMAIN local[p]
      BY <1>3 DEF rb_prune_below
    <3> QED BY <1>3, <1>5, <3>1, <3>2
  <2>2. \A k \in v..(Expected(p) - 1) : k \in DOMAIN remote'[p]
    <3>1. \A k \in v..(Expected(p) - 1) :
            k \in verified[p]..(Expected(p) - 1) /\ k >= PruneFloor(v)
      BY <1>3, <1>5
    <3>2. \A k \in v..(Expected(p) - 1) : k \in DOMAIN remote[p]
      BY <1>5, <3>1 DEF NoGap
    <3> QED BY <1>3, <3>1, <3>2 DEF rb_prune_below
  <2>3. n < MaxFrame => frame[p] < MaxFrame
    BY <1>3, <1>5
  <2> QED BY <1>3, <1>5, <1>6, <1>7, <2>1, <2>2, <2>3 DEF NoGap, InputAt
<1>9. NoGap(q)'
  <2>1. CASE chan'[q] = chan[q]
    BY <1>1, <1>3, <1>5, <1>6, <1>7, <2>1 DEF NoGap, InputAt
  <2>2. CASE chan'[q] = Append(chan[q], m)
    <3>1. PICK last \in Nat :
            /\ DOMAIN chan'[q] = DOMAIN chan[q] \union {last}
            /\ chan'[q][last] = m
            /\ \A i \in DOMAIN chan[q] :
                 i \in Nat /\ i < last /\ chan'[q][i] = chan[q][i]
      BY <1>1, <1>3, <2>2, Grows
    <3>2. \A i \in DOMAIN chan'[q] : IsInput(chan'[q][i]) =>
            i \in DOMAIN chan[q] /\ chan'[q][i] = chan[q][i]
      BY <1>4, <3>1
    <3>3. \A k : \A i \in DOMAIN chan[q] : InputAt(q, i, k) =>
            i \in DOMAIN chan'[q] /\ InputAt(q, i, k)'
      BY <3>1 DEF InputAt
    <3>4. frame[q] < MaxFrame =>
            /\ \A k \in 0..(Sent(p)' - 1) :
                 k < Expected(q) \/ \E i \in DOMAIN chan'[q] : InputAt(q, i, k)'
            /\ \A i \in DOMAIN chan'[q], k \in Nat :
                 IsInput(chan'[q][i]) /\ k < chan'[q][i].frame =>
                   \/ k < Expected(q)
                   \/ \E j \in DOMAIN chan'[q] : j < i /\ InputAt(q, j, k)'
      <4>1. NoGap(q)
        BY <1>5
      <4> QED BY <1>1, <1>7, <3>2, <3>3, <4>1 DEF NoGap
    <3> QED BY <1>1, <1>3, <1>5, <1>6, <3>4 DEF NoGap
  <2> QED BY <1>3, <2>1, <2>2
<1> QED BY <1>1, <1>8, <1>9 DEF NoGapInv

LEMMA StepNoGap ==
  ASSUME IInv, NoGapInv, [Next]_vars
  PROVE  NoGapInv'
<1>1. ASSUME NEW p \in Peers, NEW in \in Inputs, BeginTick(p, in) PROVE NoGapInv'
  BY <1>1, BeginTickNoGap
<1>2. ASSUME NEW p \in Peers, DrainInput(p) \/ DrainChecksum(p) PROVE NoGapInv'
  BY <1>2, DrainNoGap
<1>3. ASSUME NEW p \in Peers, DrainError(p) PROVE NoGapInv'
  <2>1. \A r \in Peers : pc'[r] = pc[r] \/ pc'[r] = "idle"
    BY <1>3 DEF DrainError, IInv, TypeOK
  <2> QED BY <1>3, <2>1, QuietNoGap DEF DrainError, hist, net
<1>4. ASSUME NEW p \in Peers, EndTick(p) PROVE NoGapInv'
  BY <1>4, EndTickNoGap
<1>5. CASE Close
  BY <1>5, QuietNoGap DEF Close, hist
<1>6. CASE UNCHANGED vars
  BY <1>6, QuietNoGap DEF vars, hist, net
<1> QED BY <1>1, <1>2, <1>3, <1>4, <1>5, <1>6 DEF Next

\* Whatever the interleaving of ticks and deliveries, stalls and repeated
\* sends, confirmed_ names a frame up to which every remote input not yet
\* pruned is held: tick's reconciliation, which skips a frame without one,
\* never settles a frame on a prediction.  Saves succeed.
THEOREM ConfirmedHasNoGap ==
  ASSUME ~SavesFail
  PROVE  Spec => []NoGapInv
  BY InitNoGap, StepNoGap, RollbackInvariant, PTL DEF Spec

-----------------------------------------------------------------------------
\* An input is committed once and for all: no step takes one back or changes
\* it, if the caller of a stalled tick repeats the input of its frame.
CommitsStay(p) ==
  /\ Count(p)' \in Nat /\ Count(p) <= Count(p)'
  /\ \A k \in 0..(Count(p) - 1) : InputOf(p, k)' = InputOf(p, k)

LEMMA OthersStay ==
  ASSUME IInv, UNCHANGED <<frame, local, core>>
  PROVE  \A p \in Peers : CommitsStay(p) /\ Count(p)' = Count(p)
  BY PeerFacts DEF CommitsStay, Count, InputOf

LEMMA BeginTickStays ==
  ASSUME IInv, HoldOnStall, NEW p \in Peers, NEW in \in Inputs, BeginTick(p, in)
  PROVE  /\ \A r \in Peers : CommitsStay(r)
         /\ \A k : k = frame[p] => InputOf(p, k)' = in
         /\ Count(p)' = frame[p] + 1
         /\ Count(Other(p))' = Count(Other(p))
<1> DEFINE q == Other(p)
           F == frame[p]
<1>1. q \in Peers /\ q # p /\ \A r \in Peers : r = p \/ r = q
  BY Both
<1>2. /\ frame' = frame /\ core' = core /\ MayFeed(p, in)
      /\ local'[p] = Put(local[p], F, in) /\ local'[q] = local[q]
  BY BeginTickFacts
<1>3. /\ F \in Nat /\ Count(p) \in Nat /\ Count(q) \in Nat
      /\ F \in DOMAIN local[p] => Count(p) = F + 1
      /\ F \notin DOMAIN local[p] => Count(p) = F
  BY <1>1, PeerFacts
<1>4. F \in DOMAIN local'[p] /\ local'[p][F] = in
  BY <1>2 DEF Put
<1>5. Count(p)' = F + 1 /\ Count(q)' = Count(q)
  BY <1>2, <1>4 DEF Count
<1>6. \A k : k = F => InputOf(p, k)' = in
  BY <1>2, <1>3, <1>4 DEF InputOf
<1>7. CommitsStay(p)
  <2>1. ASSUME NEW k \in 0..(Count(p) - 1) PROVE InputOf(p, k)' = InputOf(p, k)
    <3>1. CASE k < F
      BY <1>2, <3>1 DEF InputOf
    <3>2. CASE k = F
      <4>1. F \in DOMAIN local[p]
        BY <1>3, <2>1, <3>2
      <4>2. in = local[p][F]
        BY <1>2, <4>1 DEF MayFeed
      <4> QED BY <1>2, <1>3, <1>4, <3>2, <4>2 DEF InputOf
    <3> QED BY <1>3, <2>1, <3>1, <3>2
  <2> QED BY <1>3, <1>5, <2>1 DEF CommitsStay
<1>8. CommitsStay(q)
  BY <1>2, <1>3, <1>5 DEF CommitsStay, InputOf
<1> QED BY <1>1, <1>5, <1>6, <1>7, <1>8

\* A rollback replays p's own inputs as they were.
LEMMA EndTickStays ==
  ASSUME IInv, NoGapInv, NEW p \in Peers, EndTick(p)
  PROVE  \A r \in Peers : CommitsStay(r) /\ Count(r)' = Count(r)
<1> DEFINE q == Other(p)
           F == frame[p]
<1>1. q \in Peers /\ q # p /\ \A r \in Peers : r = p \/ r = q
  BY Both
<1>2. PICK n, c, v : Ticked(p, n, c, v)
  BY EndTickFacts
<1>3. /\ n \in {F, F + 1}
      /\ frame'[p] = n /\ frame'[q] = frame[q]
      /\ core'[p] = c /\ core'[q] = core[q]
      /\ v \in Nat /\ v <= F /\ pc[p] = "drain"
      /\ \A k \in 0..(F - 1) : c[k][p] = core[p][k][p]
      /\ n = F + 1 => c[F][p] = local[p][F]
      /\ local'[p] = rb_prune_below(local[p], PruneFloor(v)) /\ local'[q] = local[q]
  BY <1>2 DEF Ticked
<1>4. /\ F \in Nat /\ Count(p) \in Nat /\ Count(q) \in Nat
      /\ F \in DOMAIN local[p] /\ Count(p) = F + 1
      /\ PruneFloor(v) \in Nat /\ PruneFloor(v) <= v
  <2>1. F \in DOMAIN local[p]
    BY <1>3 DEF IInv, Bookkeeping
  <2> QED BY <1>1, <1>3, <2>1, PeerFacts, FloorBelow
<1>5. F \in DOMAIN local'[p] /\ local'[p][F] = local[p][F]
  BY <1>3, <1>4 DEF rb_prune_below
<1>6. F + 1 \notin DOMAIN local'[p]
  <2>1. \A k \in DOMAIN local[p] : k <= F
    BY DEF NoGapInv, NoGap
  <2>2. F + 1 \notin DOMAIN local[p]
    BY <1>4, <2>1
  <2> QED BY <1>3, <2>2 DEF rb_prune_below
<1>7. Count(p)' = F + 1 /\ Count(q)' = Count(q)
  BY <1>3, <1>4, <1>5, <1>6 DEF Count
<1>8. ASSUME NEW k \in 0..(Count(p) - 1) PROVE InputOf(p, k)' = InputOf(p, k)
  <2>1. CASE k < F
    <3>1. k < n /\ k \in 0..(F - 1)
      BY <1>3, <1>4, <2>1
    <3> QED BY <1>3, <2>1, <3>1 DEF InputOf
  <2>2. CASE k = F
    <3>1. InputOf(p, k) = local[p][F]
      BY <1>4, <2>2 DEF InputOf
    <3>2. CASE n = F
      BY <1>3, <1>4, <1>5, <2>2, <3>1, <3>2 DEF InputOf
    <3>3. CASE n = F + 1
      BY <1>3, <1>4, <2>2, <3>1, <3>3 DEF InputOf
    <3> QED BY <1>3, <3>2, <3>3
  <2> QED BY <1>4, <2>1, <2>2
<1>9. ASSUME NEW k \in 0..(Count(q) - 1) PROVE InputOf(q, k)' = InputOf(q, k)
  BY <1>3 DEF InputOf
<1> QED BY <1>1, <1>4, <1>7, <1>8, <1>9 DEF CommitsStay

\* What the commits keep of Agree, for what was there before the step.
LEMMA AgreeKept ==
  ASSUME IInv, AgreeInv, NEW p \in Peers, CommitsStay(Other(p))
  PROVE  LET q == Other(p) IN
         /\ \A i \in DOMAIN chan[p], k \in Nat :
              IsInput(chan[p][i]) /\ chan[p][i].frame = k =>
                k < Count(q)' /\ chan[p][i].state = InputOf(q, k)'
         /\ \A k \in DOMAIN remote[p] :
              k < Count(q)' /\ remote[p][k] = InputOf(q, k)'
         /\ \A k \in 0..(verified[p] - 1) :
              k < Count(q)' /\ core[p][k][q] = InputOf(q, k)'
<1> DEFINE q == Other(p)
<1>1. q \in Peers /\ Count(q) \in Nat /\ Agree(p)
      /\ \A k \in DOMAIN remote[p] : k \in Nat
  BY Both, PeerFacts DEF AgreeInv
<1>2. PICK n \in Nat : n = Count(q)
  BY <1>1
<1>3. PICK n1 : n1 = Count(q)'
  OBVIOUS
<1>4. /\ n <= n1 /\ n1 \in Nat
      /\ \A k \in 0..(n - 1) : InputOf(q, k)' = InputOf(q, k)
  BY <1>2, <1>3 DEF CommitsStay
<1>5. \A k \in Nat : k < n => k < n1 /\ InputOf(q, k)' = InputOf(q, k)
  BY <1>4
<1>6. \A i \in DOMAIN chan[p], k \in Nat :
        IsInput(chan[p][i]) /\ chan[p][i].frame = k =>
          k < n /\ chan[p][i].state = InputOf(q, k)
  BY <1>1, <1>2 DEF Agree
<1>7. \A k \in DOMAIN remote[p] : k < n /\ remote[p][k] = InputOf(q, k)
  BY <1>1, <1>2 DEF Agree
<1>8. \A k \in 0..(verified[p] - 1) : k < n /\ core[p][k][q] = InputOf(q, k)
  BY <1>1, <1>2 DEF Agree
<1>9. \A k \in 0..(verified[p] - 1) : k \in Nat
  BY PeerFacts
<1> QED BY <1>1, <1>3, <1>5, <1>6, <1>7, <1>8, <1>9

LEMMA InitAgree == Init => AgreeInv
<1> SUFFICES ASSUME Init, NEW p \in Peers PROVE Agree(p)
  BY DEF AgreeInv
<1>1. chan[p] = <<>> /\ remote[p] = Empty /\ verified[p] = 0 /\ DOMAIN Empty = {}
  BY DEF Init, Empty
<1>2. DOMAIN chan[p] = {}
  BY <1>1
<1> QED BY <1>1, <1>2 DEF Agree

LEMMA QuietAgree ==
  ASSUME IInv, AgreeInv,
         UNCHANGED <<frame, verified, local, remote, core, chan>>
  PROVE  AgreeInv'
  BY DEF AgreeInv, Agree, Count, InputOf

LEMMA BeginTickAgree ==
  ASSUME IInv, AgreeInv, HoldOnStall,
         NEW p \in Peers, NEW in \in Inputs, BeginTick(p, in)
  PROVE  AgreeInv'
<1> DEFINE q == Other(p)
           m == InputMsg(frame[p], in)
<1>1. q \in Peers /\ q # p /\ Other(q) = p /\ \A r \in Peers : r = p \/ r = q
  BY Both
<1>2. /\ UNCHANGED <<frame, verified, remote, core>>
      /\ chan'[p] = chan[p] /\ m \in Messages
      /\ chan'[q] = chan[q] \/ chan'[q] = Append(chan[q], m)
  BY BeginTickFacts
<1>3. /\ CommitsStay(p) /\ CommitsStay(q) /\ frame[p] \in Nat
      /\ \A k : k = frame[p] => InputOf(p, k)' = in
      /\ Count(p)' = frame[p] + 1
  BY <1>1, BeginTickStays, PeerFacts
<1>4. Agree(p)'
  BY <1>1, <1>2, <1>3, AgreeKept DEF Agree
<1>5. \A i \in DOMAIN chan'[q], k \in Nat :
        IsInput(chan'[q][i]) /\ chan'[q][i].frame = k =>
          k < Count(p)' /\ chan'[q][i].state = InputOf(p, k)'
  <2>1. \A i \in DOMAIN chan[q], k \in Nat :
          IsInput(chan[q][i]) /\ chan[q][i].frame = k =>
            k < Count(p)' /\ chan[q][i].state = InputOf(p, k)'
    BY <1>1, <1>3, AgreeKept
  <2>2. CASE chan'[q] = chan[q]
    BY <2>1, <2>2
  <2>3. CASE chan'[q] = Append(chan[q], m)
    <3>1. PICK last \in Nat :
            /\ DOMAIN chan'[q] = DOMAIN chan[q] \union {last}
            /\ chan'[q][last] = m
            /\ \A i \in DOMAIN chan[q] : chan'[q][i] = chan[q][i]
      BY <1>1, <1>2, <2>3, Grows
    <3>2. m.frame = frame[p] /\ m.state = in
      BY DEF InputMsg
    <3>3. \A k \in Nat : m.frame = k =>
            k < Count(p)' /\ m.state = InputOf(p, k)'
      BY <1>3, <3>2
    <3> HIDE DEF m
    <3> QED BY <2>1, <3>1, <3>3
  <2> QED BY <1>2, <2>2, <2>3
<1>6. Agree(q)'
  <2>1. /\ \A k \in DOMAIN remote[q] :
             k < Count(p)' /\ remote[q][k] = InputOf(p, k)'
        /\ \A k \in 0..(verified[q] - 1) :
             k < Count(p)' /\ core[q][k][p] = InputOf(p, k)'
    BY <1>1, <1>3, AgreeKept
  <2> QED BY <1>1, <1>2, <1>5, <2>1 DEF Agree
<1> QED BY <1>1, <1>4, <1>6 DEF AgreeInv

LEMMA DrainAgree ==
  ASSUME IInv, AgreeInv, NEW p \in Peers, DrainInput(p) \/ DrainChecksum(p)
  PROVE  AgreeInv'
<1> DEFINE q == Other(p)
           m == Head(chan[p])
<1>1. q \in Peers /\ q # p /\ Other(q) = p /\ \A r \in Peers : r = p \/ r = q
  BY Both
<1>2. /\ UNCHANGED <<frame, verified, local, core>>
      /\ m.frame \in Nat /\ 1 \in DOMAIN chan[p] /\ m = chan[p][1]
      /\ chan'[q] = chan[q]
      /\ \A i \in DOMAIN chan'[p] :
           i + 1 \in DOMAIN chan[p] /\ chan'[p][i] = chan[p][i + 1]
  BY DrainFacts
<1>3. CommitsStay(p) /\ CommitsStay(q)
  BY <1>1, <1>2, OthersStay
<1>4. /\ \A i \in DOMAIN chan[p], k \in Nat :
           IsInput(chan[p][i]) /\ chan[p][i].frame = k =>
             k < Count(q)' /\ chan[p][i].state = InputOf(q, k)'
      /\ \A k \in DOMAIN remote[p] :
           k < Count(q)' /\ remote[p][k] = InputOf(q, k)'
      /\ \A k \in 0..(verified[p] - 1) :
           k < Count(q)' /\ core[p][k][q] = InputOf(q, k)'
  BY <1>3, AgreeKept
<1>5. /\ remote'[q] = remote[q]
      /\ \/ remote'[p] = remote[p]
         \/ IsInput(m) /\ remote'[p] = Put(remote[p], m.frame, m.state)
  <2>1. CASE DrainInput(p)
    BY <2>1, DrainInputFacts
  <2>2. CASE DrainChecksum(p)
    BY <2>2 DEF DrainChecksum
  <2> QED BY <2>1, <2>2
<1> HIDE DEF m
<1>6. \A k \in DOMAIN remote'[p] : k < Count(q)' /\ remote'[p][k] = InputOf(q, k)'
  <2>1. CASE remote'[p] = remote[p]
    BY <1>4, <2>1
  <2>2. CASE IsInput(m) /\ remote'[p] = Put(remote[p], m.frame, m.state)
    <3>1. /\ DOMAIN remote'[p] = DOMAIN remote[p] \union {m.frame}
          /\ remote'[p][m.frame] = m.state
          /\ \A k \in DOMAIN remote[p] : k # m.frame => remote'[p][k] = remote[p][k]
      BY <2>2 DEF Put
    <3>2. \A k \in Nat : k = m.frame => k < Count(q)' /\ m.state = InputOf(q, k)'
      BY <1>2, <1>4, <2>2
    <3> QED BY <1>2, <1>4, <3>1, <3>2
  <2> QED BY <1>5, <2>1, <2>2
<1>7. Agree(p)'
  <2>1. \A i \in DOMAIN chan'[p], k \in Nat :
          IsInput(chan'[p][i]) /\ chan'[p][i].frame = k =>
            k < Count(q)' /\ chan'[p][i].state = InputOf(q, k)'
    BY <1>2, <1>4
  <2> QED BY <1>2, <1>4, <1>6, <2>1 DEF Agree
<1>8. Agree(q)'
  <2>1. /\ \A i \in DOMAIN chan[q], k \in Nat :
             IsInput(chan[q][i]) /\ chan[q][i].frame = k =>
               k < Count(p)' /\ chan[q][i].state = InputOf(p, k)'
        /\ \A k \in DOMAIN remote[q] :
             k < Count(p)' /\ remote[q][k] = InputOf(p, k)'
        /\ \A k \in 0..(verified[q] - 1) :
             k < Count(p)' /\ core[q][k][p] = InputOf(p, k)'
    BY <1>1, <1>3, AgreeKept
  <2> QED BY <1>1, <1>2, <1>5, <2>1 DEF Agree
<1> QED BY <1>1, <1>7, <1>8 DEF AgreeInv

\* The frames a tick settles are settled on the other side's inputs.
LEMMA EndTickAgree ==
  ASSUME IInv, NoGapInv, AgreeInv, NEW p \in Peers, EndTick(p)
  PROVE  AgreeInv'
<1> DEFINE q == Other(p)
<1>1. q \in Peers /\ q # p /\ Other(q) = p /\ \A r \in Peers : r = p \/ r = q
  BY Both
<1>2. PICK n, c, v : Ticked(p, n, c, v)
  BY EndTickFacts
<1> DEFINE m == ChecksumMsg(v, Take(c, v))
<1>3. /\ core'[p] = c /\ core'[q] = core[q]
      /\ verified'[p] = v /\ verified'[q] = verified[q]
      /\ v \in Nat /\ verified[p] <= v
      /\ \A k \in 0..(verified[p] - 1) : c[k] = core[p][k]
      /\ \A k \in verified[p]..(v - 1) :
           /\ k < Expected(p)
           /\ k \in DOMAIN remote[p] => c[k][q] = remote[p][k]
      /\ remote'[p] = rb_prune_below(remote[p], PruneFloor(v))
      /\ remote'[q] = remote[q]
      /\ chan'[p] = chan[p] /\ m \in Messages
      /\ chan'[q] = chan[q] \/ chan'[q] = Append(chan[q], m)
  BY <1>2 DEF Ticked
<1>4. ~IsInput(m)
  BY DEF m, ChecksumMsg, IsInput
<1> HIDE DEF m
<1>5. /\ CommitsStay(p) /\ CommitsStay(q)
  BY <1>1, EndTickStays
<1>6. /\ \A i \in DOMAIN chan[p], k \in Nat :
           IsInput(chan[p][i]) /\ chan[p][i].frame = k =>
             k < Count(q)' /\ chan[p][i].state = InputOf(q, k)'
      /\ \A k \in DOMAIN remote[p] :
           k < Count(q)' /\ remote[p][k] = InputOf(q, k)'
      /\ \A k \in 0..(verified[p] - 1) :
           k < Count(q)' /\ core[p][k][q] = InputOf(q, k)'
  BY <1>5, AgreeKept
<1>7. \A k \in 0..(v - 1) : k < Count(q)' /\ c[k][q] = InputOf(q, k)'
  <2>1. verified[p] \in Nat /\ Expected(p) \in Nat
    BY PeerFacts
  <2>2. ASSUME NEW k \in verified[p]..(v - 1)
        PROVE  k < Count(q)' /\ c[k][q] = InputOf(q, k)'
    <3>1. k \in verified[p]..(Expected(p) - 1)
      BY <1>3, <2>1, <2>2
    <3>2. k \in DOMAIN remote[p]
      BY <3>1 DEF NoGapInv, NoGap
    <3> QED BY <1>3, <1>6, <2>2, <3>2
  <2>3. \A k \in 0..(v - 1) : k \in 0..(verified[p] - 1) \/ k \in verified[p]..(v - 1)
    BY <1>3, <2>1
  <2> QED BY <1>3, <1>6, <2>2, <2>3
<1>8. Agree(p)'
  <2>1. \A k \in DOMAIN remote'[p] :
          k < Count(q)' /\ remote'[p][k] = InputOf(q, k)'
    BY <1>3, <1>6 DEF rb_prune_below
  <2> QED BY <1>3, <1>6, <1>7, <2>1 DEF Agree
<1>9. Agree(q)'
  <2>1. /\ \A i \in DOMAIN chan[q], k \in Nat :
             IsInput(chan[q][i]) /\ chan[q][i].frame = k =>
               k < Count(p)' /\ chan[q][i].state = InputOf(p, k)'
        /\ \A k \in DOMAIN remote[q] :
             k < Count(p)' /\ remote[q][k] = InputOf(p, k)'
        /\ \A k \in 0..(verified[q] - 1) :
             k < Count(p)' /\ core[q][k][p] = InputOf(p, k)'
    BY <1>1, <1>5, AgreeKept
  <2>2. \A i \in DOMAIN chan'[q] : IsInput(chan'[q][i]) =>
          i \in DOMAIN chan[q] /\ chan'[q][i] = chan[q][i]
    <3>1. CASE chan'[q] = chan[q]
      BY <3>1
    <3>2. CASE chan'[q] = Append(chan[q], m)
      BY <1>1, <1>3, <1>4, <3>2, Grows
    <3> QED BY <1>3, <3>1, <3>2
  <2>3. \A i \in DOMAIN chan'[q], k \in Nat :
          IsInput(chan'[q][i]) /\ chan'[q][i].frame = k =>
            k < Count(p)' /\ chan'[q][i].state = InputOf(p, k)'
    BY <2>1, <2>2
  <2> QED BY <1>1, <1>3, <2>1, <2>3 DEF Agree
<1> QED BY <1>1, <1>8, <1>9 DEF AgreeInv

LEMMA StepAgree ==
  ASSUME IInv, NoGapInv, AgreeInv, HoldOnStall, [Next]_vars
  PROVE  AgreeInv'
<1>1. ASSUME NEW p \in Peers, NEW in \in Inputs, BeginTick(p, in) PROVE AgreeInv'
  BY <1>1, BeginTickAgree
<1>2. ASSUME NEW p \in Peers, DrainInput(p) \/ DrainChecksum(p) PROVE AgreeInv'
  BY <1>2, DrainAgree
<1>3. ASSUME NEW p \in Peers, DrainError(p) PROVE AgreeInv'
  BY <1>3, QuietAgree DEF DrainError, hist, net
<1>4. ASSUME NEW p \in Peers, EndTick(p) PROVE AgreeInv'
  BY <1>4, EndTickAgree
<1>5. CASE Close
  BY <1>5, QuietAgree DEF Close, hist
<1>6. CASE UNCHANGED vars
  BY <1>6, QuietAgree DEF vars, hist, net
<1> QED BY <1>1, <1>2, <1>3, <1>4, <1>5, <1>6 DEF Next

\* Where both sides have verified a frame, both fed it the same pair.
LEMMA SameVerified ==
  ASSUME IInv, AgreeInv, NEW p \in Peers, NEW k \in Nat,
         k < verified[p], k < verified[Other(p)]
  PROVE  core[p][k] = core[Other(p)][k]
<1> DEFINE q == Other(p)
<1>1. q \in Peers /\ q # p /\ Other(q) = p /\ \A r \in Peers : r = p \/ r = q
  BY Both
<1>2. /\ verified[p] \in Nat /\ verified[p] <= frame[p] /\ frame[p] \in Nat
      /\ verified[q] \in Nat /\ verified[q] <= frame[q] /\ frame[q] \in Nat
      /\ core[p] \in [0..(frame[p] - 1) -> Pairs]
      /\ core[q] \in [0..(frame[q] - 1) -> Pairs]
  BY <1>1, PeerFacts
<1>3. /\ k \in 0..(verified[p] - 1) /\ k \in 0..(verified[q] - 1)
      /\ k < frame[p] /\ k < frame[q]
      /\ k \in 0..(frame[p] - 1) /\ k \in 0..(frame[q] - 1)
  BY <1>2
<1>4. core[p][k][q] = InputOf(q, k) /\ core[q][k][p] = InputOf(p, k)
  BY <1>1, <1>3 DEF AgreeInv, Agree
<1>5. core[p][k][q] = core[q][k][q] /\ core[q][k][p] = core[p][k][p]
  BY <1>3, <1>4 DEF InputOf
<1>6. core[p][k] \in [Peers -> Inputs] /\ core[q][k] \in [Peers -> Inputs]
  BY <1>2, <1>3 DEF Pairs
<1> QED BY <1>1, <1>5, <1>6

\* A caller that repeats the input of a stalled frame, and saves that succeed:
\* received, travelling and settled inputs are the committed ones.
LEMMA AlwaysAgree ==
  ASSUME HoldOnStall, ~SavesFail
  PROVE  Spec => []AgreeInv
  BY InitAgree, StepAgree, RollbackInvariant, ConfirmedHasNoGap, PTL DEF Spec

\* Confirmed states converge: whatever was predicted and rolled back, both
\* cores were fed the same inputs on the frames both sides have verified, for
\* every prediction window, delivery pattern and length of game, if the caller
\* repeats the input of a stalled frame (the run rollback_retick shows that it
\* has to) and every save succeeds.
THEOREM VerifiedStatesConverge ==
  ASSUME HoldOnStall, ~SavesFail
  PROVE  Spec => []Convergence
<1>1. IInv /\ AgreeInv => Convergence
  <2> SUFFICES ASSUME IInv, AgreeInv, NEW k \in 0..(MaxFrame - 1),
                      \A p \in Peers : k < verified[p]
               PROVE  core["host"][k] = core["join"][k]
    BY DEF Convergence
  <2>1. "host" \in Peers /\ Other("host") = "join" /\ "join" \in Peers /\ k \in Nat
    BY MaxFrameAssumption DEF Peers, Other
  <2> QED BY <2>1, SameVerified
<1> QED BY <1>1, AlwaysAgree, RollbackInvariant, PTL

-----------------------------------------------------------------------------
\* A settled state stays settled, so its checksum stays right.
SettledStays(p) ==
  /\ verified'[p] \in Nat /\ verified[p] <= verified'[p]
  /\ \A k \in 0..(verified[p] - 1) : core'[p][k] = core[p][k]

LEMMA SumStays ==
  ASSUME IInv, NEW p \in Peers, SettledStays(p)
  PROVE  \A s : \A f \in Nat : IsSumOf(p, f, s) => IsSumOf(p, f, s)'
<1> SUFFICES ASSUME NEW f \in Nat, NEW s, IsSumOf(p, f, s) PROVE IsSumOf(p, f, s)'
  OBVIOUS
<1>1. verified[p] \in Nat
  BY PeerFacts
<1>2. f <= verified[p] /\ s = Take(core[p], f)
  BY DEF IsSumOf
<1>3. \A k \in 0..(f - 1) : core'[p][k] = core[p][k]
  BY <1>1, <1>2 DEF SettledStays
<1>4. Take(core'[p], f) = Take(core[p], f)
  BY <1>3 DEF Take
<1>5. f <= verified'[p]
  BY <1>1, <1>2 DEF SettledStays
<1> QED BY <1>2, <1>4, <1>5 DEF IsSumOf, Take

\* What a step keeps of Sums, for the checksums that were there before.
LEMMA SumsKept ==
  ASSUME IInv, SumsInv, NEW p \in Peers, SettledStays(p), SettledStays(Other(p))
  PROVE  LET q == Other(p) IN
         /\ \A f \in DOMAIN own_crc[p] : \A s :
              s = own_crc[p][f] => IsSumOf(p, f, s)'
         /\ \A f \in DOMAIN peer_crc[p] : \A s :
              s = peer_crc[p][f] => IsSumOf(q, f, s)'
         /\ \A i \in DOMAIN chan[p], f \in Nat : \A s :
              ~IsInput(chan[p][i]) /\ chan[p][i].frame = f /\ s = chan[p][i].crc
                => IsSumOf(q, f, s)'
<1> DEFINE q == Other(p)
<1>1. q \in Peers /\ Sums(p)
  BY Both DEF SumsInv
<1>2. /\ \A s : \A f \in Nat : IsSumOf(p, f, s) => IsSumOf(p, f, s)'
      /\ \A f \in Nat : \A s : IsSumOf(q, f, s) => IsSumOf(q, f, s)'
  BY <1>1, SumStays
<1>3. /\ \A f \in DOMAIN own_crc[p] : f \in Nat
      /\ \A f \in DOMAIN peer_crc[p] : f \in Nat
  BY MaxFrameAssumption DEF IInv, TypeOK, IsStateMap, Frames
<1>4. /\ \A f \in DOMAIN own_crc[p] : IsSumOf(p, f, own_crc[p][f])
      /\ \A f \in DOMAIN peer_crc[p] : IsSumOf(q, f, peer_crc[p][f])
      /\ \A i \in DOMAIN chan[p], f \in Nat :
           ~IsInput(chan[p][i]) /\ chan[p][i].frame = f =>
             IsSumOf(q, f, chan[p][i].crc)
  BY <1>1 DEF Sums
<1>5. \A f \in DOMAIN own_crc[p] : \A s : s = own_crc[p][f] => IsSumOf(p, f, s)'
  BY <1>2, <1>3, <1>4
<1>6. \A f \in DOMAIN peer_crc[p] : \A s : s = peer_crc[p][f] => IsSumOf(q, f, s)'
  BY <1>2, <1>3, <1>4
<1>7. \A i \in DOMAIN chan[p], f \in Nat : \A s :
        ~IsInput(chan[p][i]) /\ chan[p][i].frame = f /\ s = chan[p][i].crc
          => IsSumOf(q, f, s)'
  BY <1>2, <1>4
<1> QED BY <1>5, <1>6, <1>7

LEMMA InitSums == Init => SumsInv
<1> SUFFICES ASSUME Init, NEW p \in Peers PROVE Sums(p)
  BY DEF SumsInv
<1>1. chan[p] = <<>> /\ own_crc[p] = Empty /\ peer_crc[p] = Empty /\ DOMAIN Empty = {}
  BY DEF Init, Empty
<1>2. DOMAIN chan[p] = {}
  BY <1>1
<1> QED BY <1>1, <1>2 DEF Sums

LEMMA QuietSums ==
  ASSUME IInv, SumsInv, UNCHANGED <<verified, own_crc, peer_crc, core, chan>>
  PROVE  SumsInv'
  BY DEF SumsInv, Sums, IsSumOf, Take

LEMMA BeginTickSums ==
  ASSUME IInv, SumsInv, NEW p \in Peers, NEW in \in Inputs, BeginTick(p, in)
  PROVE  SumsInv'
<1> DEFINE q == Other(p)
           m == InputMsg(frame[p], in)
<1>1. q \in Peers /\ q # p /\ Other(q) = p /\ \A r \in Peers : r = p \/ r = q
  BY Both
<1>2. /\ UNCHANGED <<verified, own_crc, peer_crc, core>>
      /\ chan'[p] = chan[p] /\ m \in Messages
      /\ chan'[q] = chan[q] \/ chan'[q] = Append(chan[q], m)
  BY BeginTickFacts
<1>3. IsInput(m) /\ Sums(p) /\ Sums(q)
  BY <1>1 DEF InputMsg, IsInput, SumsInv
<1> HIDE DEF m
<1>4. \A i \in DOMAIN chan'[q] : ~IsInput(chan'[q][i]) =>
        i \in DOMAIN chan[q] /\ chan'[q][i] = chan[q][i]
  <2>1. CASE chan'[q] = chan[q]
    BY <2>1
  <2>2. CASE chan'[q] = Append(chan[q], m)
    BY <1>1, <1>2, <1>3, <2>2, Grows
  <2> QED BY <1>2, <2>1, <2>2
<1>5. Sums(p)'
  BY <1>2, <1>3 DEF Sums, IsSumOf, Take
<1>6. Sums(q)'
  BY <1>2, <1>3, <1>4 DEF Sums, IsSumOf, Take
<1> QED BY <1>1, <1>5, <1>6 DEF SumsInv

LEMMA DrainSums ==
  ASSUME IInv, SumsInv, NEW p \in Peers, DrainInput(p) \/ DrainChecksum(p)
  PROVE  SumsInv'
<1> DEFINE q == Other(p)
           m == Head(chan[p])
<1>1. q \in Peers /\ q # p /\ Other(q) = p /\ \A r \in Peers : r = p \/ r = q
  BY Both
<1>2. /\ UNCHANGED <<verified, own_crc, core>>
      /\ m.frame \in Nat /\ 1 \in DOMAIN chan[p] /\ m = chan[p][1]
      /\ chan'[q] = chan[q]
      /\ \A i \in DOMAIN chan'[p] :
           i + 1 \in DOMAIN chan[p] /\ chan'[p][i] = chan[p][i + 1]
  BY DrainFacts
<1>3. Sums(p) /\ Sums(q)
  BY <1>1 DEF SumsInv
<1>4. /\ peer_crc'[q] = peer_crc[q]
      /\ \/ peer_crc'[p] = peer_crc[p]
         \/ ~IsInput(m) /\ peer_crc'[p] = Put(peer_crc[p], m.frame, m.crc)
  <2>1. CASE DrainInput(p)
    BY <2>1 DEF DrainInput
  <2>2. CASE DrainChecksum(p)
    <3>1. /\ m.type = "Checksum"
          /\ peer_crc' = [peer_crc EXCEPT ![p] = Put(@, m.frame, m.crc)]
      BY <2>2 DEF DrainChecksum
    <3> HIDE DEF m
    <3>2. /\ peer_crc'[q] = peer_crc[q]
          /\ peer_crc'[p] = Put(peer_crc[p], m.frame, m.crc)
      BY <1>1, <3>1 DEF IInv, TypeOK, IsPerPeer
    <3> QED BY <3>1, <3>2 DEF IsInput
  <2> QED BY <2>1, <2>2
<1> HIDE DEF m
<1>5. \A f \in DOMAIN peer_crc'[p] : IsSumOf(q, f, peer_crc'[p][f])
  <2>1. CASE peer_crc'[p] = peer_crc[p]
    BY <1>3, <2>1 DEF Sums
  <2>2. CASE ~IsInput(m) /\ peer_crc'[p] = Put(peer_crc[p], m.frame, m.crc)
    <3>1. /\ DOMAIN peer_crc'[p] = DOMAIN peer_crc[p] \union {m.frame}
          /\ peer_crc'[p][m.frame] = m.crc
          /\ \A k \in DOMAIN peer_crc[p] :
               k # m.frame => peer_crc'[p][k] = peer_crc[p][k]
      BY <2>2 DEF Put
    <3>2. IsSumOf(q, m.frame, m.crc)
      BY <1>2, <1>3, <2>2 DEF Sums
    <3>3. ASSUME NEW f \in DOMAIN peer_crc'[p]
          PROVE  IsSumOf(q, f, peer_crc'[p][f])
      <4>1. CASE f = m.frame
        BY <3>1, <3>2, <4>1
      <4>2. CASE f # m.frame
        BY <1>3, <3>1, <3>3, <4>2 DEF Sums
      <4> QED BY <4>1, <4>2
    <3> QED BY <3>3
  <2> QED BY <1>4, <2>1, <2>2
<1>6. \A i \in DOMAIN chan'[p], f \in Nat :
        ~IsInput(chan'[p][i]) /\ chan'[p][i].frame = f =>
          IsSumOf(q, f, chan'[p][i].crc)
  BY <1>2, <1>3 DEF Sums
<1>7. Sums(p)'
  <2>1. \A f \in DOMAIN own_crc[p] : IsSumOf(p, f, own_crc[p][f])
    BY <1>3 DEF Sums
  <2> QED BY <1>2, <1>5, <1>6, <2>1 DEF Sums, IsSumOf, Take
<1>8. Sums(q)'
  BY <1>1, <1>2, <1>3, <1>4 DEF Sums, IsSumOf, Take
<1> QED BY <1>1, <1>7, <1>8 DEF SumsInv

LEMMA EndTickSums ==
  ASSUME IInv, SumsInv, NEW p \in Peers, EndTick(p)
  PROVE  SumsInv'
<1> DEFINE q == Other(p)
<1>1. q \in Peers /\ q # p /\ Other(q) = p /\ \A r \in Peers : r = p \/ r = q
  BY Both
<1>2. PICK n, c, v : Ticked(p, n, c, v)
  BY EndTickFacts
<1>t. PICK t : t = Take(c, v)
  OBVIOUS
<1>m. PICK m : m = ChecksumMsg(v, t)
  OBVIOUS
<1>3. /\ core'[p] = c /\ core'[q] = core[q]
      /\ verified'[p] = v /\ verified'[q] = verified[q]
      /\ v \in Nat /\ verified[p] <= v
      /\ \A k \in 0..(verified[p] - 1) : c[k] = core[p][k]
      /\ peer_crc' = peer_crc /\ own_crc'[q] = own_crc[q]
      /\ own_crc'[p] = own_crc[p] \/ own_crc'[p] = Put(own_crc[p], v, t)
      /\ chan'[p] = chan[p] /\ m \in Messages
      /\ chan'[q] = chan[q] \/ chan'[q] = Append(chan[q], m)
  BY <1>2, <1>t, <1>m DEF Ticked
<1>4. m.frame = v /\ m.crc = t /\ ~IsInput(m)
  BY <1>m DEF ChecksumMsg, IsInput
<1>5. SettledStays(p) /\ SettledStays(q)
  <2>1. verified[q] \in Nat
    BY <1>1, PeerFacts
  <2> QED BY <1>3, <2>1 DEF SettledStays
<1>6. IsSumOf(p, v, t)'
  BY <1>t, <1>3 DEF IsSumOf, Take
<1>7. /\ \A f \in DOMAIN own_crc[p] : \A s : s = own_crc[p][f] => IsSumOf(p, f, s)'
      /\ \A f \in DOMAIN peer_crc[p] : \A s : s = peer_crc[p][f] => IsSumOf(q, f, s)'
      /\ \A i \in DOMAIN chan[p], f \in Nat : \A s :
           ~IsInput(chan[p][i]) /\ chan[p][i].frame = f /\ s = chan[p][i].crc
             => IsSumOf(q, f, s)'
      /\ \A f \in DOMAIN own_crc[q] : \A s : s = own_crc[q][f] => IsSumOf(q, f, s)'
      /\ \A f \in DOMAIN peer_crc[q] : \A s : s = peer_crc[q][f] => IsSumOf(p, f, s)'
      /\ \A i \in DOMAIN chan[q], f \in Nat : \A s :
           ~IsInput(chan[q][i]) /\ chan[q][i].frame = f /\ s = chan[q][i].crc
             => IsSumOf(p, f, s)'
  BY <1>1, <1>5, SumsKept
<1>8. \A f \in DOMAIN own_crc'[p] : \A s : s = own_crc'[p][f] => IsSumOf(p, f, s)'
  <2>1. CASE own_crc'[p] = own_crc[p]
    BY <1>7, <2>1
  <2>2. CASE own_crc'[p] = Put(own_crc[p], v, t)
    <3>1. /\ DOMAIN own_crc'[p] = DOMAIN own_crc[p] \union {v}
          /\ own_crc'[p][v] = t
          /\ \A k \in DOMAIN own_crc[p] : k # v => own_crc'[p][k] = own_crc[p][k]
      BY <2>2 DEF Put
    <3> QED BY <1>6, <1>7, <3>1
  <2> QED BY <1>3, <2>1, <2>2
<1>9. \A i \in DOMAIN chan'[q], f \in Nat : \A s :
        ~IsInput(chan'[q][i]) /\ chan'[q][i].frame = f /\ s = chan'[q][i].crc
          => IsSumOf(p, f, s)'
  <2>1. CASE chan'[q] = chan[q]
    BY <1>7, <2>1
  <2>2. CASE chan'[q] = Append(chan[q], m)
    <3>1. PICK last \in Nat :
            /\ DOMAIN chan'[q] = DOMAIN chan[q] \union {last}
            /\ chan'[q][last] = m
            /\ \A i \in DOMAIN chan[q] : chan'[q][i] = chan[q][i]
      BY <1>1, <1>3, <2>2, Grows
    <3> QED BY <1>4, <1>6, <1>7, <3>1
  <2> QED BY <1>3, <2>1, <2>2
<1>10. Sums(p)'
  BY <1>3, <1>7, <1>8 DEF Sums, IsSumOf
<1>11. Sums(q)'
  BY <1>1, <1>3, <1>7, <1>9 DEF Sums, IsSumOf
<1> QED BY <1>1, <1>10, <1>11 DEF SumsInv

LEMMA StepSums ==
  ASSUME IInv, SumsInv, [Next]_vars
  PROVE  SumsInv'
<1>1. ASSUME NEW p \in Peers, NEW in \in Inputs, BeginTick(p, in) PROVE SumsInv'
  BY <1>1, BeginTickSums
<1>2. ASSUME NEW p \in Peers, DrainInput(p) \/ DrainChecksum(p) PROVE SumsInv'
  BY <1>2, DrainSums
<1>3. ASSUME NEW p \in Peers, DrainError(p) PROVE SumsInv'
  BY <1>3, QuietSums DEF DrainError, hist, net
<1>4. ASSUME NEW p \in Peers, EndTick(p) PROVE SumsInv'
  BY <1>4, EndTickSums
<1>5. CASE Close
  BY <1>5, QuietSums DEF Close, hist
<1>6. CASE UNCHANGED vars
  BY <1>6, QuietSums DEF vars, hist, net
<1> QED BY <1>1, <1>2, <1>3, <1>4, <1>5, <1>6 DEF Next

\* No predicted frame is ever checksummed: every checksum kept or sent is that
\* of a state its owner has verified and will not roll back, when every save
\* succeeds.
THEOREM OnlyVerifiedSums ==
  ASSUME ~SavesFail
  PROVE  Spec => []SumsInv
  BY InitSums, StepSums, RollbackInvariant, PTL DEF Spec

\* Two peers that are fed the same inputs, and whose saves succeed, never see a
\* mismatch of checksums.
THEOREM EqualGamesNeverDesync ==
  ASSUME HoldOnStall, ~SavesFail
  PROVE  Spec => []NoFalseDesync
<1>1. IInv /\ AgreeInv /\ SumsInv => NoFalseDesync
  <2> SUFFICES ASSUME IInv, AgreeInv, SumsInv, NEW p \in Peers,
                      NEW f \in DOMAIN own_crc[p] \intersect DOMAIN peer_crc[p]
               PROVE  own_crc[p][f] = peer_crc[p][f]
    BY DEF NoFalseDesync, Mismatch
  <2>1. /\ Other(p) \in Peers /\ verified[p] \in Nat /\ verified[Other(p)] \in Nat
    BY Both, PeerFacts
  <2>2. f \in Nat
    BY MaxFrameAssumption DEF IInv, TypeOK, IsStateMap, Frames
  <2>3. IsSumOf(p, f, own_crc[p][f]) /\ IsSumOf(Other(p), f, peer_crc[p][f])
    BY DEF SumsInv, Sums
  <2>4. /\ f <= verified[p] /\ f <= verified[Other(p)]
        /\ own_crc[p][f] = Take(core[p], f)
        /\ peer_crc[p][f] = Take(core[Other(p)], f)
    BY <2>3 DEF IsSumOf
  <2>5. \A k \in 0..(f - 1) :
          k \in Nat /\ k < verified[p] /\ k < verified[Other(p)]
    BY <2>1, <2>2, <2>4
  <2>6. \A k \in 0..(f - 1) : core[p][k] = core[Other(p)][k]
    BY <2>5, SameVerified
  <2>7. Take(core[p], f) = Take(core[Other(p)], f)
    BY <2>6 DEF Take
  <2> QED BY <2>4, <2>7
<1> QED BY <1>1, AlwaysAgree, OnlyVerifiedSums, RollbackInvariant, PTL

-----------------------------------------------------------------------------
(* Refinement of Lockstep: BeginTick commits, EndTick settles.              *)

LEMMA CommittedIs ==
  ASSUME NEW p \in Peers
  PROVE  /\ Committed(p) = [k \in 0..(Count(p) - 1) |-> InputOf(p, k)]
         /\ Committed(p)' = [k \in 0..(Count(p)' - 1) |-> InputOf(p, k)']
  BY DEF Committed, Count, InputOf

LEMMA CommittedKept ==
  ASSUME NEW p \in Peers, CommitsStay(p), Count(p)' = Count(p)
  PROVE  Committed(p)' = Committed(p)
<1>1. PICK n : n = Count(p)
  OBVIOUS
<1>2. \A k \in 0..(n - 1) : InputOf(p, k)' = InputOf(p, k)
  BY <1>1 DEF CommitsStay
<1>3. /\ Committed(p) = [k \in 0..(n - 1) |-> InputOf(p, k)]
      /\ Committed(p)' = [k \in 0..(n - 1) |-> InputOf(p, k)']
  BY <1>1, CommittedIs
<1> QED BY <1>2, <1>3

\* A history of n frames has length n.
LEMMA LengthIs ==
  ASSUME NEW n \in Nat, NEW m, DOMAIN m = 0..(n - 1)
  PROVE  Abstract!Length(m) = n
<1>1. CASE n = 0
  BY <1>1 DEF Abstract!Length
<1>2. CASE n # 0
  <2>1. n - 1 \in DOMAIN m /\ \A k \in DOMAIN m : k <= n - 1
    BY <1>2
  <2>2. ASSUME NEW f \in DOMAIN m, \A k \in DOMAIN m : k <= f
        PROVE  f = n - 1
    <3>1. f \in 0..(n - 1) /\ n - 1 <= f
      BY <2>1, <2>2
    <3> QED BY <3>1
  <2> DEFINE max == CHOOSE f \in DOMAIN m : \A k \in DOMAIN m : k <= f
  <2>3. max \in DOMAIN m /\ \A k \in DOMAIN m : k <= max
    BY <2>1
  <2>4. Abstract!Length(m) = 1 + max
    BY <2>1 DEF Abstract!Length
  <2> HIDE DEF max
  <2>5. max = n - 1
    BY <2>2, <2>3
  <2> QED BY <2>4, <2>5
<1> QED BY <1>1, <1>2

LEMMA InitRefines == Init => Abstract!LockstepInit
<1> SUFFICES ASSUME Init PROVE Abstract!LockstepInit
  OBVIOUS
<1>1. ASSUME NEW p \in Peers
      PROVE  /\ Committed(p) = [f \in 0..(0 - 1) |-> Neutral]
             /\ Take(core[p], verified[p]) = Abstract!Empty
  <2>1. /\ local[p] = Empty /\ frame[p] = 0 /\ verified[p] = 0
        /\ DOMAIN Empty = {}
    BY DEF Init, Empty
  <2>2. Count(p) = 0 /\ 0..(0 - 1) = {}
    BY <2>1 DEF Count
  <2>3. Committed(p) = [f \in 0..(0 - 1) |-> Neutral]
    BY <2>2, CommittedIs
  <2> QED BY <2>1, <2>2, <2>3 DEF Take, Abstract!Empty
<1> QED BY <1>1 DEF Abstract!LockstepInit, Abstract!Peers, Peers

\* A first BeginTick of a frame commits an input, a repeated one nothing.
LEMMA BeginTickRefines ==
  ASSUME IInv, HoldOnStall, NEW p \in Peers, NEW in \in Inputs, BeginTick(p, in)
  PROVE  [Abstract!LockstepNext]_(Abstract!lockstep)
<1> DEFINE q == Other(p)
           game == [r \in Peers |-> Take(core[r], verified[r])]
<1>1. q \in Peers /\ q # p /\ \A r \in Peers : r = p \/ r = q
  BY Both
<1>2. PICK F \in Nat : F = frame[p]
  BY PeerFacts
<1>3. /\ CommitsStay(p) /\ CommitsStay(q)
      /\ Count(p)' = F + 1 /\ Count(q)' = Count(q)
      /\ \A k \in Nat : k = F => InputOf(p, k)' = in
  BY <1>1, <1>2, BeginTickStays
<1>4. PICK n : n = Count(p)
  OBVIOUS
<1>5. n \in Nat /\ (n = F \/ n = F + 1)
  BY <1>2, <1>4, PeerFacts
<1>6. game' = game
  <2>1. UNCHANGED <<core, verified>>
    BY BeginTickFacts
  <2> QED BY <2>1 DEF Take
<1>7. Committed(q)' = Committed(q)
  BY <1>1, <1>3, CommittedKept
<1>8. CASE n = F + 1
  <2>1. Committed(p)' = Committed(p)
    BY <1>3, <1>4, <1>8, CommittedKept
  <2>2. [r \in Peers |-> Committed(r)]' = [r \in Peers |-> Committed(r)]
    BY <1>1, <1>7, <2>1
  <2> QED BY <1>6, <2>2 DEF Abstract!lockstep
<1>9. CASE n = F
  <2>1. Abstract!Length(Committed(p)) = n
    <3>1. DOMAIN Committed(p) = 0..(n - 1)
      BY <1>4, CommittedIs
    <3> QED BY <1>5, <3>1, LengthIs
  <2>2. Committed(p)' = Abstract!Put(Committed(p), n, in)
    <3>1. Committed(p) = [k \in 0..(n - 1) |-> InputOf(p, k)]
      BY <1>4, CommittedIs
    <3>2. Committed(p)' = [k \in 0..n |-> InputOf(p, k)']
      <4>1. Count(p)' - 1 = n
        BY <1>2, <1>3, <1>9
      <4> QED BY <4>1, CommittedIs
    <3>3. 0..(n - 1) \union {n} = 0..n
      BY <1>5
    <3>4. \A k \in 0..(n - 1) : InputOf(p, k)' = InputOf(p, k) /\ k # n
      BY <1>3, <1>4, <1>5 DEF CommitsStay
    <3>5. InputOf(p, n)' = in
      BY <1>3, <1>5, <1>9
    <3> QED BY <3>1, <3>2, <3>3, <3>4, <3>5 DEF Abstract!Put
  <2>3. [r \in Peers |-> Committed(r)]'
          = [[r \in Peers |-> Committed(r)] EXCEPT
               ![p] = Abstract!Put(@, Abstract!Length(@), in)]
    BY <1>1, <1>7, <2>1, <2>2
  <2>4. Abstract!Commit(p)
    BY <1>6, <2>3 DEF Abstract!Commit
  <2> QED BY <2>4 DEF Abstract!LockstepNext, Abstract!Peers, Peers
<1> QED BY <1>5, <1>8, <1>9

\* A tick that verifies frames settles them on the committed pairs; the frames
\* it predicts or plays again beyond them are invisible.
LEMMA EndTickRefines ==
  ASSUME IInv, NoGapInv, AgreeInv, NEW p \in Peers, EndTick(p)
  PROVE  [Abstract!LockstepNext]_(Abstract!lockstep)
<1> DEFINE q == Other(p)
           game == [r \in Peers |-> Take(core[r], verified[r])]
           input == [r \in Peers |-> Committed(r)]
<1>1. q \in Peers /\ q # p /\ Other(q) = p /\ \A r \in Peers : r = p \/ r = q
  BY Both
<1>2. PICK n, c, v : Ticked(p, n, c, v)
  BY EndTickFacts
<1>3. /\ n \in {frame[p], frame[p] + 1} /\ n <= MaxFrame
      /\ core'[p] = c /\ core'[q] = core[q]
      /\ verified'[p] = v /\ verified'[q] = verified[q]
      /\ v \in Nat /\ verified[p] <= v /\ v <= frame[p]
      /\ c \in [0..(n - 1) -> Pairs]
      /\ \A k \in 0..(verified[p] - 1) : c[k] = core[p][k]
      /\ \A k \in 0..(frame[p] - 1) : c[k][p] = core[p][k][p]
  BY <1>2 DEF Ticked
<1>4. \A r \in Peers : CommitsStay(r) /\ Count(r)' = Count(r)
  BY EndTickStays
<1>5. /\ frame[p] \in Nat /\ verified[p] \in Nat /\ MaxFrame \in Nat
      /\ Count(p) \in Nat /\ Count(q) \in Nat /\ frame[p] <= Count(p)
      /\ frame[p] <= MaxFrame
  BY <1>1, PeerFacts
<1>6. input' = input
  <2>1. \A r \in Peers : Committed(r)' = Committed(r)
    BY <1>4, CommittedKept
  <2> QED BY <2>1
<1>7. game' = [game EXCEPT ![p] = Take(c, v)]
  BY <1>1, <1>3 DEF Take
<1>8. CASE v = verified[p]
  <2>1. Take(c, v) = Take(core[p], verified[p])
    BY <1>3, <1>8 DEF Take
  <2>2. game' = game
    BY <1>7, <2>1
  <2> QED BY <1>6, <2>2 DEF Abstract!lockstep
<1>9. CASE v # verified[p]
  <2>1. \A k \in 0..(v - 1) : k < Count(q) /\ c[k][q] = InputOf(q, k)
    <3>1. \A k \in 0..(v - 1) : k < Count(q)' /\ c[k][q] = InputOf(q, k)'
      <4>1. Agree(p)'
        BY EndTickAgree DEF AgreeInv
      <4> QED BY <1>3, <4>1 DEF Agree
    <3>2. \A k \in 0..(Count(q) - 1) : InputOf(q, k)' = InputOf(q, k)
      BY <1>1, <1>4 DEF CommitsStay
    <3>3. \A k \in 0..(v - 1) : k < Count(q)
      BY <1>1, <1>4, <3>1
    <3>4. \A k \in 0..(v - 1) : k \in 0..(Count(q) - 1)
      BY <1>3, <1>5, <3>3
    <3> QED BY <3>1, <3>2, <3>3, <3>4
  <2>2. \A k \in 0..(v - 1) : k \in 0..(frame[p] - 1) /\ k < frame[p] /\ k \in 0..(n - 1)
    BY <1>3, <1>5
  <2>3. \A k \in 0..(v - 1) : c[k][p] = InputOf(p, k)
    BY <1>3, <2>2 DEF InputOf
  <2>4. \A r \in Peers : /\ DOMAIN Committed(r) = 0..(Count(r) - 1)
                         /\ \A k \in 0..(Count(r) - 1) :
                              Committed(r)[k] = InputOf(r, k)
    BY CommittedIs
  <2>5. v \in 1..MaxFrame /\ v > verified[p] /\ v <= Count(p) /\ v <= Count(q)
    <3>1. v - 1 \in 0..(v - 1)
      BY <1>3, <1>5, <1>9
    <3>2. v - 1 < Count(q)
      BY <2>1, <3>1
    <3> QED BY <1>3, <1>5, <1>9, <3>2
  <2>6. Take(c, v) = [k \in 0..(v - 1) |-> [r \in Peers |-> input[r][k]]]
    <3>1. ASSUME NEW k \in 0..(v - 1)
          PROVE  c[k] = [r \in Peers |-> input[r][k]]
      <4>1. c[k] \in [Peers -> Inputs]
        BY <1>3, <2>2 DEF Pairs
      <4>2. k \in 0..(Count(p) - 1) /\ k \in 0..(Count(q) - 1)
        BY <1>3, <1>5, <2>5
      <4>3. \A r \in Peers : c[k][r] = Committed(r)[k]
        BY <1>1, <2>1, <2>3, <2>4, <4>2
      <4> QED BY <4>1, <4>3
    <3> QED BY <3>1 DEF Take
  <2>7. /\ Abstract!Length(game[p]) = verified[p]
        /\ \A r \in Peers : Abstract!Length(input[r]) = Count(r)
    <3>1. DOMAIN game[p] = 0..(verified[p] - 1)
      BY DEF Take
    <3>2. \A r \in Peers : Count(r) \in Nat /\ input[r] = Committed(r)
      BY <1>1, <1>5
    <3> HIDE DEF game, input
    <3> QED BY <1>5, <2>4, <3>1, <3>2, LengthIs
  <2>8. \A r \in Peers : v <= Abstract!Length(input[r])
    BY <1>1, <2>5, <2>7
  <2>9. game' = [game EXCEPT ![p] =
                   [k \in 0..(v - 1) |-> [r \in Peers |-> input[r][k]]]]
    BY <1>7, <2>6
  <2>10. v > Abstract!Length(game[p])
    BY <2>5, <2>7
  <2>11. Abstract!Play(p)
    BY <1>6, <2>5, <2>8, <2>9, <2>10 DEF Abstract!Play, Abstract!Peers, Peers
  <2> QED BY <2>11 DEF Abstract!LockstepNext, Abstract!Peers, Peers
<1> QED BY <1>8, <1>9

LEMMA QuietRefines ==
  ASSUME IInv, UNCHANGED <<frame, verified, local, core>>
  PROVE  UNCHANGED Abstract!lockstep
<1>1. \A r \in Peers : Committed(r)' = Committed(r)
  BY OthersStay, CommittedKept
<1> QED BY <1>1 DEF Abstract!lockstep, Take

LEMMA StepRefines ==
  ASSUME IInv, NoGapInv, AgreeInv, HoldOnStall, [Next]_vars
  PROVE  [Abstract!LockstepNext]_(Abstract!lockstep)
<1> DEFINE Goal == [Abstract!LockstepNext]_(Abstract!lockstep)
<1>1. ASSUME NEW p \in Peers, NEW in \in Inputs, BeginTick(p, in) PROVE Goal
  BY <1>1, BeginTickRefines
<1>2. ASSUME NEW p \in Peers, EndTick(p) PROVE Goal
  BY <1>2, EndTickRefines
<1>3. ASSUME UNCHANGED <<frame, verified, local, core>> PROVE Goal
  BY <1>3, QuietRefines
<1>4. ASSUME NEW p \in Peers, DrainInput(p) \/ DrainChecksum(p) \/ DrainError(p)
      PROVE  UNCHANGED <<frame, verified, local, core>>
  BY <1>4 DEF DrainInput, DrainChecksum, DrainError, hist
<1>5. Close \/ UNCHANGED vars => UNCHANGED <<frame, verified, local, core>>
  BY DEF Close, vars, hist
<1> HIDE DEF Goal
<1>6. Goal
  BY <1>1, <1>2, <1>3, <1>4, <1>5 DEF Next
<1> QED BY <1>6 DEF Goal

\* Rollback netplay implements lockstep netplay on the verified frames: each
\* side's verified game is the replay of both players' committed inputs, and
\* prediction, rollback, stalls and pruning are steps nobody sees in it, for
\* every prediction window, if the caller repeats the input of a stalled frame
\* and every save succeeds.
THEOREM RollbackImplementsLockstep ==
  ASSUME HoldOnStall, ~SavesFail
  PROVE  Spec => ImplementsLockstep
  BY InitRefines, StepRefines, RollbackInvariant, ConfirmedHasNoGap, AlwaysAgree,
     PTL DEF Spec, ImplementsLockstep, Abstract!LockstepSpec
=============================================================================
