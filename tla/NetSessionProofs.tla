--------------------------- MODULE NetSessionProofs ---------------------------
(* Proofs about NetSession, for every delay, checksum interval and length.  *)
EXTENDS NetSession, TLAPS

\* How many frames p's player has committed inputs for, and the input of one of
\* them: Committed, taken apart.
Count(p) ==
  ApplyFrame(p) + IF ApplyFrame(p) \in DOMAIN local_pending[p] THEN 1 ELSE 0
InputOf(p, k) ==
  IF k \in DOMAIN core[p] THEN core[p][k][p] ELSE InputAt(local_pending[p], k)

InputMaps == UNION {[D -> Inputs] : D \in SUBSET Nat}
States == UNION {[0..(n - 1) -> Pairs] : n \in Nat}
Messages ==
  [type : {"Input"}, frame : Nat, state : Inputs]
    \union [type : {"Checksum"}, frame : Nat, crc : States]

\* Types.
Types ==
  /\ frame \in [Peers -> Nat]
  /\ status \in [Peers -> {"Ok", "Waiting", "Desync", "Disconnected"}]
  /\ pc \in [Peers -> {"idle", "recv"}]
  /\ local_pending \in [Peers -> InputMaps]
  /\ remote_pending \in [Peers -> InputMaps]
  /\ core \in [Peers -> States]
  /\ chan \in [Peers -> Seq(Messages)]

\* The core has played the frames before this one, or also this one if a
\* session stopped in the middle of it; a tick under way has sent its input,
\* and what was sent lies between the delay and the frame it applies to.
InTick(p) ==
  /\ frame[p] <= MaxFrame
  /\ \/ DOMAIN core[p] = 0..(frame[p] - 1)
     \/ /\ DOMAIN core[p] = 0..frame[p]
        /\ status[p] \in {"Desync", "Disconnected"}
        /\ frame[p] < MaxFrame
        /\ ApplyFrame(p) \in DOMAIN local_pending[p]
  /\ pc[p] = "recv" =>
       /\ status[p] \in {"Ok", "Waiting"}
       /\ frame[p] < MaxFrame
       /\ ApplyFrame(p) \in DOMAIN local_pending[p]
  /\ \A k \in DOMAIN local_pending[p] : Delay <= k /\ k <= ApplyFrame(p)

IsInput(m) == m.type = "Input"

\* Inputs on their way or received were committed, as were those of the frames
\* the other side has played.
Known(p) ==
  /\ \A k \in DOMAIN remote_pending[p] : Delay <= k /\ k < Count(Other(p))
  /\ \A i \in DOMAIN chan[p] : IsInput(chan[p][i]) =>
       Delay <= chan[p][i].frame /\ chan[p][i].frame < Count(Other(p))
  /\ \A k \in DOMAIN core[p] : k < Count(Other(p))

\* NoInputLost, for one peer.
Lossless(p) ==
  open /\ frame[p] < MaxFrame =>
    \A k \in Nat : Delay <= k /\ frame[p] <= k /\ k < Count(Other(p)) =>
      \/ k \in DOMAIN remote_pending[p]
      \/ \E i \in DOMAIN chan[p] : IsInput(chan[p][i]) /\ chan[p][i].frame = k

\* The inductive invariant for the flow of the inputs.
FlowInv == Types /\ \A p \in Peers : InTick(p) /\ Known(p) /\ Lossless(p)

-----------------------------------------------------------------------------
\* Lemmas about peers, maps and messages.

LEMMA OtherPeer ==
  \A p \in Peers : Other(p) \in Peers /\ Other(p) # p /\ Other(Other(p)) = p
  BY DEF Peers, Other

\* Put changes one entry of a map.
LEMMA PutFacts ==
  ASSUME NEW m, NEW f, NEW v
  PROVE  /\ DOMAIN Put(m, f, v) = DOMAIN m \union {f}
         /\ Put(m, f, v)[f] = v
         /\ \A k \in DOMAIN m : k # f => Put(m, f, v)[k] = m[k]
  BY DEF Put

LEMMA PutType ==
  ASSUME NEW m \in InputMaps, NEW f \in Nat, NEW v \in Inputs
  PROVE  Put(m, f, v) \in InputMaps
<1>1. PICK D \in SUBSET Nat : m \in [D -> Inputs]
  BY DEF InputMaps
<1>2. Put(m, f, v) \in [D \union {f} -> Inputs]
  BY <1>1 DEF Put
<1>3. D \union {f} \in SUBSET Nat
  OBVIOUS
<1> QED BY <1>2, <1>3 DEF InputMaps

\* A prune drops the entries below the floor.
LEMMA PruneFacts ==
  ASSUME NEW m, NEW floor
  PROVE  /\ DOMAIN rb_prune_below(m, floor) = {k \in DOMAIN m : k >= floor}
         /\ \A k \in DOMAIN m : k >= floor => rb_prune_below(m, floor)[k] = m[k]
  BY DEF rb_prune_below

LEMMA PruneType ==
  ASSUME NEW m \in InputMaps, NEW floor \in Nat
  PROVE  rb_prune_below(m, floor) \in InputMaps
<1>1. PICK D \in SUBSET Nat : m \in [D -> Inputs]
  BY DEF InputMaps
<1>2. rb_prune_below(m, floor) \in [{k \in D : k >= floor} -> Inputs]
  BY <1>1 DEF rb_prune_below
<1>3. {k \in D : k >= floor} \in SUBSET Nat
  OBVIOUS
<1> QED BY <1>2, <1>3 DEF InputMaps

LEMMA MapFacts ==
  ASSUME NEW m \in InputMaps
  PROVE  /\ \A k \in DOMAIN m : k \in Nat /\ m[k] \in Inputs
         /\ \A k : InputAt(m, k) \in Inputs
<1>1. PICK D \in SUBSET Nat : m \in [D -> Inputs]
  BY DEF InputMaps
<1> QED BY <1>1, InputsAssumption DEF InputAt

LEMMA FloorFacts ==
  ASSUME NEW f \in Nat
  PROVE  InputFloor(f) \in Nat /\ InputFloor(f) <= f
  BY DEF InputFloor

\* What was delivered is at the end of the channel, or the other side has left.
LEMMA DeliverFacts ==
  ASSUME Types, NEW p \in Peers, NEW m \in Messages
  PROVE  /\ Deliver(p, <<m>>) \in [Peers -> Seq(Messages)]
         /\ Deliver(p, <<m>>)[p] = chan[p]
         /\ frame[Other(p)] # MaxFrame =>
              Deliver(p, <<m>>)[Other(p)] = Append(chan[Other(p)], m)
         /\ frame[Other(p)] = MaxFrame =>
              Deliver(p, <<m>>)[Other(p)] = chan[Other(p)]
<1>1. Other(p) \in Peers /\ Other(p) # p
  BY OtherPeer
<1>2. chan[Other(p)] \in Seq(Messages)
  BY <1>1 DEF Types
<1>3. /\ chan[Other(p)] \o <<m>> = Append(chan[Other(p)], m)
      /\ Append(chan[Other(p)], m) \in Seq(Messages)
  BY <1>2
<1> QED BY <1>1, <1>3 DEF Deliver, Types

LEMMA AppendFacts ==
  ASSUME NEW S, NEW s \in Seq(S), NEW m \in S
  PROVE  /\ DOMAIN Append(s, m) = 1..(Len(s) + 1) /\ Len(s) \in Nat
         /\ DOMAIN s = 1..Len(s)
         /\ Append(s, m)[Len(s) + 1] = m
         /\ \A i \in DOMAIN s : i \in DOMAIN Append(s, m) /\ Append(s, m)[i] = s[i]
  OBVIOUS

LEMMA TailFacts ==
  ASSUME NEW S, NEW s \in Seq(S), s # <<>>
  PROVE  /\ Head(s) = s[1] /\ 1 \in DOMAIN s /\ Head(s) \in S
         /\ Tail(s) \in Seq(S) /\ Len(s) \in Nat
         /\ DOMAIN s = 1..Len(s) /\ DOMAIN Tail(s) = 1..(Len(s) - 1)
         /\ \A i \in DOMAIN Tail(s) : i + 1 \in DOMAIN s /\ Tail(s)[i] = s[i + 1]
  OBVIOUS

LEMMA InitFlow == Init => FlowInv
<1> SUFFICES ASSUME Init PROVE FlowInv
  OBVIOUS
<1>1. Empty \in InputMaps /\ Empty \in States /\ DOMAIN Empty = {}
  <2>1. Empty \in [{} -> Inputs] /\ Empty \in [0..(0 - 1) -> Pairs]
    BY DEF Empty
  <2>2. {} \in SUBSET Nat /\ 0 \in Nat
    OBVIOUS
  <2> QED BY <2>1, <2>2 DEF InputMaps, States
<1>2. Types
  BY <1>1 DEF Init, Types
<1>3. ASSUME NEW p \in Peers PROVE InTick(p) /\ Known(p) /\ Lossless(p)
  <2>1. /\ frame[p] = 0 /\ frame[Other(p)] = 0 /\ pc[p] = "idle"
        /\ core[p] = Empty /\ local_pending[p] = Empty
        /\ local_pending[Other(p)] = Empty
        /\ remote_pending[p] = Empty /\ chan[p] = <<>>
    BY OtherPeer DEF Init
  <2>2. Count(Other(p)) = Delay
    BY <1>1, <2>1, DelayAssumption DEF Count, ApplyFrame
  <2>3. DOMAIN chan[p] = {} /\ 0..(0 - 1) = {}
    BY <2>1
  <2> QED
    BY <1>1, <2>1, <2>2, <2>3, MaxFrameAssumption, DelayAssumption
    DEF InTick, Known, Lossless
<1> QED BY <1>2, <1>3 DEF FlowInv

-----------------------------------------------------------------------------
\* The numbers behind a peer's state.
LEMMA PeerFacts ==
  ASSUME Types, NEW p \in Peers
  PROVE  /\ frame[p] \in Nat /\ Delay \in Nat /\ MaxFrame \in Nat
         /\ ApplyFrame(p) \in Nat /\ ApplyFrame(p) = frame[p] + Delay
         /\ Count(p) \in Nat /\ ApplyFrame(p) <= Count(p)
         /\ ApplyFrame(p) \in DOMAIN local_pending[p] => Count(p) = ApplyFrame(p) + 1
         /\ ApplyFrame(p) \notin DOMAIN local_pending[p] => Count(p) = ApplyFrame(p)
         /\ local_pending[p] \in InputMaps /\ remote_pending[p] \in InputMaps
         /\ core[p] \in States /\ chan[p] \in Seq(Messages)
  BY DelayAssumption, MaxFrameAssumption DEF Types, ApplyFrame, Count

\* A step that leaves what the invariant speaks of alone, but for the status
\* and the place in the tick.
LEMMA QuietStep ==
  ASSUME FlowInv, UNCHANGED <<frame, pending, core, chan>>, open' => open, Types',
         \A p \in Peers : \/ UNCHANGED <<status[p], pc[p]>>
                          \/ pc[p]' = "idle" /\ status[p] \in {"Ok", "Waiting"}
  PROVE  FlowInv'
<1> SUFFICES ASSUME NEW p \in Peers PROVE (InTick(p) /\ Known(p) /\ Lossless(p))'
  BY DEF FlowInv
<1>1. UNCHANGED <<frame, local_pending, remote_pending, core, chan>>
  BY DEF pending
<1>2. InTick(p) /\ Known(p) /\ Lossless(p) /\ frame[p] \in Nat
  BY DEF FlowInv, Types
<1>3. InTick(p)'
  <2>1. CASE UNCHANGED <<status[p], pc[p]>>
    BY <1>1, <1>2, <2>1 DEF InTick, ApplyFrame
  <2>2. CASE pc[p]' = "idle" /\ status[p] \in {"Ok", "Waiting"}
    BY <1>1, <1>2, <2>2 DEF InTick, ApplyFrame
  <2> QED BY <2>1, <2>2
<1>4. Known(p)' /\ Lossless(p)'
  BY <1>1, <1>2 DEF Known, Lossless, Count, ApplyFrame
<1> QED BY <1>3, <1>4

LEMMA TickSendFlow ==
  ASSUME FlowInv, NEW p \in Peers, NEW in \in Inputs, TickSend(p, in)
  PROVE  FlowInv'
<1> DEFINE q == Other(p)
<1>1. q \in Peers /\ q # p /\ Other(q) = p /\ \A r \in Peers : r = p \/ r = q
  BY OtherPeer DEF Peers
<1> HIDE DEF q
<1>2. Types /\ InTick(p) /\ Known(p) /\ Lossless(p)
      /\ InTick(q) /\ Known(q) /\ Lossless(q)
  BY <1>1 DEF FlowInv
<1>3. /\ frame' = frame /\ core' = core /\ remote_pending' = remote_pending
      /\ open' = open /\ frame[p] < MaxFrame /\ status[p] \in {"Ok", "Waiting"}
      /\ local_pending' = [local_pending EXCEPT
                             ![p] = Put(@, ApplyFrame(p), in)]
      /\ open => /\ chan' = Deliver(p, <<Sent(p, in)>>)
                 /\ pc' = [pc EXCEPT ![p] = "recv"]
                 /\ status' = status
      /\ ~open => /\ status' = [status EXCEPT ![p] = "Disconnected"]
                  /\ chan' = chan /\ pc' = pc /\ pc[p] = "idle"
  BY DEF TickSend
<1>4. /\ local_pending'[p] = Put(local_pending[p], ApplyFrame(p), in)
      /\ local_pending'[q] = local_pending[q]
      /\ DOMAIN local_pending'[p] = DOMAIN local_pending[p] \union {ApplyFrame(p)}
  <2>1. /\ local_pending'[p] = Put(local_pending[p], ApplyFrame(p), in)
        /\ local_pending'[q] = local_pending[q]
    BY <1>1, <1>2, <1>3 DEF Types
  <2>2. DOMAIN Put(local_pending[p], ApplyFrame(p), in)
          = DOMAIN local_pending[p] \union {ApplyFrame(p)}
    BY PutFacts
  <2> QED BY <2>1, <2>2
<1>5. Sent(p, in) \in Messages /\ IsInput(Sent(p, in))
      /\ Sent(p, in).frame = ApplyFrame(p)
  BY <1>2, PeerFacts DEF Sent, InputMsg, Messages, IsInput
<1>6. Types'
  <2>1. Put(local_pending[p], ApplyFrame(p), in) \in InputMaps
    BY <1>2, PeerFacts, PutType
  <2>2. local_pending' \in [Peers -> InputMaps]
    BY <1>2, <1>3, <2>1 DEF Types
  <2>3. chan' \in [Peers -> Seq(Messages)]
    <3>1. CASE open
      BY <1>2, <1>3, <1>5, <3>1, DeliverFacts
    <3>2. CASE ~open
      BY <1>2, <1>3, <3>2 DEF Types
    <3> QED BY <3>1, <3>2
  <2>4. /\ status' \in [Peers -> {"Ok", "Waiting", "Desync", "Disconnected"}]
        /\ pc' \in [Peers -> {"idle", "recv"}]
    BY <1>2, <1>3 DEF Types
  <2> QED BY <1>2, <1>3, <2>2, <2>3, <2>4 DEF Types
<1>7. /\ Count(p)' = ApplyFrame(p) + 1 /\ Count(q)' = Count(q)
      /\ Count(p) <= ApplyFrame(p) + 1 /\ ApplyFrame(p)' = ApplyFrame(p)
  BY <1>1, <1>2, <1>3, <1>4, PeerFacts DEF Count, ApplyFrame
<1>8. /\ chan'[p] = chan[p]
      /\ chan'[q] = Append(chan[q], Sent(p, in)) \/ chan'[q] = chan[q]
      /\ open /\ frame[q] # MaxFrame => chan'[q] = Append(chan[q], Sent(p, in))
  BY <1>1, <1>2, <1>3, <1>5, DeliverFacts DEF q
<1>9. InTick(p)'
  <2>1. \A k \in DOMAIN local_pending'[p] : Delay <= k /\ k <= ApplyFrame(p)
    BY <1>2, <1>4, PeerFacts DEF InTick
  <2>2. DOMAIN core[p] = 0..(frame[p] - 1)
    BY <1>2, <1>3 DEF InTick
  <2>3. pc'[p] = "recv" => status'[p] \in {"Ok", "Waiting"}
    BY <1>2, <1>3 DEF Types
  <2> QED BY <1>2, <1>3, <1>4, <1>7, <2>1, <2>2, <2>3 DEF InTick
<1>10. InTick(q)'
  <2>1. pc'[q] = pc[q] /\ status'[q] = status[q]
    BY <1>1, <1>2, <1>3 DEF Types
  <2> QED BY <1>2, <1>3, <1>4, <2>1 DEF InTick, ApplyFrame
<1>11. Known(p)' /\ Lossless(p)'
  BY <1>2, <1>3, <1>7, <1>8 DEF Known, Lossless, q
<1>12. chan[q] \in Seq(Messages) /\ Count(p) \in Nat /\ ApplyFrame(p) \in Nat
       /\ Delay <= ApplyFrame(p) /\ frame[q] \in Nat
  BY <1>1, <1>2, PeerFacts
<1>13. Known(q)'
  <2>1. \A k \in DOMAIN remote_pending[q] : k \in Nat
    BY <1>1, <1>2, PeerFacts, MapFacts
  <2>2. \A k \in DOMAIN core[q] : k \in Nat
    BY <1>2, <1>12 DEF InTick
  <2>3. \A i \in DOMAIN chan[q] : chan[q][i].frame \in Nat
    BY <1>12 DEF Messages
  <2>4. \A i \in DOMAIN chan'[q] : IsInput(chan'[q][i]) =>
          Delay <= chan'[q][i].frame /\ chan'[q][i].frame < ApplyFrame(p) + 1
    <3>1. \A i \in DOMAIN chan[q] : IsInput(chan[q][i]) =>
            Delay <= chan[q][i].frame /\ chan[q][i].frame < ApplyFrame(p) + 1
      BY <1>1, <1>2, <1>7, <1>12, <2>3 DEF Known
    <3>2. CASE chan'[q] = chan[q]
      BY <3>1, <3>2
    <3>3. CASE chan'[q] = Append(chan[q], Sent(p, in))
      <4>1. ASSUME NEW i \in DOMAIN chan'[q]
            PROVE  \/ i \in DOMAIN chan[q] /\ chan'[q][i] = chan[q][i]
                   \/ chan'[q][i] = Sent(p, in)
        BY <1>5, <1>12, <3>3, <4>1, AppendFacts
      <4> QED BY <1>5, <1>12, <3>1, <4>1
    <3> QED BY <1>8, <3>2, <3>3
  <2> QED BY <1>1, <1>2, <1>3, <1>7, <1>12, <2>1, <2>2, <2>4 DEF Known
<1>14. Lossless(q)'
  <2> SUFFICES ASSUME open, frame[q] < MaxFrame,
                      NEW k \in Nat, Delay <= k, frame[q] <= k,
                      k < ApplyFrame(p) + 1
               PROVE  \/ k \in DOMAIN remote_pending[q]
                      \/ \E i \in DOMAIN chan'[q] :
                           IsInput(chan'[q][i]) /\ chan'[q][i].frame = k
    BY <1>1, <1>3, <1>7 DEF Lossless
  <2>1. chan'[q] = Append(chan[q], Sent(p, in))
    BY <1>8, <1>12, MaxFrameAssumption
  <2>2. CASE k = ApplyFrame(p)
    <3> DEFINE n == Len(chan[q]) + 1
    <3>1. n \in DOMAIN chan'[q] /\ chan'[q][n] = Sent(p, in)
      BY <1>5, <1>12, <2>1, AppendFacts
    <3> QED BY <1>5, <2>2, <3>1
  <2>3. CASE k < ApplyFrame(p)
    <3>1. k < Count(p)
      BY <1>2, <1>12, <2>3, PeerFacts
    <3>2. \/ k \in DOMAIN remote_pending[q]
          \/ \E i \in DOMAIN chan[q] :
               IsInput(chan[q][i]) /\ chan[q][i].frame = k
      BY <1>1, <1>2, <3>1 DEF Lossless
    <3> QED BY <1>5, <1>12, <2>1, <3>2, AppendFacts
  <2> QED BY <1>12, <2>2, <2>3
<1> QED
  BY <1>1, <1>6, <1>9, <1>10, <1>11, <1>13, <1>14 DEF FlowInv

\* A message leaves the channel.
LEMMA ReceiveFacts ==
  ASSUME FlowInv, NEW p \in Peers, NEW type, Receives(p, type)
  PROVE  LET m == Head(chan[p]) IN
         /\ m \in Messages /\ m.type = type /\ m.frame \in Nat
         /\ 1 \in DOMAIN chan[p] /\ m = chan[p][1]
         /\ chan' = [chan EXCEPT ![p] = Tail(chan[p])]
         /\ chan' \in [Peers -> Seq(Messages)]
         /\ chan'[p] = Tail(chan[p]) /\ chan'[Other(p)] = chan[Other(p)]
         /\ \A i \in DOMAIN chan'[p] :
              i + 1 \in DOMAIN chan[p] /\ chan'[p][i] = chan[p][i + 1]
         /\ \A i \in DOMAIN chan[p] :
              i = 1 \/ (i - 1 \in DOMAIN chan'[p] /\ chan'[p][i - 1] = chan[p][i])
<1>1. chan[p] \in Seq(Messages) /\ chan[p] # <<>> /\ Head(chan[p]).type = type
      /\ chan' = [chan EXCEPT ![p] = Tail(chan[p])]
  BY DEF FlowInv, Types, Receives
<1>2. /\ Head(chan[p]) = chan[p][1] /\ 1 \in DOMAIN chan[p]
      /\ Head(chan[p]) \in Messages
      /\ Tail(chan[p]) \in Seq(Messages) /\ Len(chan[p]) \in Nat
      /\ DOMAIN chan[p] = 1..Len(chan[p])
      /\ DOMAIN Tail(chan[p]) = 1..(Len(chan[p]) - 1)
      /\ \A i \in DOMAIN Tail(chan[p]) :
           i + 1 \in DOMAIN chan[p] /\ Tail(chan[p])[i] = chan[p][i + 1]
  BY <1>1, TailFacts
<1>3. chan'[p] = Tail(chan[p]) /\ chan'[Other(p)] = chan[Other(p)]
      /\ chan' \in [Peers -> Seq(Messages)]
  BY <1>1, <1>2, OtherPeer DEF FlowInv, Types
<1>4. \A i \in DOMAIN chan[p] :
        i = 1 \/ (i - 1 \in DOMAIN chan'[p] /\ chan'[p][i - 1] = chan[p][i])
  BY <1>2, <1>3
<1>5. Head(chan[p]).frame \in Nat
  BY <1>2 DEF Messages
<1> QED BY <1>1, <1>2, <1>3, <1>4, <1>5

\* Receiving an input or a checksum: an input goes from the channel to the map.
LEMMA RecvFlow ==
  ASSUME FlowInv, NEW p \in Peers, RecvInput(p) \/ RecvChecksum(p)
  PROVE  FlowInv'
<1> DEFINE q == Other(p)
           m == Head(chan[p])
<1>1. q \in Peers /\ q # p /\ Other(q) = p /\ \A r \in Peers : r = p \/ r = q
  BY OtherPeer DEF Peers
<1>2. Types /\ InTick(p) /\ Known(p) /\ Lossless(p)
      /\ InTick(q) /\ Known(q) /\ Lossless(q)
  BY <1>1 DEF FlowInv
<1>3. PICK type : Receives(p, type) /\ type \in {"Input", "Checksum"}
  BY DEF RecvInput, RecvChecksum
<1>4. /\ m \in Messages /\ m.type = type /\ m.frame \in Nat
      /\ 1 \in DOMAIN chan[p] /\ m = chan[p][1]
      /\ chan' \in [Peers -> Seq(Messages)]
      /\ chan'[q] = chan[q]
      /\ \A i \in DOMAIN chan'[p] :
           i + 1 \in DOMAIN chan[p] /\ chan'[p][i] = chan[p][i + 1]
      /\ \A i \in DOMAIN chan[p] :
           i = 1 \/ (i - 1 \in DOMAIN chan'[p] /\ chan'[p][i - 1] = chan[p][i])
  BY <1>3, ReceiveFacts
<1>5. /\ UNCHANGED <<frame, status, local_pending, core, open, pc>>
      /\ remote_pending'[q] = remote_pending[q]
      /\ remote_pending' \in [Peers -> InputMaps]
      /\ DOMAIN remote_pending[p] \subseteq DOMAIN remote_pending'[p]
      /\ \A k \in DOMAIN remote_pending'[p] :
           k \in DOMAIN remote_pending[p] \/ (IsInput(m) /\ k = m.frame)
      /\ IsInput(m) => m.frame \in DOMAIN remote_pending'[p]
  <2>1. CASE RecvInput(p)
    <3>1. remote_pending' = [remote_pending EXCEPT
                               ![p] = Put(@, m.frame, m.state)]
      BY <2>1 DEF RecvInput
    <3>2. m.type = "Input" /\ m.state \in Inputs
      BY <1>4, <2>1 DEF RecvInput, Receives, Messages
    <3>3. Put(remote_pending[p], m.frame, m.state) \in InputMaps
      BY <1>2, <1>4, <3>2, PutType, PeerFacts
    <3>4. /\ remote_pending'[p] = Put(remote_pending[p], m.frame, m.state)
          /\ remote_pending'[q] = remote_pending[q]
          /\ remote_pending' \in [Peers -> InputMaps]
      BY <1>1, <1>2, <3>1, <3>3 DEF Types
    <3>5. DOMAIN Put(remote_pending[p], m.frame, m.state)
            = DOMAIN remote_pending[p] \union {m.frame}
      BY DEF Put
    <3> QED BY <2>1, <3>2, <3>4, <3>5 DEF RecvInput, IsInput
  <2>2. CASE RecvChecksum(p)
    <3>1. remote_pending' = remote_pending /\ m.type = "Checksum"
      BY <2>2 DEF RecvChecksum, pending, Receives
    <3> QED BY <1>2, <2>2, <3>1 DEF RecvChecksum, pending, Types, IsInput
  <2> QED BY <2>1, <2>2
<1>6. Types'
  BY <1>2, <1>4, <1>5 DEF Types
<1>7. Count(p)' = Count(p) /\ Count(q)' = Count(q)
  BY <1>5 DEF Count, ApplyFrame
<1>8. InTick(p)' /\ InTick(q)'
  BY <1>2, <1>5 DEF InTick, ApplyFrame
<1>9. Known(q)' /\ Lossless(q)'
  BY <1>1, <1>2, <1>4, <1>5, <1>7 DEF Known, Lossless
<1>10. Known(p)'
  <2>1. \A k \in DOMAIN remote_pending'[p] : Delay <= k /\ k < Count(q)
    BY <1>2, <1>4, <1>5 DEF Known
  <2>2. \A i \in DOMAIN chan'[p] : IsInput(chan'[p][i]) =>
          Delay <= chan'[p][i].frame /\ chan'[p][i].frame < Count(q)
    BY <1>2, <1>4 DEF Known
  <2> QED BY <1>2, <1>5, <1>7, <2>1, <2>2 DEF Known
<1>11. Lossless(p)'
  <2> SUFFICES ASSUME open, frame[p] < MaxFrame,
                      NEW k \in Nat, Delay <= k, frame[p] <= k, k < Count(q)
               PROVE  \/ k \in DOMAIN remote_pending'[p]
                      \/ \E i \in DOMAIN chan'[p] :
                           IsInput(chan'[p][i]) /\ chan'[p][i].frame = k
    BY <1>5, <1>7 DEF Lossless
  <2>1. CASE k \in DOMAIN remote_pending[p]
    BY <1>5, <2>1
  <2>2. CASE \E i \in DOMAIN chan[p] : IsInput(chan[p][i]) /\ chan[p][i].frame = k
    <3>1. PICK i \in DOMAIN chan[p] : IsInput(chan[p][i]) /\ chan[p][i].frame = k
      BY <2>2
    <3>2. CASE i = 1
      BY <1>4, <1>5, <3>1, <3>2
    <3>3. CASE i # 1
      BY <1>4, <3>1, <3>3
    <3> QED BY <3>2, <3>3
  <2> QED BY <1>2, <2>1, <2>2 DEF Lossless
<1> QED
  BY <1>1, <1>6, <1>8, <1>9, <1>10, <1>11 DEF FlowInv

LEMMA StopFlow ==
  ASSUME FlowInv, NEW p \in Peers, Timeout(p) \/ RecvError(p)
  PROVE  FlowInv'
<1>1. /\ UNCHANGED <<frame, pending, core, chan, open>>
      /\ \/ status' = [status EXCEPT ![p] = "Waiting"]
         \/ status' = [status EXCEPT ![p] = "Disconnected"]
      /\ pc' = [pc EXCEPT ![p] = "idle"] /\ pc[p] = "recv"
  BY DEF Timeout, RecvError
<1>2. Types'
  <2>1. /\ status' \in [Peers -> {"Ok", "Waiting", "Desync", "Disconnected"}]
        /\ pc' \in [Peers -> {"idle", "recv"}]
    BY <1>1 DEF FlowInv, Types
  <2> QED BY <1>1, <2>1 DEF FlowInv, Types, pending
<1>3. \A r \in Peers : \/ UNCHANGED <<status[r], pc[r]>>
                       \/ pc[r]' = "idle" /\ status[r] \in {"Ok", "Waiting"}
  BY <1>1 DEF FlowInv, Types, InTick
<1> QED BY <1>1, <1>2, <1>3, QuietStep

\* What a tick's last step does, however it ends: the frame is played, and the
\* maps are kept or, with the frame counted, pruned.
LEMMA AdvanceFacts ==
  ASSUME FlowInv, NEW p \in Peers, Advance(p)
  PROVE  LET q == Other(p)
             F == frame[p]
         IN
         /\ pc[p] = "recv" /\ ~Owed(p) /\ UNCHANGED open
         /\ pc' = [pc EXCEPT ![p] = "idle"]
         /\ core' = [core EXCEPT ![p] = Presented(p)]
         /\ \/ chan' = chan
            \/ chan' = Deliver(p, <<ChecksumMsg(F, Presented(p))>>)
               /\ ChecksumDue(p)
         /\ \/ /\ UNCHANGED <<frame, local_pending, remote_pending>>
               /\ \/ status' = [status EXCEPT ![p] = "Disconnected"]
                  \/ status' = [status EXCEPT ![p] = "Desync"]
            \/ /\ frame' = [frame EXCEPT ![p] = F + 1]
               /\ status' = [status EXCEPT ![p] = "Ok"]
               /\ local_pending' = [local_pending EXCEPT
                    ![p] = rb_prune_below(local_pending[p], InputFloor(F))]
               /\ remote_pending' = [remote_pending EXCEPT
                    ![p] = rb_prune_below(remote_pending[p], InputFloor(F))]
<1>1. CASE ChecksumDue(p) /\ ~open
  <2>1. AdvanceUnsent(p)
    BY <1>1 DEF Advance
  <2> QED BY <2>1 DEF Advance, AdvanceUnsent, pending
<1>2. CASE ~(ChecksumDue(p) /\ ~open)
  <2>1. AdvanceSent(p)
    BY <1>2 DEF Advance
  <2>2. \/ chan' = chan
        \/ chan' = Deliver(p, <<ChecksumMsg(frame[p], Presented(p))>>)
           /\ ChecksumDue(p)
    BY <2>1 DEF AdvanceSent
  <2>3. \/ /\ UNCHANGED <<frame, local_pending, remote_pending>>
           /\ status' = [status EXCEPT ![p] = "Desync"]
        \/ /\ frame' = [frame EXCEPT ![p] = frame[p] + 1]
           /\ status' = [status EXCEPT ![p] = "Ok"]
           /\ local_pending' = [local_pending EXCEPT
                ![p] = rb_prune_below(local_pending[p], InputFloor(frame[p]))]
           /\ remote_pending' = [remote_pending EXCEPT
                ![p] = rb_prune_below(remote_pending[p], InputFloor(frame[p]))]
    BY <2>1 DEF AdvanceSent, pending
  <2> QED BY <2>2, <2>3 DEF Advance
<1> QED BY <1>1, <1>2

\* The state after the frame: one pair more, made of what is in the two maps.
LEMMA PresentedFacts ==
  ASSUME FlowInv, NEW p \in Peers, pc[p] = "recv"
  PROVE  /\ Presented(p) \in [0..frame[p] -> Pairs] /\ Presented(p) \in States
         /\ DOMAIN core[p] = 0..(frame[p] - 1)
         /\ DOMAIN Presented(p) = 0..frame[p]
         /\ \A k \in DOMAIN core[p] : Presented(p)[k] = core[p][k]
         /\ Presented(p)[frame[p]][p] = InputAt(local_pending[p], frame[p])
         /\ Presented(p)[frame[p]][Other(p)]
              = InputAt(remote_pending[p], frame[p])
<1>1. /\ frame[p] \in Nat /\ core[p] \in States
      /\ local_pending[p] \in InputMaps /\ remote_pending[p] \in InputMaps
      /\ DOMAIN core[p] = 0..(frame[p] - 1)
  BY PeerFacts DEF FlowInv, InTick
<1>2. AppliedPair(p) \in Pairs
      /\ AppliedPair(p)[p] = InputAt(local_pending[p], frame[p])
      /\ AppliedPair(p)[Other(p)] = InputAt(remote_pending[p], frame[p])
  BY <1>1, MapFacts, OtherPeer DEF AppliedPair, PairOf, Pairs
<1>3. core[p] \in [0..(frame[p] - 1) -> Pairs]
  BY <1>1 DEF States
<1>4. Presented(p) \in [0..frame[p] -> Pairs]
  BY <1>1, <1>2, <1>3 DEF Presented, Put
<1>5. Presented(p) \in States
  <2>1. 0..frame[p] = 0..((frame[p] + 1) - 1) /\ frame[p] + 1 \in Nat
    BY <1>1
  <2> QED BY <1>4, <2>1 DEF States
<1>6. /\ \A k \in DOMAIN core[p] : Presented(p)[k] = core[p][k]
      /\ Presented(p)[frame[p]] = AppliedPair(p)
  BY <1>1 DEF Presented, Put
<1> QED BY <1>1, <1>2, <1>4, <1>5, <1>6

LEMMA AdvanceFlow ==
  ASSUME FlowInv, NEW p \in Peers, Advance(p)
  PROVE  FlowInv' /\ Count(p)' = Count(p)
<1> DEFINE q == Other(p)
           F == frame[p]
           c == ChecksumMsg(F, Presented(p))
<1>1. q \in Peers /\ q # p /\ Other(q) = p /\ \A r \in Peers : r = p \/ r = q
  BY OtherPeer DEF Peers
<1>2. Types /\ InTick(p) /\ Known(p) /\ Lossless(p)
      /\ InTick(q) /\ Known(q) /\ Lossless(q)
  BY <1>1 DEF FlowInv
<1>3. /\ pc[p] = "recv" /\ ~Owed(p) /\ UNCHANGED open
      /\ pc' = [pc EXCEPT ![p] = "idle"]
      /\ core' = [core EXCEPT ![p] = Presented(p)]
      /\ chan' = chan \/ chan' = Deliver(p, <<c>>)
  BY AdvanceFacts
<1>4. /\ F \in Nat /\ F < MaxFrame /\ ApplyFrame(p) \in DOMAIN local_pending[p]
      /\ ApplyFrame(p) = F + Delay /\ Count(p) = F + Delay + 1 /\ Delay \in Nat
      /\ Count(q) \in Nat /\ Delay <= Count(q) /\ MaxFrame \in Nat
      /\ frame[q] \in Nat
  BY <1>1, <1>2, <1>3, PeerFacts DEF InTick
<1>5. /\ Presented(p) \in States /\ DOMAIN core[p] = 0..(F - 1)
      /\ DOMAIN Presented(p) = 0..F
  BY <1>3, PresentedFacts
<1>6. core'[p] = Presented(p) /\ core'[q] = core[q] /\ core' \in [Peers -> States]
      /\ pc'[p] = "idle" /\ pc'[q] = pc[q] /\ pc' \in [Peers -> {"idle", "recv"}]
  BY <1>1, <1>2, <1>3, <1>5 DEF Types
<1>7. c \in Messages /\ ~IsInput(c)
  BY <1>4, <1>5 DEF ChecksumMsg, Messages, IsInput
<1>8. /\ chan' \in [Peers -> Seq(Messages)] /\ chan'[p] = chan[p]
      /\ chan'[q] = chan[q] \/ chan'[q] = Append(chan[q], c)
  BY <1>2, <1>3, <1>7, DeliverFacts DEF Types
<1>9. chan[q] \in Seq(Messages)
  BY <1>1, <1>2, PeerFacts
<1>10. /\ \A i \in DOMAIN chan'[q] : IsInput(chan'[q][i]) =>
            i \in DOMAIN chan[q] /\ chan'[q][i] = chan[q][i]
       /\ \A i \in DOMAIN chan[q] :
            i \in DOMAIN chan'[q] /\ chan'[q][i] = chan[q][i]
  <2>1. CASE chan'[q] = chan[q]
    BY <2>1
  <2>2. CASE chan'[q] = Append(chan[q], c)
    BY <1>7, <1>9, <2>2, AppendFacts
  <2> QED BY <1>8, <2>1, <2>2
\* A frame below the delay needs no input; any other has one.
<1>11. F < Count(q)
  BY <1>2, <1>3, <1>4 DEF Owed, Known
<1>12. CASE /\ UNCHANGED <<frame, local_pending, remote_pending>>
            /\ \/ status' = [status EXCEPT ![p] = "Disconnected"]
               \/ status' = [status EXCEPT ![p] = "Desync"]
  <2>1. Types' /\ status'[q] = status[q]
        /\ status'[p] \in {"Desync", "Disconnected"}
    <3>1. /\ status' \in [Peers -> {"Ok", "Waiting", "Desync", "Disconnected"}]
          /\ status'[q] = status[q] /\ status'[p] \in {"Desync", "Disconnected"}
      BY <1>1, <1>2, <1>12 DEF Types
    <3> QED BY <1>2, <1>6, <1>8, <1>12, <3>1 DEF Types
  <2>2. Count(p)' = Count(p) /\ Count(q)' = Count(q)
        /\ ApplyFrame(p)' = ApplyFrame(p) /\ ApplyFrame(q)' = ApplyFrame(q)
    BY <1>12 DEF Count, ApplyFrame
  <2>3. InTick(p)' /\ InTick(q)'
    BY <1>2, <1>4, <1>5, <1>6, <1>12, <2>1, <2>2 DEF InTick
  <2>4. Known(p)'
    <3>1. \A k \in 0..F : k < Count(q)
      BY <1>4, <1>11
    <3> QED BY <1>2, <1>5, <1>6, <1>8, <1>12, <2>2, <3>1 DEF Known
  <2>5. Known(q)'
    BY <1>1, <1>2, <1>6, <1>10, <1>12, <2>2 DEF Known
  <2>6. Lossless(p)'
    BY <1>2, <1>3, <1>8, <1>12, <2>2 DEF Lossless
  <2>7. Lossless(q)'
    BY <1>1, <1>2, <1>3, <1>10, <1>12, <2>2 DEF Lossless
  <2> QED BY <1>1, <2>1, <2>2, <2>3, <2>4, <2>5, <2>6, <2>7 DEF FlowInv
<1>13. CASE /\ frame' = [frame EXCEPT ![p] = F + 1]
            /\ status' = [status EXCEPT ![p] = "Ok"]
            /\ local_pending' = [local_pending EXCEPT
                 ![p] = rb_prune_below(local_pending[p], InputFloor(F))]
            /\ remote_pending' = [remote_pending EXCEPT
                 ![p] = rb_prune_below(remote_pending[p], InputFloor(F))]
  <2>1. /\ rb_prune_below(local_pending[p], InputFloor(F)) \in InputMaps
        /\ rb_prune_below(remote_pending[p], InputFloor(F)) \in InputMaps
        /\ InputFloor(F) \in Nat /\ InputFloor(F) <= F
    BY <1>2, <1>4, PeerFacts, FloorFacts, PruneType
  <2>2. /\ frame'[p] = F + 1 /\ frame'[q] = frame[q]
        /\ frame' \in [Peers -> Nat]
        /\ status'[p] = "Ok" /\ status'[q] = status[q]
        /\ status' \in [Peers -> {"Ok", "Waiting", "Desync", "Disconnected"}]
    BY <1>1, <1>2, <1>4, <1>13 DEF Types
  <2>3. /\ local_pending'[p] = rb_prune_below(local_pending[p], InputFloor(F))
        /\ local_pending'[q] = local_pending[q]
        /\ local_pending' \in [Peers -> InputMaps]
        /\ remote_pending'[p] = rb_prune_below(remote_pending[p], InputFloor(F))
        /\ remote_pending'[q] = remote_pending[q]
        /\ remote_pending' \in [Peers -> InputMaps]
    BY <1>1, <1>2, <1>13, <2>1 DEF Types
  <2>4. /\ DOMAIN local_pending'[p]
             = {k \in DOMAIN local_pending[p] : k >= InputFloor(F)}
        /\ DOMAIN remote_pending'[p]
             = {k \in DOMAIN remote_pending[p] : k >= InputFloor(F)}
    BY <2>3 DEF rb_prune_below
  <2>5. Types'
    BY <1>6, <1>8, <2>2, <2>3 DEF Types
  <2>6. /\ Count(p)' = Count(p) /\ Count(q)' = Count(q)
        /\ ApplyFrame(p)' = F + 1 + Delay /\ ApplyFrame(q)' = ApplyFrame(q)
    <3>1. ApplyFrame(p)' = F + 1 + Delay
      BY <2>2 DEF ApplyFrame
    <3>2. F + 1 + Delay \notin DOMAIN local_pending'[p]
      BY <1>2, <1>4, <2>4 DEF InTick
    <3>3. Count(p)' = F + 1 + Delay
      BY <1>4, <3>1, <3>2 DEF Count
    <3> QED BY <1>4, <2>2, <2>3, <3>1, <3>3 DEF Count, ApplyFrame
  <2>7. InTick(p)'
    <3>1. \A k \in DOMAIN local_pending'[p] : Delay <= k /\ k <= F + 1 + Delay
      <4>1. \A k \in DOMAIN local_pending[p] : k \in Nat
        BY <1>2, PeerFacts, MapFacts
      <4> QED BY <1>2, <1>4, <2>4, <4>1 DEF InTick
    <3>2. DOMAIN core'[p] = 0..(frame'[p] - 1) /\ frame'[p] <= MaxFrame
      <4>1. F \in Nat /\ F < MaxFrame /\ MaxFrame \in Nat
        BY <1>4, MaxFrameAssumption
      <4>2. (F + 1) - 1 = F /\ F + 1 <= MaxFrame
        BY <4>1
      <4>3. DOMAIN core'[p] = 0..F
        BY <1>5, <1>6
      <4> QED BY <2>2, <4>2, <4>3
    <3>3. (\A k \in DOMAIN local_pending[p] : Delay <= k /\ k <= ApplyFrame(p))'
      BY <2>6, <3>1
    <3> QED BY <1>6, <3>2, <3>3 DEF InTick
  <2>8. InTick(q)'
    BY <1>2, <1>6, <2>2, <2>3, <2>6 DEF InTick
  <2>9. Known(p)'
    <3>1. \A k \in 0..F : k < Count(q)
      BY <1>4, <1>11
    <3> QED BY <1>2, <1>5, <1>6, <1>8, <2>4, <2>6, <3>1 DEF Known
  <2>10. Known(q)'
    BY <1>1, <1>2, <1>6, <1>10, <2>3, <2>6 DEF Known
  <2>11. Lossless(p)'
    <3> SUFFICES ASSUME open, NEW k \in Nat, Delay <= k, F + 1 <= k, k < Count(q)
                 PROVE  \/ k \in DOMAIN remote_pending'[p]
                        \/ \E i \in DOMAIN chan[p] :
                             IsInput(chan[p][i]) /\ chan[p][i].frame = k
      BY <1>3, <1>8, <2>2, <2>6 DEF Lossless
    <3>1. \/ k \in DOMAIN remote_pending[p]
          \/ \E i \in DOMAIN chan[p] :
               IsInput(chan[p][i]) /\ chan[p][i].frame = k
      BY <1>2, <1>4 DEF Lossless
    <3>2. k >= InputFloor(F)
      BY <1>4, <2>1
    <3> QED BY <2>4, <3>1, <3>2
  <2>12. Lossless(q)'
    BY <1>1, <1>2, <1>3, <1>10, <2>2, <2>3, <2>6 DEF Lossless
  <2> QED
    BY <1>1, <2>5, <2>6, <2>7, <2>8, <2>9, <2>10, <2>11, <2>12 DEF FlowInv
<1> QED BY <1>12, <1>13, AdvanceFacts

LEMMA StepFlow ==
  ASSUME FlowInv, [Next]_vars
  PROVE  FlowInv'
<1>1. ASSUME NEW p \in Peers, NEW in \in Inputs, TickSend(p, in) PROVE FlowInv'
  BY <1>1, TickSendFlow
<1>2. ASSUME NEW p \in Peers, RecvInput(p) \/ RecvChecksum(p) PROVE FlowInv'
  BY <1>2, RecvFlow
<1>3. ASSUME NEW p \in Peers, Timeout(p) \/ RecvError(p) PROVE FlowInv'
  BY <1>3, StopFlow
<1>4. ASSUME NEW p \in Peers, Advance(p) PROVE FlowInv'
  BY <1>4, AdvanceFlow
<1>5. CASE Close
  BY <1>5, QuietStep DEF Close, FlowInv, Types, pending
<1>6. CASE UNCHANGED vars
  BY <1>6, QuietStep DEF vars, FlowInv, Types, pending
<1> QED BY <1>1, <1>2, <1>3, <1>4, <1>5, <1>6 DEF Next

\* Every input is where NoInputLost says, and the two sides are never further
\* apart than the inputs they have allow.
THEOREM FlowInvariant == Spec => []FlowInv
  BY InitFlow, StepFlow, PTL DEF Spec

\* No committed input that the other side has yet to apply is ever lost, for
\* any delay and however often a frame is waited for and sent again.
THEOREM InputsReachTheOther == Spec => []NoInputLost
<1>1. FlowInv => NoInputLost
  <2> SUFFICES ASSUME FlowInv, NEW p \in Peers, open, frame[p] < MaxFrame,
                      NEW k \in DOMAIN Committed(Other(p)),
                      k >= Delay, k >= frame[p]
               PROVE  \/ k \in DOMAIN remote_pending[p]
                      \/ \E i \in DOMAIN chan[p] :
                           chan[p][i].type = "Input" /\ chan[p][i].frame = k
    BY DEF NoInputLost
  <2>1. Other(p) \in Peers /\ Count(Other(p)) \in Nat /\ frame[p] \in Nat
    BY OtherPeer, PeerFacts DEF FlowInv
  <2>2. k \in 0..(Count(Other(p)) - 1)
    BY DEF Committed, Count
  <2> QED BY <2>1, <2>2, DelayAssumption DEF FlowInv, Lossless, IsInput
<1> QED BY <1>1, FlowInvariant, PTL

\* Neither side ever plays more than delay + 1 frames ahead of the other.
THEOREM LeadIsBounded == Spec => []BoundedLead
<1>1. FlowInv => BoundedLead
  <2> SUFFICES ASSUME FlowInv, NEW p \in Peers
               PROVE  frame[p] <= frame[Other(p)] + Delay + 1
    BY DEF BoundedLead
  <2>1. /\ Other(p) \in Peers /\ frame[p] \in Nat /\ frame[Other(p)] \in Nat
        /\ Delay \in Nat /\ Count(Other(p)) <= frame[Other(p)] + Delay + 1
    BY OtherPeer, PeerFacts DEF FlowInv
  <2>2. CASE frame[p] > 0
    <3>1. frame[p] - 1 \in DOMAIN core[p]
      BY <2>1, <2>2 DEF FlowInv, InTick
    <3>2. frame[p] - 1 < Count(Other(p))
      BY <3>1 DEF FlowInv, Known
    <3>3. Count(Other(p)) \in Nat
      BY <2>1, PeerFacts DEF FlowInv
    <3> QED BY <2>1, <3>2, <3>3
  <2> QED BY <2>1, <2>2
<1> QED BY <1>1, FlowInvariant, PTL

-----------------------------------------------------------------------------
\* The checksums.

Due(f) == f % ChecksumEvery = 0

CrcTypes ==
  /\ DOMAIN own_crc = Peers /\ DOMAIN peer_crc = Peers
  /\ \A p \in Peers : DOMAIN own_crc[p] \subseteq Nat
  /\ \A p \in Peers : DOMAIN peer_crc[p] \subseteq Nat

\* A checksum comes after the inputs that were sent before it, so it is never
\* older than the inputs already here by more than the delay.
InSequence(p) ==
  \A i \in DOMAIN chan[p] : ~IsInput(chan[p][i]) =>
    /\ Due(chan[p][i].frame)
    /\ \A k \in DOMAIN remote_pending[p] : k <= chan[p][i].frame + Delay
    /\ \A j \in DOMAIN chan[p] : j < i /\ IsInput(chan[p][j]) =>
         chan[p][j].frame <= chan[p][i].frame + Delay

\* What the prunes leave: the last input received, this side's checksums of the
\* last two intervals, and none of the other side's that is older.
LastInputKept(p) ==
  frame[p] > Delay => (frame[p] - 1) \in DOMAIN remote_pending[p]
OwnKept(p) ==
  \A f \in Nat :
    Due(f) /\ f < frame[p] /\ frame[p] <= f + 2 * ChecksumEvery + 1
      => f \in DOMAIN own_crc[p]
PeerRecent(p) ==
  \A f \in DOMAIN peer_crc[p] :
    Due(f) /\ frame[p] <= f + 2 * ChecksumEvery + 1

\* The inductive invariant for the checksums, on top of FlowInv.
CrcInv ==
  /\ CrcTypes
  /\ \A p \in Peers :
       /\ InSequence(p) /\ LastInputKept(p) /\ OwnKept(p)
       /\ 2 * ChecksumEvery > Delay => PeerRecent(p)

LEMMA InitCrc == Init => CrcInv
<1> SUFFICES ASSUME Init PROVE CrcInv
  OBVIOUS
<1>1. DOMAIN Empty = {}
  BY DEF Empty
<1>2. CrcTypes
  BY <1>1 DEF Init, CrcTypes
<1>3. ASSUME NEW p \in Peers
      PROVE  InSequence(p) /\ LastInputKept(p) /\ OwnKept(p) /\ PeerRecent(p)
  <2>1. frame[p] = 0 /\ chan[p] = <<>> /\ peer_crc[p] = Empty
    BY DEF Init
  <2>2. DOMAIN chan[p] = {}
    BY <2>1
  <2> QED BY <1>1, <2>1, <2>2, DelayAssumption
          DEF InSequence, LastInputKept, OwnKept, PeerRecent
<1> QED BY <1>2, <1>3 DEF CrcInv

\* A step that leaves the maps and the channels alone.
LEMMA QuietCrc ==
  ASSUME CrcInv, UNCHANGED <<frame, remote_pending, crcs, chan>>
  PROVE  CrcInv'
<1>1. UNCHANGED <<own_crc, peer_crc>>
  BY DEF crcs
<1>2. CrcTypes'
  BY <1>1 DEF CrcInv, CrcTypes
<1>3. ASSUME NEW p \in Peers
      PROVE  /\ InSequence(p)' /\ LastInputKept(p)' /\ OwnKept(p)'
             /\ 2 * ChecksumEvery > Delay => PeerRecent(p)'
  BY <1>1 DEF CrcInv, InSequence, LastInputKept, OwnKept, PeerRecent
<1> QED BY <1>2, <1>3 DEF CrcInv

\* Messages have frames.
LEMMA FramesOfMessages ==
  ASSUME FlowInv, NEW p \in Peers
  PROVE  \A i \in DOMAIN chan[p] : i \in Nat /\ chan[p][i].frame \in Nat
<1>1. chan[p] \in Seq(Messages)
  BY DEF FlowInv, Types
<1>2. \A m \in Messages : m.frame \in Nat
  BY DEF Messages
<1> QED BY <1>1, <1>2

LEMMA TickSendCrc ==
  ASSUME FlowInv, CrcInv, NEW p \in Peers, NEW in \in Inputs, TickSend(p, in)
  PROVE  CrcInv'
<1> DEFINE q == Other(p)
           m == Sent(p, in)
<1>1. q \in Peers /\ q # p /\ Other(q) = p /\ \A r \in Peers : r = p \/ r = q
  BY OtherPeer DEF Peers
<1>2. UNCHANGED <<frame, remote_pending, own_crc, peer_crc>>
  BY DEF TickSend, crcs
<1>3. /\ m \in Messages /\ IsInput(m)
      /\ chan[q] \in Seq(Messages) /\ Types
  BY <1>1, PeerFacts DEF FlowInv, Sent, InputMsg, Messages, IsInput
<1>4. /\ chan'[p] = chan[p]
      /\ chan'[q] = Append(chan[q], m) \/ chan'[q] = chan[q]
  <2>1. CASE open
    BY <1>3, <2>1, DeliverFacts DEF TickSend
  <2>2. CASE ~open
    BY <2>2 DEF TickSend
  <2> QED BY <2>1, <2>2
<1>5. InSequence(p)'
  BY <1>2, <1>4 DEF CrcInv, InSequence
<1>6. InSequence(q)'
  <2>1. CASE chan'[q] = chan[q]
    BY <1>1, <1>2, <2>1 DEF CrcInv, InSequence
  <2>2. CASE chan'[q] = Append(chan[q], m)
    <3>1. /\ Len(chan[q]) \in Nat /\ DOMAIN chan[q] = 1..Len(chan[q])
          /\ DOMAIN chan'[q] = 1..(Len(chan[q]) + 1)
          /\ chan'[q][Len(chan[q]) + 1] = m
          /\ \A i \in DOMAIN chan[q] : chan'[q][i] = chan[q][i]
      BY <1>3, <2>2, AppendFacts
    <3>2. ASSUME NEW i \in DOMAIN chan'[q], ~IsInput(chan'[q][i])
          PROVE  /\ i \in DOMAIN chan[q] /\ chan'[q][i] = chan[q][i]
                 /\ \A j \in DOMAIN chan'[q] : j < i =>
                      j \in DOMAIN chan[q] /\ chan'[q][j] = chan[q][j]
      BY <1>3, <3>1, <3>2
    <3> QED BY <1>1, <1>2, <3>2 DEF CrcInv, InSequence
  <2> QED BY <1>4, <2>1, <2>2
<1>7. CrcTypes'
  BY <1>2 DEF CrcInv, CrcTypes
<1>8. ASSUME NEW r \in Peers
      PROVE  /\ LastInputKept(r)' /\ OwnKept(r)'
             /\ 2 * ChecksumEvery > Delay => PeerRecent(r)'
  BY <1>2 DEF CrcInv, LastInputKept, OwnKept, PeerRecent
<1> QED BY <1>1, <1>5, <1>6, <1>7, <1>8 DEF CrcInv

LEMMA RecvCrc ==
  ASSUME FlowInv, CrcInv, NEW p \in Peers, RecvInput(p) \/ RecvChecksum(p)
  PROVE  CrcInv'
<1> DEFINE q == Other(p)
           m == Head(chan[p])
<1>1. q \in Peers /\ q # p /\ Other(q) = p /\ \A r \in Peers : r = p \/ r = q
  BY OtherPeer DEF Peers
<1>2. PICK type : Receives(p, type)
  BY DEF RecvInput, RecvChecksum
<1>3. /\ m \in Messages /\ m.frame \in Nat
      /\ 1 \in DOMAIN chan[p] /\ m = chan[p][1]
      /\ chan'[q] = chan[q]
      /\ \A i \in DOMAIN chan'[p] :
           i + 1 \in DOMAIN chan[p] /\ chan'[p][i] = chan[p][i + 1]
  BY <1>2, ReceiveFacts
<1>4. /\ frame' = frame /\ own_crc' = own_crc
      /\ frame[p] \in Nat /\ Delay \in Nat /\ ChecksumEvery \in Nat
      /\ chan'[p] \in Seq(Messages) /\ frame[p] >= Delay
  <2>1. chan'[p] \in Seq(Messages)
    BY <1>2, ReceiveFacts
  <2> QED BY <2>1, PeerFacts, ChecksumAssumption
          DEF RecvInput, RecvChecksum, Receives, Owed, crcs, FlowInv
<1>5. CASE RecvInput(p)
  <2>1. IsInput(m)
    BY <1>5 DEF RecvInput, Receives, IsInput
  <2>2. /\ peer_crc' = peer_crc
        /\ remote_pending'[q] = remote_pending[q]
        /\ remote_pending'[p] = Put(remote_pending[p], m.frame, m.state)
    BY <1>1, <1>5 DEF RecvInput, crcs, FlowInv, Types
  <2>3. DOMAIN remote_pending'[p] = DOMAIN remote_pending[p] \union {m.frame}
    BY <2>2 DEF Put
  <2>4. InSequence(p)'
    <3>1. \A i \in DOMAIN chan'[p] : i \in Nat /\ i >= 1
      BY <1>4
    <3> SUFFICES ASSUME NEW i \in DOMAIN chan'[p], ~IsInput(chan'[p][i])
                 PROVE  /\ Due(chan'[p][i].frame)
                        /\ \A k \in DOMAIN remote_pending'[p] :
                             k <= chan'[p][i].frame + Delay
                        /\ \A j \in DOMAIN chan'[p] :
                             j < i /\ IsInput(chan'[p][j]) =>
                               chan'[p][j].frame <= chan'[p][i].frame + Delay
      BY DEF InSequence
    <3>2. /\ i + 1 \in DOMAIN chan[p] /\ chan'[p][i] = chan[p][i + 1]
          /\ ~IsInput(chan[p][i + 1]) /\ 1 < i + 1
      BY <1>3, <3>1
    <3>3. /\ Due(chan[p][i + 1].frame)
          /\ \A k \in DOMAIN remote_pending[p] : k <= chan[p][i + 1].frame + Delay
          /\ \A j \in DOMAIN chan[p] : j < i + 1 /\ IsInput(chan[p][j]) =>
               chan[p][j].frame <= chan[p][i + 1].frame + Delay
      BY <3>2 DEF CrcInv, InSequence
    <3>4. m.frame <= chan[p][i + 1].frame + Delay
      BY <1>3, <2>1, <3>2, <3>3
    <3>5. \A j \in DOMAIN chan'[p] : j < i /\ IsInput(chan'[p][j]) =>
            chan'[p][j].frame <= chan[p][i + 1].frame + Delay
      BY <1>3, <3>1, <3>3
    <3> QED BY <2>3, <3>2, <3>3, <3>4, <3>5
  <2>5. InSequence(q)'
    BY <1>1, <1>3, <2>2 DEF CrcInv, InSequence
  <2>6. ASSUME NEW r \in Peers
        PROVE  /\ LastInputKept(r)' /\ OwnKept(r)'
               /\ 2 * ChecksumEvery > Delay => PeerRecent(r)'
    BY <1>1, <1>4, <2>2, <2>3 DEF CrcInv, LastInputKept, OwnKept, PeerRecent
  <2> QED
    BY <1>1, <1>4, <2>2, <2>4, <2>5, <2>6 DEF CrcInv, CrcTypes
<1>6. CASE RecvChecksum(p)
  <2>1. ~IsInput(m)
    BY <1>6 DEF RecvChecksum, Receives, IsInput
  <2>2. /\ remote_pending' = remote_pending
        /\ peer_crc'[q] = peer_crc[q] /\ DOMAIN peer_crc' = Peers
        /\ peer_crc'[p] = Put(peer_crc[p], m.frame, m.crc)
    BY <1>1, <1>6 DEF RecvChecksum, pending, CrcInv, CrcTypes
  <2>3. DOMAIN peer_crc'[p] = DOMAIN peer_crc[p] \union {m.frame}
    BY <2>2 DEF Put
  <2>4. InSequence(p)'
    <3>1. \A i \in DOMAIN chan'[p] : i \in Nat
      BY <1>4
    <3> QED BY <1>3, <2>2, <3>1 DEF CrcInv, InSequence
  <2>5. InSequence(q)'
    BY <1>1, <1>3, <2>2 DEF CrcInv, InSequence
  <2>6. ASSUME NEW r \in Peers PROVE LastInputKept(r)' /\ OwnKept(r)'
    BY <1>4, <2>2 DEF CrcInv, LastInputKept, OwnKept
  <2>7. 2 * ChecksumEvery > Delay => PeerRecent(q)'
    BY <1>1, <1>4, <2>2 DEF CrcInv, PeerRecent
  <2>8. 2 * ChecksumEvery > Delay => PeerRecent(p)'
    <3> SUFFICES ASSUME 2 * ChecksumEvery > Delay
                 PROVE  Due(m.frame) /\ frame[p] <= m.frame + 2 * ChecksumEvery + 1
      BY <1>4, <2>3 DEF CrcInv, PeerRecent
    <3>1. Due(m.frame)
      BY <1>3, <2>1 DEF CrcInv, InSequence
    <3>2. CASE frame[p] > Delay
      <4>1. frame[p] - 1 <= m.frame + Delay
        BY <1>3, <2>1, <3>2 DEF CrcInv, InSequence, LastInputKept
      <4> QED BY <1>3, <1>4, <3>1, <4>1
    <3> QED BY <1>3, <1>4, <3>1, <3>2
  <2>9. CrcTypes'
    BY <1>1, <1>3, <1>4, <2>2, <2>3 DEF CrcInv, CrcTypes
  <2> QED
    BY <1>1, <2>4, <2>5, <2>6, <2>7, <2>8, <2>9 DEF CrcInv
<1> QED BY <1>5, <1>6

\* The checksum maps after a tick's last step.
LEMMA AdvanceCrcFacts ==
  ASSUME NEW p \in Peers, Advance(p)
  PROVE  LET F   == frame[p]
             own == IF ChecksumDue(p) THEN Put(own_crc[p], F, Presented(p))
                    ELSE own_crc[p]
         IN  \/ /\ UNCHANGED <<frame, remote_pending, peer_crc>>
                /\ own_crc' = [own_crc EXCEPT ![p] = own]
             \/ /\ frame' = [frame EXCEPT ![p] = F + 1]
                /\ remote_pending' = [remote_pending EXCEPT
                     ![p] = rb_prune_below(remote_pending[p], InputFloor(F))]
                /\ own_crc' = [own_crc EXCEPT ![p] = rb_prune_below(own, CrcFloor(F))]
                /\ peer_crc' = [peer_crc EXCEPT
                     ![p] = rb_prune_below(peer_crc[p], CrcFloor(F))]
<1>1. CASE ChecksumDue(p) /\ ~open
  <2>1. AdvanceUnsent(p)
    BY <1>1 DEF Advance
  <2> QED BY <1>1, <2>1 DEF AdvanceUnsent, pending
<1>2. CASE ~(ChecksumDue(p) /\ ~open)
  <2>1. AdvanceSent(p)
    BY <1>2 DEF Advance
  <2> QED BY <2>1 DEF AdvanceSent, pending
<1> QED BY <1>1, <1>2

LEMMA CrcFloorFacts ==
  ASSUME NEW F \in Nat
  PROVE  /\ CrcFloor(F) \in Nat
         /\ \A k \in Nat : k >= CrcFloor(F) => F <= k + 2 * ChecksumEvery
         /\ \A k \in Nat : F <= k + 2 * ChecksumEvery => k >= CrcFloor(F)
<1> DEFINE W == 2 * ChecksumEvery
<1>1. W \in Nat
  BY ChecksumAssumption
<1> HIDE DEF W
<1>2. CrcFloor(F) = IF F >= W THEN F - W ELSE 0
  BY DEF CrcFloor, W
<1>3. /\ CrcFloor(F) \in Nat
      /\ \A k \in Nat : k >= CrcFloor(F) => F <= k + W
      /\ \A k \in Nat : F <= k + W => k >= CrcFloor(F)
  BY <1>1, <1>2
<1> QED BY <1>3 DEF W

LEMMA AdvanceCrc ==
  ASSUME FlowInv, CrcInv, NEW p \in Peers, Advance(p)
  PROVE  CrcInv'
<1> DEFINE q == Other(p)
           F == frame[p]
           c == ChecksumMsg(F, Presented(p))
           own == IF ChecksumDue(p) THEN Put(own_crc[p], F, Presented(p))
                  ELSE own_crc[p]
<1>1. q \in Peers /\ q # p /\ Other(q) = p /\ \A r \in Peers : r = p \/ r = q
  BY OtherPeer DEF Peers
<1>2. /\ pc[p] = "recv" /\ ~Owed(p)
      /\ chan' = chan \/ (chan' = Deliver(p, <<c>>) /\ ChecksumDue(p))
  BY AdvanceFacts
<1>3. /\ F \in Nat /\ Delay \in Nat /\ ChecksumEvery \in Nat /\ ChecksumEvery > 0
      /\ Count(p) = F + Delay + 1 /\ Types /\ chan[q] \in Seq(Messages)
  BY <1>1, <1>2, PeerFacts, ChecksumAssumption DEF FlowInv, InTick
<1>4. c \in Messages /\ ~IsInput(c) /\ c.frame = F
  BY <1>2, <1>3, PresentedFacts DEF ChecksumMsg, Messages, IsInput
<1>5. /\ chan'[p] = chan[p]
      /\ chan'[q] = chan[q] \/ (chan'[q] = Append(chan[q], c) /\ ChecksumDue(p))
  BY <1>2, <1>3, <1>4, DeliverFacts
<1>6. ChecksumDue(p) => Due(F)
  BY DEF ChecksumDue, Due
<1>7. /\ DOMAIN own \subseteq Nat /\ DOMAIN own_crc[p] \subseteq DOMAIN own
      /\ Due(F) => F \in DOMAIN own
  BY <1>3 DEF Put, CrcInv, CrcTypes, ChecksumDue, Due
<1> HIDE DEF own
<1>8. /\ remote_pending'[q] = remote_pending[q]
      /\ DOMAIN remote_pending'[p] \subseteq DOMAIN remote_pending[p]
      /\ frame'[q] = frame[q] /\ own_crc'[q] = own_crc[q]
      /\ peer_crc'[q] = peer_crc[q]
      /\ DOMAIN own_crc' = Peers /\ DOMAIN peer_crc' = Peers
      /\ \/ /\ frame'[p] = F /\ remote_pending'[p] = remote_pending[p]
            /\ own_crc'[p] = own /\ peer_crc'[p] = peer_crc[p]
         \/ /\ frame'[p] = F + 1
            /\ DOMAIN remote_pending'[p]
                 = {k \in DOMAIN remote_pending[p] : k >= InputFloor(F)}
            /\ DOMAIN own_crc'[p] = {k \in DOMAIN own : k >= CrcFloor(F)}
            /\ DOMAIN peer_crc'[p] = {k \in DOMAIN peer_crc[p] : k >= CrcFloor(F)}
  <2>1. CASE /\ UNCHANGED <<frame, remote_pending, peer_crc>>
             /\ own_crc' = [own_crc EXCEPT ![p] = own]
    BY <1>1, <2>1 DEF CrcInv, CrcTypes
  <2>2. CASE /\ frame' = [frame EXCEPT ![p] = F + 1]
             /\ remote_pending' = [remote_pending EXCEPT
                  ![p] = rb_prune_below(remote_pending[p], InputFloor(F))]
             /\ own_crc' = [own_crc EXCEPT ![p] = rb_prune_below(own, CrcFloor(F))]
             /\ peer_crc' = [peer_crc EXCEPT
                  ![p] = rb_prune_below(peer_crc[p], CrcFloor(F))]
    <3>1. /\ frame'[p] = F + 1 /\ frame'[q] = frame[q]
          /\ remote_pending'[q] = remote_pending[q]
          /\ own_crc'[q] = own_crc[q] /\ peer_crc'[q] = peer_crc[q]
          /\ DOMAIN own_crc' = Peers /\ DOMAIN peer_crc' = Peers
          /\ remote_pending'[p] = rb_prune_below(remote_pending[p], InputFloor(F))
          /\ own_crc'[p] = rb_prune_below(own, CrcFloor(F))
          /\ peer_crc'[p] = rb_prune_below(peer_crc[p], CrcFloor(F))
      BY <1>1, <1>3, <2>2 DEF CrcInv, CrcTypes, Types
    <3> QED BY <3>1 DEF rb_prune_below
  <2> QED BY <2>1, <2>2, AdvanceCrcFacts DEF own
<1>9. CrcTypes'
  <2>1. DOMAIN own_crc'[p] \subseteq Nat /\ DOMAIN peer_crc'[p] \subseteq Nat
    BY <1>7, <1>8 DEF CrcInv, CrcTypes
  <2> QED BY <1>1, <1>8, <2>1 DEF CrcInv, CrcTypes
<1>10. InSequence(p)'
  BY <1>5, <1>8 DEF CrcInv, InSequence
<1>11. InSequence(q)'
  <2>1. CASE chan'[q] = chan[q]
    BY <1>1, <1>8, <2>1 DEF CrcInv, InSequence
  <2>2. CASE chan'[q] = Append(chan[q], c) /\ ChecksumDue(p)
    <3>1. /\ Len(chan[q]) \in Nat /\ DOMAIN chan[q] = 1..Len(chan[q])
          /\ DOMAIN chan'[q] = 1..(Len(chan[q]) + 1)
          /\ chan'[q][Len(chan[q]) + 1] = c
          /\ \A i \in DOMAIN chan[q] : chan'[q][i] = chan[q][i]
      BY <1>3, <1>4, <2>2, AppendFacts
    <3>2. /\ \A k \in DOMAIN remote_pending[q] : k <= F + Delay
          /\ \A j \in DOMAIN chan[q] : IsInput(chan[q][j]) =>
               chan[q][j].frame <= F + Delay
      <4>1. \A k \in DOMAIN remote_pending[q] : k \in Nat
        BY <1>1, <1>3, PeerFacts, MapFacts
      <4>2. \A j \in DOMAIN chan[q] : chan[q][j].frame \in Nat
        BY <1>1, FramesOfMessages
      <4> QED BY <1>1, <1>3, <4>1, <4>2 DEF FlowInv, Known
    <3> SUFFICES ASSUME NEW i \in DOMAIN chan'[q], ~IsInput(chan'[q][i])
                 PROVE  /\ Due(chan'[q][i].frame)
                        /\ \A k \in DOMAIN remote_pending[q] :
                             k <= chan'[q][i].frame + Delay
                        /\ \A j \in DOMAIN chan'[q] :
                             j < i /\ IsInput(chan'[q][j]) =>
                               chan'[q][j].frame <= chan'[q][i].frame + Delay
      BY <1>8 DEF InSequence
    <3>3. \A j \in DOMAIN chan'[q] : j < i =>
            j \in DOMAIN chan[q] /\ chan'[q][j] = chan[q][j]
      BY <3>1
    <3>4. CASE i = Len(chan[q]) + 1
      BY <1>4, <1>6, <2>2, <3>1, <3>2, <3>3, <3>4
    <3>5. CASE i \in DOMAIN chan[q]
      BY <1>1, <3>1, <3>3, <3>5 DEF CrcInv, InSequence
    <3> QED BY <3>1, <3>4, <3>5
  <2> QED BY <1>5, <2>1, <2>2
<1>12. /\ LastInputKept(q)' /\ OwnKept(q)'
       /\ 2 * ChecksumEvery > Delay => PeerRecent(q)'
  BY <1>1, <1>8 DEF CrcInv, LastInputKept, OwnKept, PeerRecent
<1>13. /\ CrcFloor(F) \in Nat
       /\ \A k \in Nat : k >= CrcFloor(F) => F <= k + 2 * ChecksumEvery
       /\ \A k \in Nat : F <= k + 2 * ChecksumEvery => k >= CrcFloor(F)
       /\ InputFloor(F) <= F
  BY <1>3, FloorFacts, CrcFloorFacts
<1>14. LastInputKept(p)'
  <2>1. CASE frame'[p] = F + 1
    BY <1>2, <1>3, <1>8, <1>13, <2>1 DEF LastInputKept, Owed
  <2>2. CASE frame'[p] = F
    BY <1>3, <1>8, <2>2 DEF CrcInv, LastInputKept
  <2> QED BY <1>8, <2>1, <2>2
<1>15. OwnKept(p)'
  <2> SUFFICES ASSUME NEW k \in Nat, Due(k), k < frame'[p],
                      frame'[p] <= k + 2 * ChecksumEvery + 1
               PROVE  k \in DOMAIN own_crc'[p]
    BY DEF OwnKept
  <2>1. k < F /\ F <= k + 2 * ChecksumEvery + 1 => k \in DOMAIN own
    BY <1>7 DEF CrcInv, OwnKept
  <2>2. CASE frame'[p] = F
    BY <1>3, <1>8, <2>1, <2>2
  <2>3. CASE frame'[p] = F + 1
    <3>1. k >= CrcFloor(F) /\ k \in DOMAIN own
      BY <1>3, <1>7, <1>13, <2>1, <2>3
    <3> QED BY <1>3, <1>8, <2>3, <3>1
  <2> QED BY <1>8, <2>2, <2>3
<1>16. 2 * ChecksumEvery > Delay => PeerRecent(p)'
  <2> SUFFICES ASSUME 2 * ChecksumEvery > Delay, NEW k \in DOMAIN peer_crc'[p]
               PROVE  Due(k) /\ frame'[p] <= k + 2 * ChecksumEvery + 1
    BY DEF PeerRecent
  <2>1. k \in DOMAIN peer_crc[p] /\ k \in Nat
    BY <1>8 DEF CrcInv, CrcTypes
  <2>2. Due(k) /\ F <= k + 2 * ChecksumEvery + 1
    BY <2>1 DEF CrcInv, PeerRecent
  <2>3. frame'[p] = F \/ (frame'[p] = F + 1 /\ k >= CrcFloor(F))
    BY <1>8
  <2> QED BY <1>3, <1>13, <2>1, <2>2, <2>3
<1> QED
  BY <1>1, <1>9, <1>10, <1>11, <1>12, <1>14, <1>15, <1>16 DEF CrcInv

LEMMA StepCrc ==
  ASSUME FlowInv, CrcInv, [Next]_vars
  PROVE  CrcInv'
<1>1. ASSUME NEW p \in Peers, NEW in \in Inputs, TickSend(p, in) PROVE CrcInv'
  BY <1>1, TickSendCrc
<1>2. ASSUME NEW p \in Peers, RecvInput(p) \/ RecvChecksum(p) PROVE CrcInv'
  BY <1>2, RecvCrc
<1>3. ASSUME NEW p \in Peers, Timeout(p) \/ RecvError(p) PROVE CrcInv'
  BY <1>3, QuietCrc DEF Timeout, RecvError, pending
<1>4. ASSUME NEW p \in Peers, Advance(p) PROVE CrcInv'
  BY <1>4, AdvanceCrc
<1>5. CASE Close
  BY <1>5, QuietCrc DEF Close, pending
<1>6. CASE UNCHANGED vars
  BY <1>6, QuietCrc DEF vars, pending
<1> QED BY <1>1, <1>2, <1>3, <1>4, <1>5, <1>6 DEF Next

\* A checksum that arrives for a frame this side has played always finds its
\* counterpart in own_crc_, for any delay below twice the checksum interval.
THEOREM ChecksumsAlwaysMeet == Spec => []ChecksumsMeet
<1>1. FlowInv /\ CrcInv => ChecksumsMeet
  <2> SUFFICES ASSUME FlowInv, CrcInv, 2 * ChecksumEvery > Delay,
                      NEW p \in Peers, NEW k \in DOMAIN peer_crc[p], k < frame[p]
               PROVE  k \in DOMAIN own_crc[p]
    BY DEF ChecksumsMeet
  <2>1. k \in Nat /\ Due(k) /\ frame[p] <= k + 2 * ChecksumEvery + 1
    BY DEF CrcInv, CrcTypes, PeerRecent
  <2> QED BY <2>1 DEF CrcInv, OwnKept
<1>2. Spec => []CrcInv
  BY InitCrc, StepCrc, FlowInvariant, PTL DEF Spec
<1> QED BY <1>1, <1>2, FlowInvariant, PTL

-----------------------------------------------------------------------------
\* The refinement of Lockstep.

\* Wherever an input is, it is the one its player committed; the frames below
\* the delay have the neutral one.
Agree(p) ==
  /\ \A k \in DOMAIN remote_pending[p] :
       remote_pending[p][k] = InputOf(Other(p), k)
  /\ \A i \in DOMAIN chan[p], k \in Nat :
       IsInput(chan[p][i]) /\ chan[p][i].frame = k =>
         chan[p][i].state = InputOf(Other(p), k)
  /\ \A k \in DOMAIN core[p] : core[p][k][Other(p)] = InputOf(Other(p), k)
  /\ \A k \in 0..(Delay - 1) : InputOf(p, k) = Neutral

AgreeInv == \A p \in Peers : Agree(p)

LEMMA InputOfType ==
  ASSUME FlowInv, NEW p \in Peers, NEW k
  PROVE  InputOf(p, k) \in Inputs
<1>1. core[p] \in States /\ local_pending[p] \in InputMaps
  BY PeerFacts DEF FlowInv
<1>2. k \in DOMAIN core[p] => core[p][k] \in Pairs
  BY <1>1 DEF States
<1> QED BY <1>1, <1>2, MapFacts DEF InputOf, Pairs

\* An input is committed once and for all: no step takes one back or changes
\* it, if a waiting caller repeats what it sent.
CommitsStay(p) ==
  Count(p) <= Count(p)' /\ \A k \in 0..(Count(p) - 1) : InputOf(p, k)' = InputOf(p, k)

LEMMA TickSendStays ==
  ASSUME FlowInv, HoldOnWait, NEW p \in Peers, NEW in \in Inputs, TickSend(p, in)
  PROVE  /\ \A r \in Peers : CommitsStay(r)
         /\ InputOf(p, ApplyFrame(p))' = in
         /\ Count(p)' = ApplyFrame(p) + 1
         /\ Count(Other(p))' = Count(Other(p))
<1> DEFINE q == Other(p)
<1>1. q \in Peers /\ q # p /\ \A r \in Peers : r = p \/ r = q
  BY OtherPeer DEF Peers
<1>2. /\ frame' = frame /\ core' = core /\ status[p] \in {"Ok", "Waiting"}
      /\ MayFeed(p, in)
      /\ local_pending'[p] = Put(local_pending[p], ApplyFrame(p), in)
      /\ local_pending'[q] = local_pending[q]
  BY <1>1 DEF TickSend, FlowInv, Types
<1>3. /\ ApplyFrame(p) \in Nat /\ ApplyFrame(p) = frame[p] + Delay
      /\ frame[p] \in Nat /\ Delay \in Nat
      /\ ApplyFrame(p) \in DOMAIN local_pending[p] => Count(p) = ApplyFrame(p) + 1
      /\ ApplyFrame(p) \notin DOMAIN local_pending[p] => Count(p) = ApplyFrame(p)
      /\ Count(q) \in Nat
  BY <1>1, PeerFacts DEF FlowInv
<1>4. /\ ApplyFrame(p) \in DOMAIN local_pending'[p]
      /\ local_pending'[p][ApplyFrame(p)] = in
      /\ \A k : k # ApplyFrame(p) =>
           InputAt(local_pending'[p], k) = InputAt(local_pending[p], k)
  BY <1>2 DEF Put, InputAt
<1>5. Count(p)' = ApplyFrame(p) + 1 /\ Count(q)' = Count(q)
  BY <1>2, <1>3, <1>4 DEF Count, ApplyFrame
<1>6. ApplyFrame(p) \notin DOMAIN core[p]
  BY <1>2, <1>3 DEF FlowInv, InTick
<1>7. InputOf(p, ApplyFrame(p))' = in
  BY <1>2, <1>4, <1>6 DEF InputOf, InputAt, ApplyFrame
<1>8. CommitsStay(p)
  <2>1. ASSUME NEW k \in 0..(Count(p) - 1) PROVE InputOf(p, k)' = InputOf(p, k)
    <3>1. CASE k = ApplyFrame(p)
      <4>1. ApplyFrame(p) \in DOMAIN local_pending[p]
        BY <1>3, <2>1, <3>1
      <4>2. in = local_pending[p][ApplyFrame(p)]
        BY <1>2, <4>1 DEF MayFeed
      <4>3. InputOf(p, ApplyFrame(p)) = in
        BY <1>6, <4>1, <4>2 DEF InputOf, InputAt
      <4> QED BY <1>2, <1>4, <1>6, <3>1, <4>3 DEF InputOf, InputAt
    <3>2. CASE k # ApplyFrame(p)
      BY <1>2, <1>4, <3>2 DEF InputOf
    <3> QED BY <3>1, <3>2
  <2> QED BY <1>3, <1>5, <2>1 DEF CommitsStay
<1>9. CommitsStay(q)
  BY <1>2, <1>3, <1>5 DEF CommitsStay, InputOf
<1> QED BY <1>1, <1>5, <1>7, <1>8, <1>9

LEMMA AdvanceStays ==
  ASSUME FlowInv, NEW p \in Peers, Advance(p)
  PROVE  \A r \in Peers : CommitsStay(r) /\ Count(r)' = Count(r)
<1> DEFINE q == Other(p)
           F == frame[p]
<1>1. q \in Peers /\ q # p /\ \A r \in Peers : r = p \/ r = q
  BY OtherPeer DEF Peers
<1>2. /\ F \in Nat /\ InputFloor(F) \in Nat /\ InputFloor(F) <= F
      /\ Count(p) \in Nat /\ Count(q) \in Nat
  BY <1>1, PeerFacts, FloorFacts DEF FlowInv
<1>3. /\ pc[p] = "recv" /\ core'[p] = Presented(p) /\ core'[q] = core[q]
  <2>1. pc[p] = "recv" /\ core' = [core EXCEPT ![p] = Presented(p)]
    BY AdvanceFacts
  <2> QED BY <1>1, <2>1 DEF FlowInv, Types
<1>4. /\ DOMAIN core[p] = 0..(F - 1) /\ DOMAIN core'[p] = 0..F
      /\ \A k \in DOMAIN core[p] : core'[p][k] = core[p][k]
      /\ core'[p][F][p] = InputAt(local_pending[p], F)
  BY <1>3, PresentedFacts
<1>5. /\ local_pending'[q] = local_pending[q] /\ frame'[q] = frame[q]
      /\ \/ local_pending'[p] = local_pending[p]
         \/ local_pending'[p] = rb_prune_below(local_pending[p], InputFloor(F))
  <2>1. \/ UNCHANGED <<frame, local_pending>>
        \/ /\ frame' = [frame EXCEPT ![p] = F + 1]
           /\ local_pending' = [local_pending EXCEPT
                ![p] = rb_prune_below(local_pending[p], InputFloor(F))]
    BY AdvanceFacts
  <2> QED BY <1>1, <2>1 DEF FlowInv, Types
<1>6. \A k \in Nat : k > F =>
        InputAt(local_pending'[p], k) = InputAt(local_pending[p], k)
  <2>2. CASE local_pending'[p] = rb_prune_below(local_pending[p], InputFloor(F))
    BY <1>2, <2>2 DEF rb_prune_below, InputAt
  <2> QED BY <1>5, <2>2
<1>7. Count(p)' = Count(p)
  BY AdvanceFlow
<1>8. Count(q)' = Count(q)
  BY <1>5 DEF Count, ApplyFrame
<1>9. ASSUME NEW k \in 0..(Count(p) - 1) PROVE InputOf(p, k)' = InputOf(p, k)
  <2>1. CASE k < F
    <3>1. k \in DOMAIN core[p] /\ k \in DOMAIN core'[p]
      BY <1>2, <1>4, <2>1
    <3> QED BY <1>4, <3>1 DEF InputOf
  <2>2. CASE k = F
    BY <1>2, <1>4, <2>2 DEF InputOf
  <2>3. CASE k > F
    BY <1>2, <1>4, <1>6, <2>3 DEF InputOf
  <2> QED BY <1>2, <2>1, <2>2, <2>3
<1>10. ASSUME NEW k \in 0..(Count(q) - 1) PROVE InputOf(q, k)' = InputOf(q, k)
  BY <1>3, <1>5 DEF InputOf
<1> QED BY <1>1, <1>2, <1>7, <1>8, <1>9, <1>10 DEF CommitsStay

\* The other steps leave the commits alone.
LEMMA OthersStay ==
  ASSUME FlowInv, UNCHANGED <<frame, local_pending, core>>
  PROVE  \A p \in Peers : /\ CommitsStay(p) /\ Count(p)' = Count(p)
                          /\ \A k : InputOf(p, k)' = InputOf(p, k)
  BY PeerFacts DEF FlowInv, CommitsStay, Count, ApplyFrame, InputOf

\* Agreement survives a step that keeps the commits, for what was there before.
LEMMA AgreeKept ==
  ASSUME FlowInv, AgreeInv, NEW p \in Peers, CommitsStay(Other(p))
  PROVE  /\ \A k \in DOMAIN remote_pending[p] :
              remote_pending[p][k] = InputOf(Other(p), k)'
         /\ \A i \in DOMAIN chan[p], k \in Nat :
              IsInput(chan[p][i]) /\ chan[p][i].frame = k =>
                chan[p][i].state = InputOf(Other(p), k)'
         /\ \A k \in DOMAIN core[p] : core[p][k][Other(p)] = InputOf(Other(p), k)'
<1> DEFINE q == Other(p)
<1>1. q \in Peers /\ Count(q) \in Nat /\ frame[p] \in Nat
  BY OtherPeer, PeerFacts DEF FlowInv
<1>2. \A k \in DOMAIN remote_pending[p] : k \in 0..(Count(q) - 1)
  <2>1. \A k \in DOMAIN remote_pending[p] : k \in Nat
    BY PeerFacts, MapFacts DEF FlowInv
  <2> QED BY <1>1, <2>1 DEF FlowInv, Known
<1>3. \A i \in DOMAIN chan[p] : IsInput(chan[p][i]) =>
        chan[p][i].frame \in 0..(Count(q) - 1)
  BY <1>1, FramesOfMessages DEF FlowInv, Known
<1>4. \A k \in DOMAIN core[p] : k \in 0..(Count(q) - 1)
  <2>1. \A k \in DOMAIN core[p] : k \in Nat
    BY <1>1 DEF FlowInv, InTick
  <2> QED BY <1>1, <2>1 DEF FlowInv, Known
<1>5. \A k \in 0..(Count(q) - 1) : InputOf(q, k)' = InputOf(q, k)
  BY DEF CommitsStay
<1>6. Agree(p)
  BY DEF AgreeInv
<1>7. \A k \in DOMAIN remote_pending[p] : remote_pending[p][k] = InputOf(q, k)'
  BY <1>2, <1>5, <1>6 DEF Agree
<1>8. \A i \in DOMAIN chan[p], k \in Nat :
        IsInput(chan[p][i]) /\ chan[p][i].frame = k =>
          chan[p][i].state = InputOf(q, k)'
  BY <1>3, <1>5, <1>6 DEF Agree
<1>9. \A k \in DOMAIN core[p] : core[p][k][q] = InputOf(q, k)'
  BY <1>4, <1>5, <1>6 DEF Agree
<1> QED BY <1>7, <1>8, <1>9

LEMMA NeutralKept ==
  ASSUME FlowInv, AgreeInv, NEW p \in Peers, CommitsStay(p)
  PROVE  \A k \in 0..(Delay - 1) : InputOf(p, k)' = Neutral
<1>1. Count(p) \in Nat /\ Delay <= Count(p) /\ Delay \in Nat
  BY PeerFacts DEF FlowInv
<1> QED BY <1>1 DEF CommitsStay, AgreeInv, Agree

LEMMA InitAgree == Init => AgreeInv
<1> SUFFICES ASSUME Init, NEW p \in Peers PROVE Agree(p)
  BY DEF AgreeInv
<1>1. DOMAIN Empty = {}
  BY DEF Empty
<1>2. /\ chan[p] = <<>> /\ core[p] = Empty /\ remote_pending[p] = Empty
      /\ local_pending[p] = Empty
  BY DEF Init
<1>3. DOMAIN chan[p] = {}
  BY <1>2
<1> QED BY <1>1, <1>2, <1>3 DEF Agree, InputOf, InputAt

LEMMA TickSendAgree ==
  ASSUME FlowInv, AgreeInv, HoldOnWait,
         NEW p \in Peers, NEW in \in Inputs, TickSend(p, in)
  PROVE  AgreeInv'
<1> DEFINE q == Other(p)
           m == Sent(p, in)
<1>1. q \in Peers /\ q # p /\ Other(q) = p /\ \A r \in Peers : r = p \/ r = q
  BY OtherPeer DEF Peers
<1>2. UNCHANGED <<frame, remote_pending, core>>
  BY DEF TickSend
<1>3. /\ m \in Messages /\ m.frame = ApplyFrame(p) /\ m.state = in
      /\ chan[q] \in Seq(Messages) /\ Types
  BY <1>1, PeerFacts DEF FlowInv, Sent, InputMsg, Messages
<1>4. /\ chan'[p] = chan[p]
      /\ chan'[q] = Append(chan[q], m) \/ chan'[q] = chan[q]
  <2>1. CASE open
    BY <1>3, <2>1, DeliverFacts DEF TickSend
  <2>2. CASE ~open
    BY <2>2 DEF TickSend
  <2> QED BY <2>1, <2>2
<1>5. /\ CommitsStay(p) /\ CommitsStay(q)
      /\ InputOf(p, ApplyFrame(p))' = in /\ ApplyFrame(p)' = ApplyFrame(p)
  BY <1>1, <1>2, TickSendStays DEF ApplyFrame
<1>6. Agree(p)'
  BY <1>2, <1>4, <1>5, AgreeKept, NeutralKept DEF Agree
<1>7. Agree(q)'
  <2>1. \A i \in DOMAIN chan[q], k \in Nat :
          IsInput(chan[q][i]) /\ chan[q][i].frame = k =>
            chan[q][i].state = InputOf(p, k)'
    BY <1>1, <1>5, AgreeKept
  <2>2. ASSUME NEW i \in DOMAIN chan'[q], NEW k \in Nat,
               IsInput(chan'[q][i]), chan'[q][i].frame = k
        PROVE  chan'[q][i].state = InputOf(p, k)'
    <3>1. CASE i \in DOMAIN chan[q] /\ chan'[q][i] = chan[q][i]
      BY <2>1, <2>2, <3>1
    <3>2. CASE chan'[q][i] = m
      BY <1>3, <1>5, <2>2, <3>2
    <3> QED BY <1>3, <1>4, <3>1, <3>2, AppendFacts
  <2>3. /\ \A k \in DOMAIN remote_pending[q] :
             remote_pending[q][k] = InputOf(p, k)'
        /\ \A k \in DOMAIN core[q] : core[q][k][p] = InputOf(p, k)'
        /\ \A k \in 0..(Delay - 1) : InputOf(q, k)' = Neutral
    BY <1>1, <1>5, AgreeKept, NeutralKept
  <2> QED BY <1>1, <1>2, <2>2, <2>3 DEF Agree
<1> QED BY <1>1, <1>6, <1>7 DEF AgreeInv

LEMMA RecvAgree ==
  ASSUME FlowInv, AgreeInv, NEW p \in Peers, RecvInput(p) \/ RecvChecksum(p)
  PROVE  AgreeInv'
<1> DEFINE q == Other(p)
           m == Head(chan[p])
<1>1. q \in Peers /\ q # p /\ Other(q) = p /\ \A r \in Peers : r = p \/ r = q
  BY OtherPeer DEF Peers
<1>2. PICK type : Receives(p, type)
  BY DEF RecvInput, RecvChecksum
<1>3. /\ m \in Messages /\ m.frame \in Nat
      /\ 1 \in DOMAIN chan[p] /\ m = chan[p][1]
      /\ chan'[q] = chan[q]
      /\ \A i \in DOMAIN chan'[p] :
           i + 1 \in DOMAIN chan[p] /\ chan'[p][i] = chan[p][i + 1]
  BY <1>2, ReceiveFacts
<1>4. /\ UNCHANGED <<frame, local_pending, core>>
      /\ remote_pending'[q] = remote_pending[q]
      /\ \/ remote_pending'[p] = remote_pending[p]
         \/ /\ IsInput(m)
            /\ remote_pending'[p] = Put(remote_pending[p], m.frame, m.state)
  BY <1>1 DEF RecvInput, RecvChecksum, Receives, IsInput, pending, FlowInv, Types
<1>5. CommitsStay(p) /\ CommitsStay(q)
  BY <1>1, <1>4, OthersStay
<1>6. Agree(q)'
  BY <1>1, <1>3, <1>4, <1>5, AgreeKept, NeutralKept DEF Agree
<1>7. \A i \in DOMAIN chan'[p], k \in Nat :
        IsInput(chan'[p][i]) /\ chan'[p][i].frame = k =>
          chan'[p][i].state = InputOf(q, k)'
  BY <1>1, <1>3, <1>5, AgreeKept
<1>8. \A k \in DOMAIN remote_pending'[p] :
        remote_pending'[p][k] = InputOf(q, k)'
  <2>1. \A k \in DOMAIN remote_pending[p] :
          remote_pending[p][k] = InputOf(q, k)'
    BY <1>5, AgreeKept
  <2>2. CASE /\ IsInput(m)
             /\ remote_pending'[p] = Put(remote_pending[p], m.frame, m.state)
    <3>1. \A k \in Nat : k = m.frame => m.state = InputOf(q, k)'
      BY <1>3, <1>5, <2>2, AgreeKept
    <3> QED BY <1>3, <2>1, <2>2, <3>1 DEF Put
  <2> QED BY <1>4, <2>1, <2>2
<1>9. Agree(p)'
  BY <1>4, <1>5, <1>7, <1>8, AgreeKept, NeutralKept DEF Agree
<1> QED BY <1>1, <1>6, <1>9 DEF AgreeInv

LEMMA AdvanceAgree ==
  ASSUME FlowInv, AgreeInv, NEW p \in Peers, Advance(p)
  PROVE  AgreeInv'
<1> DEFINE q == Other(p)
           F == frame[p]
           c == ChecksumMsg(F, Presented(p))
<1>1. q \in Peers /\ q # p /\ Other(q) = p /\ \A r \in Peers : r = p \/ r = q
  BY OtherPeer DEF Peers
<1>2. /\ pc[p] = "recv" /\ ~Owed(p)
      /\ core' = [core EXCEPT ![p] = Presented(p)]
      /\ chan' = chan \/ chan' = Deliver(p, <<c>>)
      /\ \/ remote_pending' = remote_pending
         \/ remote_pending' = [remote_pending EXCEPT
              ![p] = rb_prune_below(remote_pending[p], InputFloor(F))]
  BY AdvanceFacts
<1>3. /\ F \in Nat /\ Delay \in Nat /\ Types /\ chan[q] \in Seq(Messages)
  BY <1>1, PeerFacts DEF FlowInv
<1>4. c \in Messages /\ ~IsInput(c)
  BY <1>2, <1>3, PresentedFacts DEF ChecksumMsg, Messages, IsInput
<1>5. /\ chan'[p] = chan[p]
      /\ chan'[q] = chan[q] \/ chan'[q] = Append(chan[q], c)
  BY <1>2, <1>3, <1>4, DeliverFacts
<1>6. /\ core'[p] = Presented(p) /\ core'[q] = core[q]
      /\ remote_pending'[q] = remote_pending[q]
      /\ \/ remote_pending'[p] = remote_pending[p]
         \/ remote_pending'[p] = rb_prune_below(remote_pending[p], InputFloor(F))
  BY <1>1, <1>2, <1>3 DEF Types
<1>7. CommitsStay(p) /\ CommitsStay(q)
  BY <1>1, AdvanceStays
<1>8. Agree(q)'
  <2>1. \A i \in DOMAIN chan'[q] : IsInput(chan'[q][i]) =>
          i \in DOMAIN chan[q] /\ chan'[q][i] = chan[q][i]
    BY <1>3, <1>4, <1>5, AppendFacts
  <2>2. \A i \in DOMAIN chan'[q], k \in Nat :
          IsInput(chan'[q][i]) /\ chan'[q][i].frame = k =>
            chan'[q][i].state = InputOf(p, k)'
    BY <1>1, <1>7, <2>1, AgreeKept
  <2> QED BY <1>1, <1>6, <1>7, <2>2, AgreeKept, NeutralKept DEF Agree
<1>9. \A k \in DOMAIN remote_pending'[p] :
        remote_pending'[p][k] = InputOf(q, k)'
  <2>1. \A k \in DOMAIN remote_pending[p] : remote_pending[p][k] = InputOf(q, k)'
    BY <1>7, AgreeKept
  <2> QED BY <1>6, <2>1 DEF rb_prune_below
\* The frame just played: a received input, or the neutral one below the delay.
<1>10. Presented(p)[F][q] = InputOf(q, F)
  <2>1. Presented(p)[F][q] = InputAt(remote_pending[p], F)
    BY <1>2, PresentedFacts
  <2>2. CASE F \in DOMAIN remote_pending[p]
    BY <2>1, <2>2 DEF InputAt, AgreeInv, Agree
  <2>3. CASE F \notin DOMAIN remote_pending[p]
    <3>1. F < Delay
      BY <1>2, <1>3, <2>3 DEF Owed
    <3> QED BY <1>1, <1>3, <2>1, <2>3, <3>1 DEF InputAt, AgreeInv, Agree
  <2> QED BY <2>2, <2>3
<1>11. \A k \in DOMAIN core'[p] : core'[p][k][q] = InputOf(q, k)'
  <2>1. F < Count(q) /\ Count(q) \in Nat
    <3>1. Count(q) \in Nat /\ Delay <= Count(q)
      BY <1>1, PeerFacts DEF FlowInv
    <3> QED BY <1>2, <1>3, <3>1 DEF Owed, FlowInv, Known
  <2>2. \A k \in 0..(Count(q) - 1) : InputOf(q, k)' = InputOf(q, k)
    BY <1>7 DEF CommitsStay
  <2>3. /\ DOMAIN core'[p] = 0..F /\ DOMAIN core[p] = 0..(F - 1)
        /\ \A k \in DOMAIN core[p] : core'[p][k] = core[p][k]
    BY <1>2, <1>6, PresentedFacts
  <2>4. ASSUME NEW k \in DOMAIN core'[p] PROVE core'[p][k][q] = InputOf(q, k)'
    <3>1. CASE k = F
      BY <1>3, <1>6, <1>10, <2>1, <2>2, <3>1
    <3>2. CASE k \in DOMAIN core[p]
      BY <1>7, <2>3, <3>2, AgreeKept
    <3> QED BY <1>3, <2>3, <2>4, <3>1, <3>2
  <2> QED BY <2>4
<1>12. Agree(p)'
  <2>1. \A i \in DOMAIN chan'[p], k \in Nat :
          IsInput(chan'[p][i]) /\ chan'[p][i].frame = k =>
            chan'[p][i].state = InputOf(q, k)'
    BY <1>5, <1>7, AgreeKept
  <2> QED BY <1>7, <1>9, <1>11, <2>1, NeutralKept DEF Agree
<1> QED BY <1>1, <1>8, <1>12 DEF AgreeInv

LEMMA QuietAgree ==
  ASSUME FlowInv, AgreeInv, UNCHANGED <<frame, pending, core, chan>>
  PROVE  AgreeInv'
<1>1. UNCHANGED <<frame, local_pending, remote_pending, core, chan>>
  BY DEF pending
<1> QED BY <1>1 DEF AgreeInv, Agree, InputOf

LEMMA StepAgree ==
  ASSUME FlowInv, AgreeInv, HoldOnWait, [Next]_vars
  PROVE  AgreeInv'
<1>1. ASSUME NEW p \in Peers, NEW in \in Inputs, TickSend(p, in) PROVE AgreeInv'
  BY <1>1, TickSendAgree
<1>2. ASSUME NEW p \in Peers, RecvInput(p) \/ RecvChecksum(p) PROVE AgreeInv'
  BY <1>2, RecvAgree
<1>3. ASSUME NEW p \in Peers, Timeout(p) \/ RecvError(p) PROVE AgreeInv'
  BY <1>3, QuietAgree DEF Timeout, RecvError
<1>4. ASSUME NEW p \in Peers, Advance(p) PROVE AgreeInv'
  BY <1>4, AdvanceAgree
<1>5. CASE Close
  BY <1>5, QuietAgree DEF Close
<1>6. CASE UNCHANGED vars
  BY <1>6, QuietAgree DEF vars
<1> QED BY <1>1, <1>2, <1>3, <1>4, <1>5, <1>6 DEF Next

\* Committed, by its two parts.
LEMMA CommittedIs ==
  ASSUME NEW p \in Peers
  PROVE  /\ Committed(p) = [k \in 0..(Count(p) - 1) |-> InputOf(p, k)]
         /\ Committed(p)' = [k \in 0..(Count(p)' - 1) |-> InputOf(p, k)']
  BY DEF Committed, Count, InputOf

LEMMA CommittedKept ==
  ASSUME NEW p \in Peers, CommitsStay(p), Count(p)' = Count(p)
  PROVE  Committed(p)' = Committed(p)
<1>1. PICK n : n = Count(p)
  OBVIOUS
<1>2. \A k \in 0..(n - 1) : InputOf(p, k)' = InputOf(p, k)
  BY <1>1 DEF CommitsStay
<1>3. /\ Committed(p) = [k \in 0..(n - 1) |-> InputOf(p, k)]
      /\ Committed(p)' = [k \in 0..(n - 1) |-> InputOf(p, k)']
  BY <1>1, CommittedIs
<1> QED BY <1>2, <1>3

\* A history of n frames has length n.
LEMMA LengthIs ==
  ASSUME NEW n \in Nat, NEW m, DOMAIN m = 0..(n - 1)
  PROVE  Abstract!Length(m) = n
<1>1. CASE n = 0
  BY <1>1 DEF Abstract!Length
<1>2. CASE n # 0
  <2>1. n - 1 \in DOMAIN m /\ \A k \in DOMAIN m : k <= n - 1
    BY <1>2
  <2>2. ASSUME NEW f \in DOMAIN m, \A k \in DOMAIN m : k <= f
        PROVE  f = n - 1
    <3>1. f \in 0..(n - 1) /\ n - 1 <= f
      BY <2>1, <2>2
    <3> QED BY <3>1
  <2> DEFINE max == CHOOSE f \in DOMAIN m : \A k \in DOMAIN m : k <= f
  <2>3. max \in DOMAIN m /\ \A k \in DOMAIN m : k <= max
    BY <2>1
  <2>4. Abstract!Length(m) = 1 + max
    BY <2>1 DEF Abstract!Length
  <2> HIDE DEF max
  <2>5. max = n - 1
    BY <2>2, <2>3
  <2> QED BY <2>4, <2>5
<1> QED BY <1>1, <1>2

LEMMA InitRefines == Init => Abstract!LockstepInit
<1> SUFFICES ASSUME Init PROVE Abstract!LockstepInit
  OBVIOUS
<1>1. ASSUME NEW p \in Peers
      PROVE  Committed(p) = [f \in 0..(Delay - 1) |-> Neutral]
  <2>1. local_pending[p] = Empty /\ core[p] = Empty /\ frame[p] = 0
    BY DEF Init
  <2>2. DOMAIN Empty = {}
    BY DEF Empty
  <2>3. Count(p) = Delay /\ \A k : InputOf(p, k) = Neutral
    BY <2>1, <2>2, DelayAssumption DEF Count, ApplyFrame, InputOf, InputAt
  <2> QED BY <2>3, CommittedIs
<1>2. core = [p \in Peers |-> Abstract!Empty]
  BY DEF Init, Empty, Abstract!Empty
<1> QED BY <1>1, <1>2 DEF Abstract!LockstepInit, Abstract!Peers, Peers

\* A first send commits an input, a repeated one changes nothing.
LEMMA TickSendRefines ==
  ASSUME FlowInv, HoldOnWait, NEW p \in Peers, NEW in \in Inputs, TickSend(p, in)
  PROVE  [Abstract!LockstepNext]_(Abstract!lockstep)
<1> DEFINE q == Other(p)
<1>1. q \in Peers /\ q # p /\ \A r \in Peers : r = p \/ r = q
  BY OtherPeer DEF Peers
<1>2. /\ CommitsStay(p) /\ CommitsStay(q)
      /\ Count(p)' = ApplyFrame(p) + 1 /\ Count(q)' = Count(q)
      /\ \A k \in Nat : k = ApplyFrame(p) => InputOf(p, k)' = in
  <2>1. ApplyFrame(p)' = ApplyFrame(p)
    BY DEF TickSend, ApplyFrame
  <2> QED BY <1>1, <2>1, TickSendStays
<1>n. PICK n : n = Count(p)
  OBVIOUS
<1>3. /\ n \in Nat /\ ApplyFrame(p) \in Nat /\ Count(q) \in Nat
      /\ n = ApplyFrame(p) \/ n = ApplyFrame(p) + 1
  BY <1>1, <1>n, PeerFacts DEF FlowInv
<1>4. core' = core
  BY DEF TickSend
<1>5. Committed(q)' = Committed(q)
  BY <1>1, <1>2, CommittedKept
<1>6. CASE n = ApplyFrame(p) + 1
  <2>1. Committed(p)' = Committed(p)
    BY <1>n, <1>2, <1>6, CommittedKept
  <2>2. [r \in Peers |-> Committed(r)]' = [r \in Peers |-> Committed(r)]
    BY <1>1, <1>5, <2>1
  <2> QED BY <1>4, <2>2 DEF Abstract!lockstep
<1>7. CASE n = ApplyFrame(p)
  <2>1. Abstract!Length(Committed(p)) = n
    <3>1. DOMAIN Committed(p) = 0..(n - 1)
      BY <1>n, CommittedIs
    <3> QED BY <1>3, <3>1, LengthIs
  <2>2. Committed(p)' = Abstract!Put(Committed(p), n, in)
    <3>1. Committed(p) = [k \in 0..(n - 1) |-> InputOf(p, k)]
      BY <1>n, CommittedIs
    <3>2. Committed(p)' = [k \in 0..n |-> InputOf(p, k)']
      <4>1. Count(p)' - 1 = n
        BY <1>2, <1>3, <1>7
      <4> QED BY <4>1, CommittedIs
    <3>3. 0..(n - 1) \union {n} = 0..n
      BY <1>3
    <3>4. \A k \in 0..(n - 1) : InputOf(p, k)' = InputOf(p, k) /\ k # n
      BY <1>n, <1>2, <1>3 DEF CommitsStay
    <3>5. InputOf(p, n)' = in
      BY <1>2, <1>3, <1>7
    <3> QED BY <3>1, <3>2, <3>3, <3>4, <3>5 DEF Abstract!Put
  <2>3. [r \in Peers |-> Committed(r)]'
          = [[r \in Peers |-> Committed(r)] EXCEPT
               ![p] = Abstract!Put(@, Abstract!Length(@), in)]
    BY <1>1, <1>5, <2>1, <2>2
  <2>4. Abstract!Commit(p)
    BY <1>4, <2>3 DEF Abstract!Commit
  <2> QED BY <2>4 DEF Abstract!LockstepNext, Abstract!Peers, Peers
<1> QED BY <1>3, <1>6, <1>7

\* A frame played settles the committed pair of that frame.
LEMMA AdvanceRefines ==
  ASSUME FlowInv, AgreeInv, NEW p \in Peers, Advance(p)
  PROVE  Abstract!Play(p)
<1> DEFINE q == Other(p)
<1>1. q \in Peers /\ q # p /\ \A r \in Peers : r = p \/ r = q
  BY OtherPeer DEF Peers
<1>2. PICK F \in Nat : F = frame[p]
  BY PeerFacts DEF FlowInv
<1>3. /\ pc[p] = "recv" /\ ~Owed(p)
      /\ core' = [core EXCEPT ![p] = Presented(p)]
  BY AdvanceFacts
<1>4. /\ F < MaxFrame /\ Count(p) = F + Delay + 1 /\ Delay \in Nat
      /\ Count(q) \in Nat /\ Delay <= Count(q) /\ MaxFrame \in Nat
      /\ Count(p) \in Nat
  BY <1>1, <1>2, <1>3, PeerFacts, SMTT(30) DEF FlowInv, InTick
<1>5. F < Count(q)
  BY <1>2, <1>3, <1>4 DEF Owed, FlowInv, Known
<1>6. /\ Presented(p) \in [0..F -> Pairs] /\ DOMAIN core[p] = 0..(F - 1)
      /\ \A k \in DOMAIN core[p] : Presented(p)[k] = core[p][k]
      /\ Presented(p)[F][p] = InputAt(local_pending[p], F)
      /\ Presented(p)[F][q] = InputAt(remote_pending[p], F)
  BY <1>2, <1>3, PresentedFacts
<1>7. ASSUME NEW k \in 0..F
      PROVE  Presented(p)[k][p] = InputOf(p, k) /\ Presented(p)[k][q] = InputOf(q, k)
  <2>1. CASE k \in DOMAIN core[p]
    BY <1>6, <2>1 DEF InputOf, AgreeInv, Agree
  <2>2. CASE k = F
    <3>1. Presented(p)[F][p] = InputOf(p, F)
      BY <1>2, <1>6 DEF InputOf
    <3>2. CASE F \in DOMAIN remote_pending[p]
      BY <1>6, <2>2, <3>1, <3>2 DEF InputAt, AgreeInv, Agree
    <3>3. CASE F \notin DOMAIN remote_pending[p]
      <4>1. F \in 0..(Delay - 1)
        BY <1>2, <1>3, <1>4, <3>3 DEF Owed
      <4> QED BY <1>1, <1>6, <2>2, <3>1, <3>3, <4>1 DEF InputAt, AgreeInv, Agree
    <3> QED BY <3>2, <3>3
  <2> QED BY <1>2, <1>6, <2>1, <2>2
<1>8. \A r \in Peers : /\ DOMAIN Committed(r) = 0..(Count(r) - 1)
                       /\ \A k \in 0..(Count(r) - 1) :
                            Committed(r)[k] = InputOf(r, k)
  BY CommittedIs
<1>9. Presented(p) = [k \in 0..F |-> [r \in Peers |-> Committed(r)[k]]]
  <2>1. ASSUME NEW k \in 0..F
        PROVE  Presented(p)[k] = [r \in Peers |-> Committed(r)[k]]
    <3>1. Presented(p)[k] \in [Peers -> Inputs]
      BY <1>6 DEF Pairs
    <3>2. k \in 0..(Count(p) - 1) /\ k \in 0..(Count(q) - 1)
      BY <1>4, <1>5, <1>2
    <3>3. \A r \in Peers : Presented(p)[k][r] = Committed(r)[k]
      BY <1>1, <1>7, <1>8, <3>2
    <3> QED BY <3>1, <3>3
  <2> QED BY <1>6, <2>1
<1>10. core' = [core EXCEPT ![p] =
                  [k \in 0..((F + 1) - 1) |->
                     [r \in Peers |-> [s \in Peers |-> Committed(s)][r][k]]]]
  <2>1. (F + 1) - 1 = F
    BY <1>2
  <2>2. [k \in 0..F |-> [r \in Peers |-> [s \in Peers |-> Committed(s)][r][k]]]
          = [k \in 0..F |-> [r \in Peers |-> Committed(r)[k]]]
    OBVIOUS
  <2> QED BY <1>3, <1>9, <2>1, <2>2
<1>11. /\ Abstract!Length(core[p]) = F
       /\ \A r \in Peers : Abstract!Length(Committed(r)) = Count(r)
  <2>1. \A r \in Peers : Count(r) \in Nat
    BY <1>1, <1>4
  <2> QED BY <1>2, <1>6, <1>8, <2>1, LengthIs
<1>12. F + 1 \in 1..MaxFrame /\ F + 1 > F /\ \A r \in Peers : F + 1 <= Count(r)
  BY <1>1, <1>2, <1>4, <1>5
<1>13. [r \in Peers |-> Committed(r)]' = [r \in Peers |-> Committed(r)]
  <2>1. \A r \in Peers : Committed(r)' = Committed(r)
    BY AdvanceStays, CommittedKept
  <2> QED BY <2>1
<1> QED
  BY <1>10, <1>11, <1>12, <1>13 DEF Abstract!Play, Abstract!Peers, Peers

LEMMA QuietRefines ==
  ASSUME FlowInv, UNCHANGED <<frame, local_pending, core>>
  PROVE  UNCHANGED Abstract!lockstep
<1>1. \A r \in Peers : Committed(r)' = Committed(r)
  BY OthersStay, CommittedKept
<1> QED BY <1>1 DEF Abstract!lockstep

LEMMA StepRefines ==
  ASSUME FlowInv, AgreeInv, HoldOnWait, [Next]_vars
  PROVE  [Abstract!LockstepNext]_(Abstract!lockstep)
<1> DEFINE Goal == [Abstract!LockstepNext]_(Abstract!lockstep)
<1>1. ASSUME NEW p \in Peers, NEW in \in Inputs, TickSend(p, in) PROVE Goal
  BY <1>1, TickSendRefines
<1>2. ASSUME NEW p \in Peers, Advance(p) PROVE Goal
  <2>1. Abstract!Play(p)
    BY <1>2, AdvanceRefines
  <2> QED BY <2>1 DEF Abstract!LockstepNext, Abstract!Peers, Peers
<1>3. ASSUME UNCHANGED <<frame, local_pending, core>> PROVE Goal
  BY <1>3, QuietRefines
<1>4. ASSUME NEW p \in Peers,
             RecvInput(p) \/ RecvChecksum(p) \/ Timeout(p) \/ RecvError(p)
      PROVE  UNCHANGED <<frame, local_pending, core>>
  BY <1>4 DEF RecvInput, RecvChecksum, Timeout, RecvError, pending
<1>5. Close \/ UNCHANGED vars => UNCHANGED <<frame, local_pending, core>>
  BY DEF Close, vars, pending
<1> HIDE DEF Goal
<1>6. Goal
  BY <1>1, <1>2, <1>3, <1>4, <1>5 DEF Next
<1> QED BY <1>6 DEF Goal

\* A lockstep session whose waiting callers repeat the input they sent replays,
\* on both sides and frame after frame, the inputs both players committed:
\* it implements Lockstep, for every delay and every number of frames.
THEOREM SessionImplementsLockstep ==
  ASSUME HoldOnWait
  PROVE  Spec => ImplementsLockstep
<1>1. Spec => []AgreeInv
  BY InitAgree, StepAgree, FlowInvariant, PTL DEF Spec
<1> QED
  BY <1>1, InitRefines, StepRefines, FlowInvariant, PTL
  DEF Spec, ImplementsLockstep, Abstract!LockstepSpec

-----------------------------------------------------------------------------
\* The two games, and what the checksums say of them.

\* Both sides have the same pair for every frame that both have played.
SameGame ==
  \A p \in Peers : \A k \in DOMAIN core[p] \intersect DOMAIN core[Other(p)] :
    core[p][k] = core[Other(p)][k]

\* No checksum differs from its counterpart, and no session has said so.
NoMismatch == \A p \in Peers : ~Mismatch(own_crc[p], peer_crc[p])
NeverDesync == \A p \in Peers : status[p] # "Desync"

\* A checksum, kept or travelling, is that of a frame its side has played.
IsSumOf(p, f, c) == f \in DOMAIN core[p] /\ c = Take(core[p], f + 1)
Sums(p) ==
  LET q == Other(p) IN
  /\ \A f \in DOMAIN own_crc[p] : IsSumOf(p, f, own_crc[p][f])
  /\ \A f \in DOMAIN peer_crc[p] : IsSumOf(q, f, peer_crc[p][f])
  /\ \A i \in DOMAIN chan[p], f \in Nat :
       ~IsInput(chan[p][i]) /\ chan[p][i].frame = f =>
         IsSumOf(q, f, chan[p][i].crc)
SumsInv == \A p \in Peers : Sums(p)

\* The core of a session keeps the frames it has played.
PlayedStays(p) ==
  \A k \in DOMAIN core[p] : k \in DOMAIN core'[p] /\ core'[p][k] = core[p][k]

LEMMA SumStays ==
  ASSUME FlowInv, NEW p \in Peers, PlayedStays(p)
  PROVE  \A f, c : IsSumOf(p, f, c) => IsSumOf(p, f, c)'
<1> SUFFICES ASSUME NEW f, NEW c, IsSumOf(p, f, c) PROVE IsSumOf(p, f, c)'
  OBVIOUS
<1>1. PICK n \in Nat : DOMAIN core[p] = 0..(n - 1)
  BY PeerFacts DEF FlowInv, States
<1>2. f \in DOMAIN core[p] /\ c = [k \in 0..((f + 1) - 1) |-> core[p][k]]
  BY DEF IsSumOf, Take
<1>3. \A k \in 0..((f + 1) - 1) : k \in DOMAIN core[p]
  BY <1>1, <1>2
<1>4. \A k \in 0..((f + 1) - 1) : core'[p][k] = core[p][k]
  BY <1>3 DEF PlayedStays
<1>5. c = [k \in 0..((f + 1) - 1) |-> core'[p][k]]
  BY <1>2, <1>4
<1>6. f \in DOMAIN core'[p]
  BY <1>2 DEF PlayedStays
<1> QED BY <1>5, <1>6 DEF IsSumOf, Take

\* What a step keeps of Sums, for the checksums that were there before.
LEMMA SumsKept ==
  ASSUME FlowInv, SumsInv, NEW p \in Peers,
         PlayedStays(p), PlayedStays(Other(p))
  PROVE  LET q == Other(p) IN
         /\ \A f \in DOMAIN own_crc[p] : \A s :
              s = own_crc[p][f] => IsSumOf(p, f, s)'
         /\ \A f \in DOMAIN peer_crc[p] : \A s :
              s = peer_crc[p][f] => IsSumOf(q, f, s)'
         /\ \A i \in DOMAIN chan[p], f \in Nat : \A s :
              ~IsInput(chan[p][i]) /\ chan[p][i].frame = f /\ s = chan[p][i].crc
                => IsSumOf(q, f, s)'
<1> DEFINE q == Other(p)
<1>1. q \in Peers /\ Sums(p)
  BY OtherPeer DEF SumsInv
<1>2. /\ \A f, s : IsSumOf(p, f, s) => IsSumOf(p, f, s)'
      /\ \A f, s : IsSumOf(q, f, s) => IsSumOf(q, f, s)'
  BY <1>1, SumStays
<1>3. /\ \A f \in DOMAIN own_crc[p] : IsSumOf(p, f, own_crc[p][f])
      /\ \A f \in DOMAIN peer_crc[p] : IsSumOf(q, f, peer_crc[p][f])
      /\ \A i \in DOMAIN chan[p], f \in Nat :
           ~IsInput(chan[p][i]) /\ chan[p][i].frame = f =>
             IsSumOf(q, f, chan[p][i].crc)
  BY <1>1 DEF Sums
<1>4. \A f \in DOMAIN own_crc[p] : \A s : s = own_crc[p][f] => IsSumOf(p, f, s)'
  BY <1>2, <1>3
<1>5. \A f \in DOMAIN peer_crc[p] : \A s : s = peer_crc[p][f] => IsSumOf(q, f, s)'
  BY <1>2, <1>3
<1>6. \A i \in DOMAIN chan[p], f \in Nat : \A s :
        ~IsInput(chan[p][i]) /\ chan[p][i].frame = f /\ s = chan[p][i].crc
          => IsSumOf(q, f, s)'
  BY <1>2, <1>3
<1> QED BY <1>4, <1>5, <1>6

LEMMA InitSums == Init => SumsInv
<1> SUFFICES ASSUME Init, NEW p \in Peers PROVE Sums(p)
  BY DEF SumsInv
<1>1. /\ chan[p] = <<>> /\ own_crc[p] = Empty /\ peer_crc[p] = Empty
      /\ DOMAIN Empty = {}
  BY DEF Init, Empty
<1>2. DOMAIN chan[p] = {}
  BY <1>1
<1> QED BY <1>1, <1>2 DEF Sums

LEMMA QuietSums ==
  ASSUME SumsInv, UNCHANGED <<own_crc, peer_crc, core, chan>>
  PROVE  SumsInv'
  BY DEF SumsInv, Sums, IsSumOf, Take

LEMMA TickSendSums ==
  ASSUME FlowInv, SumsInv, NEW p \in Peers, NEW in \in Inputs, TickSend(p, in)
  PROVE  SumsInv'
<1> DEFINE q == Other(p)
<1>1. q \in Peers /\ q # p /\ Other(q) = p /\ \A r \in Peers : r = p \/ r = q
  BY OtherPeer DEF Peers
<1>2. PICK m : m = Sent(p, in)
  OBVIOUS
<1>3. m \in Messages /\ IsInput(m)
  BY <1>2, PeerFacts DEF Sent, InputMsg, Messages, IsInput, FlowInv
<1>4. /\ UNCHANGED <<own_crc, peer_crc, core>>
      /\ chan' = chan \/ chan' = Deliver(p, <<m>>)
  BY <1>2 DEF TickSend, crcs
<1>5. \A r \in Peers : \A i \in DOMAIN chan'[r] : ~IsInput(chan'[r][i]) =>
        i \in DOMAIN chan[r] /\ chan'[r][i] = chan[r][i]
  <2>1. CASE chan' = chan
    BY <2>1
  <2>2. CASE chan' = Deliver(p, <<m>>)
    <3>1. /\ chan'[p] = chan[p]
          /\ chan'[q] = chan[q] \/ chan'[q] = Append(chan[q], m)
      BY <1>3, <2>2, DeliverFacts DEF FlowInv
    <3>2. CASE chan'[q] = Append(chan[q], m)
      <4>1. chan[q] \in Seq(Messages)
        BY <1>1 DEF FlowInv, Types
      <4>2. /\ DOMAIN chan'[q] = 1..(Len(chan[q]) + 1) /\ Len(chan[q]) \in Nat
            /\ DOMAIN chan[q] = 1..Len(chan[q])
            /\ chan'[q][Len(chan[q]) + 1] = m
            /\ \A i \in DOMAIN chan[q] : chan'[q][i] = chan[q][i]
        BY <1>3, <3>2, <4>1, AppendFacts
      <4>3. \A i \in DOMAIN chan'[q] :
              i \in DOMAIN chan[q] \/ i = Len(chan[q]) + 1
        BY <4>2
      <4> QED BY <1>1, <1>3, <3>1, <4>2, <4>3
    <3> QED BY <1>1, <3>1, <3>2
  <2> QED BY <1>4, <2>1, <2>2
<1>6. ASSUME NEW r \in Peers PROVE Sums(r)'
  <2>1. Sums(r)
    BY DEF SumsInv
  <2>2. \A i \in DOMAIN chan'[r] : ~IsInput(chan'[r][i]) =>
          i \in DOMAIN chan[r] /\ chan'[r][i] = chan[r][i]
    BY <1>5
  <2> QED BY <1>4, <2>1, <2>2 DEF Sums, IsSumOf, Take
<1> QED BY <1>6 DEF SumsInv

LEMMA RecvSums ==
  ASSUME FlowInv, CrcInv, SumsInv, NEW p \in Peers,
         RecvInput(p) \/ RecvChecksum(p)
  PROVE  SumsInv'
<1> DEFINE q == Other(p)
<1>1. q \in Peers /\ q # p /\ Other(q) = p /\ \A r \in Peers : r = p \/ r = q
  BY OtherPeer DEF Peers
<1>2. PICK type : Receives(p, type)
  BY DEF RecvInput, RecvChecksum
<1>m. PICK m : m = Head(chan[p])
  OBVIOUS
<1>3. /\ m.frame \in Nat /\ 1 \in DOMAIN chan[p] /\ m = chan[p][1]
      /\ chan'[q] = chan[q]
      /\ \A i \in DOMAIN chan'[p] :
           i + 1 \in DOMAIN chan[p] /\ chan'[p][i] = chan[p][i + 1]
  BY <1>2, <1>m, ReceiveFacts
<1>4. UNCHANGED <<own_crc, core>>
  BY DEF RecvInput, RecvChecksum, crcs
<1>5. Sums(p) /\ Sums(q)
  BY <1>1 DEF SumsInv
<1>6. /\ peer_crc'[q] = peer_crc[q]
      /\ \/ peer_crc'[p] = peer_crc[p]
         \/ ~IsInput(m) /\ peer_crc'[p] = Put(peer_crc[p], m.frame, m.crc)
  <2>1. CASE RecvInput(p)
    BY <2>1 DEF RecvInput, crcs
  <2>2. CASE RecvChecksum(p)
    <3>1. /\ m.type = "Checksum"
          /\ peer_crc' = [peer_crc EXCEPT ![p] = Put(@, m.frame, m.crc)]
      BY <1>m, <2>2 DEF RecvChecksum, Receives
    <3>2. /\ peer_crc'[q] = peer_crc[q]
          /\ peer_crc'[p] = Put(peer_crc[p], m.frame, m.crc)
      BY <1>1, <3>1 DEF CrcInv, CrcTypes
    <3> QED BY <3>1, <3>2 DEF IsInput
  <2> QED BY <2>1, <2>2
<1>7. \A f \in DOMAIN peer_crc'[p] : IsSumOf(q, f, peer_crc'[p][f])
  <2>1. CASE peer_crc'[p] = peer_crc[p]
    BY <1>5, <2>1 DEF Sums
  <2>2. CASE ~IsInput(m) /\ peer_crc'[p] = Put(peer_crc[p], m.frame, m.crc)
    <3>1. /\ DOMAIN peer_crc'[p] = DOMAIN peer_crc[p] \union {m.frame}
          /\ peer_crc'[p][m.frame] = m.crc
          /\ \A k \in DOMAIN peer_crc[p] :
               k # m.frame => peer_crc'[p][k] = peer_crc[p][k]
      BY <2>2 DEF Put
    <3>2. IsSumOf(q, m.frame, m.crc)
      BY <1>3, <1>5, <2>2 DEF Sums
    <3>3. ASSUME NEW f \in DOMAIN peer_crc'[p]
          PROVE  IsSumOf(q, f, peer_crc'[p][f])
      <4>1. CASE f = m.frame
        BY <3>1, <3>2, <4>1
      <4>2. CASE f # m.frame
        BY <1>5, <3>1, <3>3, <4>2 DEF Sums
      <4> QED BY <4>1, <4>2
    <3> QED BY <3>3
  <2> QED BY <1>6, <2>1, <2>2
<1>8. \A i \in DOMAIN chan'[p], f \in Nat :
        ~IsInput(chan'[p][i]) /\ chan'[p][i].frame = f =>
          IsSumOf(q, f, chan'[p][i].crc)
  BY <1>3, <1>5 DEF Sums
<1>9. Sums(p)'
  <2>1. \A f \in DOMAIN own_crc[p] : IsSumOf(p, f, own_crc[p][f])
    BY <1>5 DEF Sums
  <2> QED BY <1>4, <1>7, <1>8, <2>1 DEF Sums, IsSumOf, Take
<1>10. Sums(q)'
  BY <1>1, <1>3, <1>4, <1>5, <1>6 DEF Sums, IsSumOf, Take
<1> QED BY <1>1, <1>9, <1>10 DEF SumsInv

LEMMA AdvanceSums ==
  ASSUME FlowInv, CrcInv, SumsInv, NEW p \in Peers, Advance(p)
  PROVE  SumsInv'
<1> DEFINE q == Other(p)
<1>1. q \in Peers /\ q # p /\ Other(q) = p /\ \A r \in Peers : r = p \/ r = q
  BY OtherPeer DEF Peers
<1>2. PICK F \in Nat : F = frame[p]
  BY PeerFacts DEF FlowInv
<1>c. PICK c : c = Presented(p)
  OBVIOUS
<1>3. /\ pc[p] = "recv"
      /\ core' = [core EXCEPT ![p] = c]
      /\ chan' = chan \/ chan' = Deliver(p, <<ChecksumMsg(F, c)>>)
  BY <1>2, <1>c, AdvanceFacts
<1>4. /\ c \in [0..F -> Pairs] /\ c \in States
      /\ DOMAIN core[p] = 0..(F - 1)
      /\ \A k \in DOMAIN core[p] : c[k] = core[p][k]
  BY <1>2, <1>c, <1>3, PresentedFacts
<1>5. core'[p] = c /\ core'[q] = core[q]
  BY <1>1, <1>3 DEF FlowInv, Types
<1>6. PlayedStays(p) /\ PlayedStays(q)
  BY <1>2, <1>4, <1>5 DEF PlayedStays
<1>7. IsSumOf(p, F, c)'
  <2>1. F \in DOMAIN core'[p]
    BY <1>2, <1>4, <1>5
  <2>2. c = [k \in 0..F |-> core'[p][k]]
    BY <1>4, <1>5
  <2>3. (F + 1) - 1 = F
    BY <1>2
  <2> QED BY <2>1, <2>2, <2>3 DEF IsSumOf, Take
<1>8. /\ \A f \in DOMAIN own_crc[p] : \A s : s = own_crc[p][f] => IsSumOf(p, f, s)'
      /\ \A f \in DOMAIN peer_crc[p] : \A s : s = peer_crc[p][f] => IsSumOf(q, f, s)'
      /\ \A i \in DOMAIN chan[p], f \in Nat : \A s :
           ~IsInput(chan[p][i]) /\ chan[p][i].frame = f /\ s = chan[p][i].crc
             => IsSumOf(q, f, s)'
      /\ \A f \in DOMAIN own_crc[q] : \A s : s = own_crc[q][f] => IsSumOf(q, f, s)'
      /\ \A f \in DOMAIN peer_crc[q] : \A s : s = peer_crc[q][f] => IsSumOf(p, f, s)'
      /\ \A i \in DOMAIN chan[q], f \in Nat : \A s :
           ~IsInput(chan[q][i]) /\ chan[q][i].frame = f /\ s = chan[q][i].crc
             => IsSumOf(p, f, s)'
  BY <1>1, <1>6, SumsKept
<1>o. PICK own : own = IF ChecksumDue(p) THEN Put(own_crc[p], F, c) ELSE own_crc[p]
  OBVIOUS
<1>9. \A f \in DOMAIN own : \A s : s = own[f] => IsSumOf(p, f, s)'
  <2>1. CASE own = own_crc[p]
    BY <1>8, <2>1
  <2>2. CASE own = Put(own_crc[p], F, c)
    <3>1. /\ DOMAIN own = DOMAIN own_crc[p] \union {F} /\ own[F] = c
          /\ \A k \in DOMAIN own_crc[p] : k # F => own[k] = own_crc[p][k]
      BY <2>2 DEF Put
    <3> QED BY <1>7, <1>8, <3>1
  <2> QED BY <1>o, <2>1, <2>2
<1>10. /\ own_crc'[q] = own_crc[q] /\ peer_crc'[q] = peer_crc[q]
       /\ \A f \in DOMAIN own_crc'[p] : f \in DOMAIN own /\ own_crc'[p][f] = own[f]
       /\ \A f \in DOMAIN peer_crc'[p] :
            f \in DOMAIN peer_crc[p] /\ peer_crc'[p][f] = peer_crc[p][f]
  <2>1. \/ peer_crc' = peer_crc /\ own_crc' = [own_crc EXCEPT ![p] = own]
        \/ /\ own_crc' = [own_crc EXCEPT ![p] = rb_prune_below(own, CrcFloor(F))]
           /\ peer_crc' = [peer_crc EXCEPT
                ![p] = rb_prune_below(peer_crc[p], CrcFloor(F))]
    BY <1>2, <1>c, <1>o, AdvanceCrcFacts
  <2>2. DOMAIN own_crc = Peers /\ DOMAIN peer_crc = Peers
    BY DEF CrcInv, CrcTypes
  <2>3. CASE peer_crc' = peer_crc /\ own_crc' = [own_crc EXCEPT ![p] = own]
    BY <1>1, <2>2, <2>3
  <2>4. CASE /\ own_crc' = [own_crc EXCEPT ![p] = rb_prune_below(own, CrcFloor(F))]
             /\ peer_crc' = [peer_crc EXCEPT
                  ![p] = rb_prune_below(peer_crc[p], CrcFloor(F))]
    BY <1>1, <2>2, <2>4 DEF rb_prune_below
  <2> QED BY <2>1, <2>3, <2>4
<1>11. /\ \A f \in DOMAIN own_crc'[p] : IsSumOf(p, f, own_crc[p][f])'
       /\ \A f \in DOMAIN peer_crc'[p] : IsSumOf(q, f, peer_crc[p][f])'
  <2>1. \A f \in DOMAIN own_crc'[p] : \A s :
          s = own_crc'[p][f] => IsSumOf(p, f, s)'
    BY <1>9, <1>10
  <2>2. \A f \in DOMAIN peer_crc'[p] : \A s :
          s = peer_crc'[p][f] => IsSumOf(q, f, s)'
    BY <1>8, <1>10
  <2> QED BY <2>1, <2>2 DEF IsSumOf
<1>12. /\ chan'[p] = chan[p]
       /\ \A i \in DOMAIN chan'[q], f \in Nat : \A s :
            ~IsInput(chan'[q][i]) /\ chan'[q][i].frame = f /\ s = chan'[q][i].crc
              => IsSumOf(p, f, s)'
  <2>m. PICK m : m = ChecksumMsg(F, c)
    OBVIOUS
  <2>1. m \in Messages /\ m.frame = F /\ m.crc = c
    BY <1>4, <2>m DEF ChecksumMsg, Messages
  <2>2. CASE chan' = chan
    BY <1>8, <2>2
  <2>3. CASE chan' = Deliver(p, <<m>>)
    <3>1. /\ chan'[p] = chan[p]
          /\ chan'[q] = chan[q] \/ chan'[q] = Append(chan[q], m)
      BY <2>1, <2>3, DeliverFacts DEF FlowInv
    <3>2. CASE chan'[q] = Append(chan[q], m)
      <4>1. chan[q] \in Seq(Messages)
        BY <1>1 DEF FlowInv, Types
      <4>2. /\ DOMAIN chan'[q] = 1..(Len(chan[q]) + 1) /\ Len(chan[q]) \in Nat
            /\ DOMAIN chan[q] = 1..Len(chan[q])
            /\ chan'[q][Len(chan[q]) + 1] = m
            /\ \A i \in DOMAIN chan[q] : chan'[q][i] = chan[q][i]
        BY <2>1, <3>2, <4>1, AppendFacts
      <4>3. \A i \in DOMAIN chan'[q] :
              i \in DOMAIN chan[q] \/ chan'[q][i] = m
        BY <4>2
      <4> QED BY <1>7, <1>8, <2>1, <3>1, <4>2, <4>3
    <3>3. CASE chan'[q] = chan[q]
      BY <1>8, <3>1, <3>3
    <3> QED BY <3>1, <3>2, <3>3
  <2> QED BY <1>3, <2>m, <2>2, <2>3
<1>13. Sums(p)'
  BY <1>8, <1>11, <1>12 DEF Sums, IsSumOf
<1>14. Sums(q)'
  BY <1>1, <1>8, <1>10, <1>12 DEF Sums, IsSumOf
<1> QED BY <1>1, <1>13, <1>14 DEF SumsInv

LEMMA StepSums ==
  ASSUME FlowInv, CrcInv, SumsInv, [Next]_vars
  PROVE  SumsInv'
<1>1. ASSUME NEW p \in Peers, NEW in \in Inputs, TickSend(p, in) PROVE SumsInv'
  BY <1>1, TickSendSums
<1>2. ASSUME NEW p \in Peers, RecvInput(p) \/ RecvChecksum(p) PROVE SumsInv'
  BY <1>2, RecvSums
<1>3. ASSUME NEW p \in Peers, Timeout(p) \/ RecvError(p) PROVE SumsInv'
  BY <1>3, QuietSums DEF Timeout, RecvError, crcs
<1>4. ASSUME NEW p \in Peers, Advance(p) PROVE SumsInv'
  BY <1>4, AdvanceSums
<1>5. CASE Close
  BY <1>5, QuietSums DEF Close, crcs
<1>6. CASE UNCHANGED vars
  BY <1>6, QuietSums DEF vars, crcs
<1> QED BY <1>1, <1>2, <1>3, <1>4, <1>5, <1>6 DEF Next

\* Only AdvanceSent reports a desync, and then the maps it leaves differ.
LEMMA DesyncIsMismatch ==
  ASSUME FlowInv, CrcInv, [Next]_vars, NeverDesync, NoMismatch'
  PROVE  NeverDesync'
<1> SUFFICES ASSUME NEW r \in Peers, status'[r] = "Desync" PROVE FALSE
  BY DEF NeverDesync
<1>1. /\ status' # status
      /\ \A p \in Peers : \A s :
           status' = [status EXCEPT ![p] = s] => s = "Desync"
  BY DEF NeverDesync, FlowInv, Types
<1>2. ASSUME NEW p \in Peers,
             \/ \E in \in Inputs : TickSend(p, in)
             \/ RecvInput(p) \/ RecvChecksum(p) \/ Timeout(p) \/ RecvError(p)
      PROVE  FALSE
  <2>1. \/ status' = status
        \/ status' = [status EXCEPT ![p] = "Disconnected"]
        \/ status' = [status EXCEPT ![p] = "Waiting"]
    BY <1>2 DEF TickSend, RecvInput, RecvChecksum, Timeout, RecvError
  <2> QED BY <1>1, <2>1
<1>3. ASSUME NEW p \in Peers, Advance(p) PROVE FALSE
  <2>1. CASE ChecksumDue(p) /\ ~open
    BY <1>1, <1>3, <2>1 DEF Advance, AdvanceUnsent
  <2>2. CASE ~(ChecksumDue(p) /\ ~open)
    <3>o. PICK own : own = IF ChecksumDue(p)
                             THEN Put(own_crc[p], frame[p], Presented(p))
                             ELSE own_crc[p]
      OBVIOUS
    <3>1. IF Mismatch(own, peer_crc[p])
            THEN /\ own_crc' = [own_crc EXCEPT ![p] = own]
                 /\ UNCHANGED peer_crc
            ELSE status' = [status EXCEPT ![p] = "Ok"]
      BY <1>3, <2>2, <3>o DEF Advance, AdvanceSent
    <3>2. Mismatch(own, peer_crc[p])
      BY <1>1, <3>1
    <3>3. own_crc'[p] = own /\ peer_crc'[p] = peer_crc[p]
      BY <3>1, <3>2 DEF CrcInv, CrcTypes
    <3> QED BY <3>2, <3>3 DEF NoMismatch, Mismatch
  <2> QED BY <2>1, <2>2
<1>4. CASE Close \/ UNCHANGED vars
  BY <1>1, <1>4 DEF Close, vars
<1> QED BY <1>2, <1>3, <1>4 DEF Next

LEMMA GamesAgree == FlowInv /\ AgreeInv => SameGame
<1> SUFFICES ASSUME FlowInv, AgreeInv, NEW p \in Peers,
                    NEW k \in DOMAIN core[p] \intersect DOMAIN core[Other(p)]
             PROVE  core[p][k] = core[Other(p)][k]
  BY DEF SameGame
<1> DEFINE q == Other(p)
<1>1. q \in Peers /\ q # p /\ Other(q) = p /\ \A r \in Peers : r = p \/ r = q
  BY OtherPeer DEF Peers
<1>2. core[p][k] \in [Peers -> Inputs] /\ core[q][k] \in [Peers -> Inputs]
  <2>1. core[p] \in States /\ core[q] \in States
    BY <1>1 DEF FlowInv, Types
  <2> QED BY <2>1 DEF States, Pairs
<1>3. core[p][k][q] = core[q][k][q] /\ core[q][k][p] = core[p][k][p]
  BY <1>1 DEF AgreeInv, Agree, InputOf
<1> QED BY <1>1, <1>2, <1>3

LEMMA SumsMatch == FlowInv /\ CrcInv /\ SameGame /\ SumsInv => NoMismatch
<1> SUFFICES ASSUME FlowInv, CrcInv, SameGame, SumsInv, NEW p \in Peers,
                    NEW f \in DOMAIN own_crc[p] \intersect DOMAIN peer_crc[p]
             PROVE  own_crc[p][f] = peer_crc[p][f]
  BY DEF NoMismatch, Mismatch
<1> DEFINE q == Other(p)
<1>1. q \in Peers
  BY OtherPeer
<1>2. IsSumOf(p, f, own_crc[p][f]) /\ IsSumOf(q, f, peer_crc[p][f])
  BY DEF SumsInv, Sums
<1>3. PICK n \in Nat, o \in Nat :
        DOMAIN core[p] = 0..(n - 1) /\ DOMAIN core[q] = 0..(o - 1)
  BY <1>1, PeerFacts DEF FlowInv, States
<1>4. f \in Nat /\ f < n /\ f < o
  BY <1>2, <1>3 DEF IsSumOf
<1>5. \A k \in 0..((f + 1) - 1) : k \in DOMAIN core[p] /\ k \in DOMAIN core[q]
  BY <1>3, <1>4
<1>6. \A k \in 0..((f + 1) - 1) : core[p][k] = core[q][k]
  BY <1>5 DEF SameGame
<1>7. Take(core[p], f + 1) = Take(core[q], f + 1)
  BY <1>6 DEF Take
<1> QED BY <1>2, <1>7 DEF IsSumOf

\* Every checksum that is kept or on its way is that of the frames its side has
\* played up to the one it names, whoever feeds the sessions.
THEOREM ChecksumsAreOfPlayedFrames == Spec => []SumsInv
<1>1. Spec => []CrcInv
  BY InitCrc, StepCrc, FlowInvariant, PTL DEF Spec
<1> QED BY <1>1, InitSums, StepSums, FlowInvariant, PTL DEF Spec

\* If callers repeat the input they sent while they wait, present() is given
\* the same pair on both sides for every frame both have played.
THEOREM SessionsPlaySameGame ==
  ASSUME HoldOnWait
  PROVE  Spec => []SameGame
<1>1. Spec => []AgreeInv
  BY InitAgree, StepAgree, FlowInvariant, PTL DEF Spec
<1> QED BY <1>1, GamesAgree, FlowInvariant, PTL

\* Then no session ever reports NetStatus::Desync, whatever is pruned, times
\* out or is cut off by the end of the connection.
THEOREM EqualSessionsNeverDesync ==
  ASSUME HoldOnWait
  PROVE  Spec => []NeverDesync
<1>1. Spec => []CrcInv
  BY InitCrc, StepCrc, FlowInvariant, PTL DEF Spec
<1>2. Spec => []NoMismatch
  BY <1>1, SumsMatch, ChecksumsAreOfPlayedFrames, SessionsPlaySameGame,
     FlowInvariant, PTL
<1>3. Init => NeverDesync
  BY DEF Init, NeverDesync
<1>4. FlowInv /\ CrcInv /\ [Next]_vars /\ NeverDesync /\ NoMismatch' => NeverDesync'
  BY DesyncIsMismatch
<1> QED BY <1>1, <1>2, <1>3, <1>4, FlowInvariant, PTL DEF Spec
=============================================================================
