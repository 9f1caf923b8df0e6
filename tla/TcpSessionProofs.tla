-------------------------- MODULE TcpSessionProofs --------------------------
(***************************************************************************)
(* Proofs about TcpSession, for every delay, prediction limit and number of *)
(* inputs: the Winsock references are balanced, peers that both play agree  *)
(* on what they play, and what recv returns is what the other side sent,    *)
(* however the network cuts the stream.                                     *)
(***************************************************************************)
EXTENDS TcpSession, FiniteSetTheorems, TLAPS

Builds == (1..2) \X (1..2) \X (1..2)
Messages ==
  [type : {"Hello"}, delay : Nat, build : Builds]
    \union [type : {"StateSync"}, blob : {"host", "empty"}]
    \union [type : {"Input"}, frame : Nat]
Bytes == [msg : Messages, kind : {"header", "payload"}, at : 1..2]
Receives == [got : Seq(Bytes), part : {"header", "payload"}, need : 0..2]

\* The steps of each peer: only the host binds, listens, accepts and sends its
\* state, only the joining peer looks up an address and connects.
Steps(p) ==
  {"wsa", "socket", "hello", "hello_wait", "play", "failed", "ended"}
    \union IF p = "host" THEN {"bind", "listen", "accept", "state"}
                         ELSE {"address", "connect", "state_wait"}

Types ==
  /\ rollback \in BOOLEAN /\ asked \in Nat /\ saves \in BOOLEAN
  /\ build \in [Peers -> Builds]
  /\ pc = [p \in Peers |-> pc[p]] /\ \A p \in Peers : pc[p] \in Steps(p)
  /\ delay \in [Peers -> Nat] /\ game \in [Peers -> Peers]
  /\ g_wsa_refs \in Int /\ connected \in BOOLEAN /\ reset \in BOOLEAN
  /\ stream \in [Peers -> Seq(Bytes)]
  /\ rx \in [Peers -> Receives]
  /\ cut \in [Peers -> BOOLEAN]
  /\ sent \in [Peers -> Seq(Messages)]
  /\ received \in [Peers -> Seq(Messages \union {Junk})]

\* A transport has a reference from its first step on and until it is closed.
Ref(p) == IF pc[p] \in {"wsa", "ended"} THEN 0 ELSE 1
Referenced == g_wsa_refs = Ref("host") + Ref("join")

\* What a peer that has the other one's Hello, and its state, has made of them.
Started ==
  /\ pc["host"] \in {"state", "play"} =>
       build["host"] = build["join"] /\ delay["host"] = Settled(asked)
  /\ pc["join"] \in {"state_wait", "play"} =>
       build["host"] = build["join"] /\ delay["join"] = Settled(asked)
  /\ pc["join"] = "play" /\ saves => game["join"] = "host"

\* Every byte on its way to p or read by it is one of a message that the other
\* side's session sends, whatever became of the order.
From(q) ==
  {Hello(q)} \union (IF q = "host" THEN {StateSync} ELSE {})
    \union [type : {"Input"}, frame : Nat]
Origin(p) ==
  /\ \A i \in DOMAIN stream[p] : stream[p][i].msg \in From(Other(p))
  /\ \A i \in DOMAIN rx[p].got : rx[p].got[i].msg \in From(Other(p))

\* The invariant of the start.
StartInv ==
  /\ Types /\ Referenced /\ Started
  /\ \A p \in Peers : Origin(p)

-----------------------------------------------------------------------------
(* Facts about the operators.                                               *)

LEMMA PeersFacts ==
  \A p \in Peers :
    /\ Other(p) \in Peers /\ Other(p) # p /\ Other(Other(p)) = p
    /\ p = "host" \/ p = "join"
BY DEF Peers, Other

\* The step after one of host's or join's is another one of its steps.
LEMMA AfterFacts ==
  ASSUME NEW p \in Peers, pc[p] \in Steps(p),
         pc[p] \in {"wsa", "socket", "bind", "listen", "address"}
  PROVE  /\ After(p) \in Steps(p)
         /\ After(p) \in {"socket", "bind", "listen", "accept", "address",
                          "connect"}
<1> DEFINE s == SetUp(p)
           i == CHOOSE j \in DOMAIN s : s[j] = pc[p]
<1>1. CASE p = "host"
  <2>1. s = <<"wsa", "socket", "bind", "listen", "accept">>
    BY <1>1 DEF SetUp
  <2>2. \E j \in DOMAIN s : s[j] = pc[p]
    <3>1. 1 \in DOMAIN s /\ 2 \in DOMAIN s /\ 3 \in DOMAIN s /\ 4 \in DOMAIN s
      BY <2>1
    <3>2. s[1] = "wsa" /\ s[2] = "socket" /\ s[3] = "bind" /\ s[4] = "listen"
      BY <2>1
    <3>3. pc[p] \in {"wsa", "socket", "bind", "listen"}
      BY <1>1 DEF Steps
    <3> QED BY <3>1, <3>2, <3>3
  <2>3. i \in DOMAIN s /\ s[i] = pc[p]
    BY <2>2
  <2>4. i \in 1..4
    BY <2>1, <2>3
  <2>5. \A k \in 1..4 : s[k + 1] \in {"socket", "bind", "listen", "accept"}
    <3>1. s[2] = "socket" /\ s[3] = "bind" /\ s[4] = "listen" /\ s[5] = "accept"
      BY <2>1
    <3>2. \A k \in 1..4 : k + 1 \in {2, 3, 4, 5}
      OBVIOUS
    <3> HIDE DEF s
    <3> QED BY <3>1, <3>2
  <2>6. After(p) = s[i + 1]
    BY DEF After
  <2>7. After(p) \in {"socket", "bind", "listen", "accept"}
    <3> HIDE DEF i, s
    <3> QED BY <2>4, <2>5, <2>6
  <2> QED BY <1>1, <2>7 DEF Steps
<1>2. CASE p = "join"
  <2>1. s = <<"wsa", "socket", "address", "connect">>
    BY <1>2 DEF SetUp
  <2>2. \E j \in DOMAIN s : s[j] = pc[p]
    <3>1. 1 \in DOMAIN s /\ 2 \in DOMAIN s /\ 3 \in DOMAIN s
      BY <2>1
    <3>2. s[1] = "wsa" /\ s[2] = "socket" /\ s[3] = "address"
      BY <2>1
    <3>3. pc[p] \in {"wsa", "socket", "address"}
      BY <1>2 DEF Steps
    <3> QED BY <3>1, <3>2, <3>3
  <2>3. i \in DOMAIN s /\ s[i] = pc[p]
    BY <2>2
  <2>4. i \in 1..3
    BY <2>1, <2>3
  <2>5. \A k \in 1..3 : s[k + 1] \in {"socket", "address", "connect"}
    <3>1. s[2] = "socket" /\ s[3] = "address" /\ s[4] = "connect"
      BY <2>1
    <3>2. \A k \in 1..3 : k + 1 \in {2, 3, 4}
      OBVIOUS
    <3> HIDE DEF s
    <3> QED BY <3>1, <3>2
  <2>6. After(p) = s[i + 1]
    BY DEF After
  <2>7. After(p) \in {"socket", "address", "connect"}
    <3> HIDE DEF i, s
    <3> QED BY <2>4, <2>5, <2>6
  <2> QED BY <1>2, <2>7 DEF Steps
<1> QED BY <1>1, <1>2, PeersFacts

\* What is read or sent is put behind what is there.
LEMMA Pushed ==
  ASSUME NEW S, NEW s \in Seq(S), NEW b \in Seq(S)
  PROVE  /\ s \o b \in Seq(S) /\ Len(s \o b) = Len(s) + Len(b)
         /\ \A i \in 1..Len(s) : (s \o b)[i] = s[i]
         /\ \A i \in 1..Len(b) : (s \o b)[Len(s) + i] = b[i]
         /\ \A i \in 1..Len(s \o b) :
              \/ i \in 1..Len(s) /\ (s \o b)[i] = s[i]
              \/ i - Len(s) \in 1..Len(b) /\ (s \o b)[i] = b[i - Len(s)]
OBVIOUS

LEMMA Beginnings ==
  ASSUME NEW S, NEW s \in Seq(S), NEW k \in 0..Len(s)
  PROVE  /\ SubSeq(s, 1, k) \in Seq(S) /\ Len(SubSeq(s, 1, k)) = k
         /\ \A i \in 1..k : SubSeq(s, 1, k)[i] = s[i]
OBVIOUS

LEMMA Rests ==
  ASSUME NEW S, NEW s \in Seq(S), NEW k \in 1..Len(s)
  PROVE  /\ SubSeq(s, k + 1, Len(s)) \in Seq(S)
         /\ Len(SubSeq(s, k + 1, Len(s))) = Len(s) - k
         /\ \A i \in 1..(Len(s) - k) : SubSeq(s, k + 1, Len(s))[i] = s[k + i]
OBVIOUS

LEMMA Appended ==
  ASSUME NEW S, NEW s \in Seq(S), NEW e \in S
  PROVE  /\ Append(s, e) \in Seq(S) /\ Len(Append(s, e)) = Len(s) + 1
         /\ \A i \in 1..Len(s) : Append(s, e)[i] = s[i]
         /\ Append(s, e)[Len(s) + 1] = e
OBVIOUS

\* A message has one or two bytes of payload behind the two of its header.
LEMMA PayloadLens == \A m : PayloadLen(m) \in 1..2 /\ PayloadLen(m) \in Nat
BY DEF PayloadLen

LEMMA FrameFacts ==
  ASSUME NEW m \in Messages
  PROVE  /\ Header(m) \in Seq(Bytes) /\ Len(Header(m)) = 2
         /\ \A i \in 1..2 : Header(m)[i] = Byte(m, "header", i)
         /\ Payload(m) \in Seq(Bytes) /\ Len(Payload(m)) = PayloadLen(m)
         /\ \A i \in 1..PayloadLen(m) : Payload(m)[i] = Byte(m, "payload", i)
         /\ Frame(m) \in Seq(Bytes) /\ Len(Frame(m)) = 2 + PayloadLen(m)
         /\ \A i \in DOMAIN Frame(m) : Frame(m)[i].msg = m
<1>1. \A i \in 1..2 : Byte(m, "header", i) \in Bytes
  BY DEF Byte, Bytes
<1>2. \A i \in 1..PayloadLen(m) : Byte(m, "payload", i) \in Bytes
  BY PayloadLens DEF Byte, Bytes
<1>3. /\ Header(m) \in Seq(Bytes) /\ Len(Header(m)) = 2
      /\ \A i \in 1..2 : Header(m)[i] = Byte(m, "header", i)
  BY <1>1 DEF Header, HeaderLen
<1>4. /\ Payload(m) \in Seq(Bytes) /\ Len(Payload(m)) = PayloadLen(m)
      /\ \A i \in 1..PayloadLen(m) : Payload(m)[i] = Byte(m, "payload", i)
  BY <1>2, PayloadLens DEF Payload
<1>5. /\ Frame(m) \in Seq(Bytes) /\ Len(Frame(m)) = 2 + PayloadLen(m)
  <2> DEFINE h == Header(m)
             b == Payload(m)
  <2>1. h \in Seq(Bytes) /\ b \in Seq(Bytes) /\ Frame(m) = h \o b
    BY <1>3, <1>4 DEF Frame
  <2>2. h \o b \in Seq(Bytes) /\ Len(h \o b) = Len(h) + Len(b)
    <3> HIDE DEF h, b
    <3> QED BY <2>1, Pushed
  <2> QED BY <1>3, <1>4, <2>1, <2>2
<1>6. ASSUME NEW i \in 1..Len(Frame(m)) PROVE Frame(m)[i].msg = m
  <2> DEFINE h == Header(m)
             b == Payload(m)
  <2>1. \/ i \in 1..Len(h) /\ Frame(m)[i] = h[i]
        \/ i - Len(h) \in 1..Len(b) /\ Frame(m)[i] = b[i - Len(h)]
    <3> h \in Seq(Bytes) /\ b \in Seq(Bytes)
      BY <1>3, <1>4
    <3> Frame(m) = h \o b
      BY DEF Frame
    <3> HIDE DEF h, b
    <3> QED BY Pushed
  <2> QED BY <2>1, <1>3, <1>4 DEF Byte
<1> QED BY <1>3, <1>4, <1>5, <1>6

\* The messages the sessions send.
LEMMA MessageFacts ==
  ASSUME Types
  PROVE  /\ \A p \in Peers : Hello(p) \in Messages
         /\ StateSync \in Messages
         /\ \A p \in Peers : Input(p) \in Messages /\ Input(p).frame \in Nat
         /\ \A p \in Peers : From(p) \subseteq Messages
         /\ \A p \in Peers : Hello(p) \in From(p) /\ Input(p) \in From(p)
         /\ StateSync \in From("host")
<1>1. ASSUME NEW p \in Peers PROVE Hello(p) \in Messages
  BY DEF Hello, Messages, Types
<1>2. StateSync \in Messages
  BY DEF StateSync, Messages
<1>3. ASSUME NEW p \in Peers
      PROVE  Input(p) \in [type : {"Input"}, frame : Nat]
  <2> DEFINE S == {i \in DOMAIN sent[p] : sent[p][i].type = "Input"}
  <2>0. sent[p] \in Seq(Messages)
    BY DEF Types
  <2>1. IsFiniteSet(1..Len(sent[p]))
    BY <2>0, FS_Interval
  <2>2. S \subseteq 1..Len(sent[p])
    BY <2>0
  <2>3. Cardinality(S) \in Nat
    BY <2>1, <2>2, FS_Subset, FS_CardinalityType
  <2> QED BY <2>3 DEF Input
<1>4. ASSUME NEW p \in Peers PROVE From(p) \subseteq Messages
  BY <1>1, <1>2 DEF From, Messages
<1>5. ASSUME NEW p \in Peers PROVE Hello(p) \in From(p) /\ Input(p) \in From(p)
  BY <1>3 DEF From
<1>6. StateSync \in From("host")
  BY DEF From
<1>7. ASSUME NEW p \in Peers
      PROVE  Input(p) \in Messages /\ Input(p).frame \in Nat
  BY <1>3 DEF Messages
<1> QED BY <1>1, <1>2, <1>4, <1>5, <1>6, <1>7

\* What recv makes of bytes of q's messages is one of them, or junk.
LEMMA DecodedFrom ==
  ASSUME NEW Q, NEW bytes \in Seq(Bytes),
         \A i \in DOMAIN bytes : bytes[i].msg \in Q
  PROVE  Decoded(bytes) \in Q \union {Junk}
<1>1. bytes # <<>> => 1 \in DOMAIN bytes
  OBVIOUS
<1> QED BY <1>1 DEF Decoded
-----------------------------------------------------------------------------
(* The start.                                                               *)

LEMMA InitStartInv == Init => StartInv
<1> SUFFICES ASSUME Init PROVE StartInv
  OBVIOUS
<1> USE DEF Init
<1>1. build \in [Peers -> Builds]
  BY DEF Builds
<1>2. Idle \in Receives
  BY DEF Idle, Receives, HeaderLen
<1>3. pc = [p \in Peers |-> "wsa"] /\ \A p \in Peers : pc[p] \in Steps(p)
  BY DEF Steps
<1>4. <<>> \in Seq(Bytes) /\ <<>> \in Seq(Messages)
        /\ <<>> \in Seq(Messages \union {Junk})
  OBVIOUS
<1>5. /\ stream \in [Peers -> Seq(Bytes)] /\ sent \in [Peers -> Seq(Messages)]
      /\ received \in [Peers -> Seq(Messages \union {Junk})]
      /\ rx \in [Peers -> Receives] /\ cut \in [Peers -> BOOLEAN]
  BY <1>2, <1>4
<1>6. /\ rollback \in BOOLEAN /\ asked \in Nat /\ saves \in BOOLEAN
      /\ delay \in [Peers -> Nat] /\ game \in [Peers -> Peers]
      /\ g_wsa_refs \in Int /\ connected \in BOOLEAN /\ reset \in BOOLEAN
  <2>1. asked \in Nat
    BY DelaysAssumption
  <2>2. delay \in [Peers -> Nat] /\ game \in [Peers -> Peers] /\ g_wsa_refs \in Int
    OBVIOUS
  <2>3. /\ rollback \in BOOLEAN /\ saves \in BOOLEAN
        /\ connected \in BOOLEAN /\ reset \in BOOLEAN
    BY Zenon
  <2> QED BY <2>1, <2>2, <2>3
<1>7. Types
  BY <1>1, <1>3, <1>5, <1>6 DEF Types
<1>8. Referenced /\ Started
  BY <1>3 DEF Referenced, Ref, Started, Peers
<1>9. ASSUME NEW p \in Peers PROVE Origin(p)
  BY DEF Origin, Idle
<1> QED BY <1>7, <1>8, <1>9 DEF StartInv

\* A step that touches no byte and no message.
LEMMA OriginKept ==
  ASSUME \A p \in Peers : Origin(p),
         UNCHANGED <<start_vars, stream>>,
         NEW q \in Peers, rx' \in [Peers -> Receives],
         rx \in [Peers -> Receives],
         \A p \in Peers : rx'[p].got = rx[p].got \/ rx'[p].got = <<>>
  PROVE  \A p \in Peers : Origin(p)'
<1> SUFFICES ASSUME NEW p \in Peers PROVE Origin(p)'
  OBVIOUS
<1>1. From(Other(p))' = From(Other(p))
  BY DEF From, Hello, StateSync, start_vars
<1>2. Other(p)' = Other(p)
  OBVIOUS
<1>3. Origin(p)
  OBVIOUS
<1> QED BY <1>1, <1>3 DEF Origin

\* The reference of a transport goes with the step it is at.
LEMMA ReferenceMoves ==
  ASSUME Types, Referenced, NEW p \in Peers, NEW c,
         pc' = [pc EXCEPT ![p] = c],
         g_wsa_refs' = g_wsa_refs - Ref(p) + (IF c \in {"wsa", "ended"} THEN 0 ELSE 1)
  PROVE  Referenced'
<1> DEFINE d == IF c \in {"wsa", "ended"} THEN 0 ELSE 1
<1>1. Ref("host") \in Int /\ Ref("join") \in Int /\ d \in Int
  BY DEF Ref
<1>2. CASE p = "host"
  <2>1. Ref("host")' = d /\ Ref("join")' = Ref("join")
    BY <1>2 DEF Ref, Types, Peers
  <2> HIDE DEF d
  <2>2. g_wsa_refs' = g_wsa_refs - Ref("host") + d
    BY <1>2 DEF d
  <2> QED BY <1>1, <2>1, <2>2 DEF Referenced
<1>3. CASE p = "join"
  <2>1. Ref("join")' = d /\ Ref("host")' = Ref("host")
    BY <1>3 DEF Ref, Types, Peers
  <2> HIDE DEF d
  <2>2. g_wsa_refs' = g_wsa_refs - Ref("join") + d
    BY <1>3 DEF d
  <2> QED BY <1>1, <2>1, <2>2 DEF Referenced
<1> QED BY <1>2, <1>3, PeersFacts

LEMMA SetUpStartInv ==
  ASSUME StartInv, NEW p \in Peers, SetUpActions(p)
  PROVE  StartInv'
<1> USE DEF StartInv
<1> DEFINE Step(c) ==
        /\ pc' = [pc EXCEPT ![p] = c]
        /\ c \in Steps(p)
        /\ c \in {"socket", "bind", "listen", "accept", "address", "connect",
                  "ended"}
        /\ g_wsa_refs' = g_wsa_refs - Ref(p) + IF c \in {"wsa", "ended"} THEN 0 ELSE 1
        /\ g_wsa_refs' \in Int /\ reset' \in BOOLEAN
        /\ UNCHANGED <<start_vars, delay, game, connected, stream, rx, log_vars>>
<1>1. \E c : Step(c)
  <2>1. CASE wsa_startup(p)
    <3>1. CASE pc' = [pc EXCEPT ![p] = After(p)] /\ g_wsa_refs' = g_wsa_refs + 1
      <4>1. After(p) \in Steps(p) /\ After(p) \in {"socket", "bind", "listen",
                 "accept", "address", "connect"}
        BY <2>1, AfterFacts DEF wsa_startup, Types
      <4>2. Step(After(p))
        BY <2>1, <3>1, <4>1 DEF wsa_startup, Types, Ref, link_vars
      <4> QED BY <4>2
    <3>2. CASE pc' = [pc EXCEPT ![p] = "ended"] /\ g_wsa_refs' = g_wsa_refs
      <4>1. Step("ended")
        BY <2>1, <3>2 DEF wsa_startup, Types, Ref, Steps, link_vars
      <4> QED BY <4>1
    <3>3. \/ pc' = [pc EXCEPT ![p] = After(p)] /\ g_wsa_refs' = g_wsa_refs + 1
          \/ pc' = [pc EXCEPT ![p] = "ended"] /\ g_wsa_refs' = g_wsa_refs
      BY <2>1 DEF wsa_startup, Goto
    <3> HIDE DEF Step
    <3> QED BY <3>1, <3>2, <3>3
  <2>2. CASE SetUpStep(p)
    <3>1. After(p) \in Steps(p) /\ After(p) \in {"socket", "bind", "listen",
               "accept", "address", "connect"}
      BY <2>2, AfterFacts DEF SetUpStep, Types
    <3>2. Step(After(p))
      BY <2>2, <3>1 DEF SetUpStep, Goto, Types, Ref, link_vars
    <3> QED BY <3>2
  <2>3. CASE SetUpFails(p)
    <3>1. reset' \in BOOLEAN
      BY <2>3 DEF SetUpFails
    <3>2. Step("ended")
      BY <2>3, <3>1 DEF SetUpFails, Goto, Types, Ref, Steps
    <3> QED BY <3>2
  <2> HIDE DEF Step
  <2> QED BY <2>1, <2>2, <2>3 DEF SetUpActions
<1>2. PICK c : Step(c)
  BY <1>1
<1>3. Types'
  BY <1>2 DEF Types, start_vars, log_vars
<1>4. Referenced'
  BY <1>2, ReferenceMoves
<1>5. Started'
  BY <1>2, PeersFacts DEF Started, Types, start_vars, Settled
<1>6. \A q \in Peers : Origin(q)'
  BY <1>2, <1>3, OriginKept DEF Types
<1> QED BY <1>3, <1>4, <1>5, <1>6

\* connect and accept.
LEMMA ConnectStartInv ==
  ASSUME StartInv, connect \/ accept
  PROVE  StartInv'
<1> USE DEF StartInv
<1>1. PICK p \in Peers :
        /\ pc' = [pc EXCEPT ![p] = "hello"]
        /\ pc[p] \in {"accept", "connect"} /\ connected' \in BOOLEAN
        /\ UNCHANGED <<start_vars, delay, game, g_wsa_refs, reset, stream, rx,
                       log_vars>>
  BY DEF connect, accept, Goto, Peers, Types, link_vars
<1>2. Types'
  BY <1>1 DEF Types, start_vars, log_vars, Steps
<1>3. Referenced'
  BY <1>1, PeersFacts DEF Referenced, Ref, Types, Peers
<1>4. Started'
  BY <1>1, PeersFacts DEF Started, Types, start_vars, Settled
<1>5. \A q \in Peers : Origin(q)'
  BY <1>1, <1>2, OriginKept DEF Types
<1> QED BY <1>2, <1>3, <1>4, <1>5
\* Bytes of m go on their way to the other side: all of them, or some when the
\* connection breaks.
LEMMA BytesOut ==
  ASSUME Types, \A q \in Peers : Origin(q), NEW p \in Peers, NEW m \in From(p),
         send(p, m) \/ SendFails(p, m), UNCHANGED <<start_vars, rx>>
  PROVE  /\ stream' \in [Peers -> Seq(Bytes)]
         /\ sent' \in [Peers -> Seq(Messages)] /\ reset' \in BOOLEAN
         /\ \A q \in Peers : Origin(q)'
<1> DEFINE o == Other(p)
<1>1. m \in Messages /\ o \in Peers /\ o # p /\ Other(o) = p
  BY MessageFacts, PeersFacts
<1>2. PICK k \in 0..Len(Frame(m)) :
        stream' = [stream EXCEPT ![o] = @ \o SubSeq(Frame(m), 1, k)]
  <2>1. CASE send(p, m)
    <3>1. SubSeq(Frame(m), 1, Len(Frame(m))) = Frame(m)
      BY <1>1, FrameFacts
    <3>2. Len(Frame(m)) \in 0..Len(Frame(m))
      BY <1>1, FrameFacts
    <3>3. stream' = [stream EXCEPT ![o] = @ \o SubSeq(Frame(m), 1, Len(Frame(m)))]
      BY <2>1, <3>1 DEF send
    <3> QED BY <3>2, <3>3
  <2>2. CASE SendFails(p, m)
    <3>1. Len(Frame(m)) \in Nat
      BY <1>1, FrameFacts
    <3>2. PICK k \in 0..(Len(Frame(m)) - 1) :
            stream' = [stream EXCEPT ![o] = @ \o SubSeq(Frame(m), 1, k)]
      BY <2>2 DEF SendFails
    <3>3. k \in 0..Len(Frame(m))
      BY <3>1
    <3> QED BY <3>2, <3>3
  <2> QED BY <2>1, <2>2
<1>3. PICK b : b = SubSeq(Frame(m), 1, k)
  OBVIOUS
<1>4. /\ b \in Seq(Bytes) /\ \A i \in DOMAIN b : b[i].msg = m
  <2>1. Frame(m) \in Seq(Bytes) /\ \A i \in DOMAIN Frame(m) : Frame(m)[i].msg = m
    BY <1>1, FrameFacts
  <2>2. /\ b \in Seq(Bytes) /\ Len(b) = k
        /\ \A i \in 1..k : b[i] = Frame(m)[i]
    BY <1>3, <2>1, Beginnings
  <2> QED BY <2>1, <2>2
<1>5. /\ stream[o] \in Seq(Bytes) /\ stream'[o] = stream[o] \o b
      /\ \A q \in Peers : q # o => stream'[q] = stream[q]
      /\ stream' = [stream EXCEPT ![o] = stream[o] \o b]
  BY <1>1, <1>2, <1>3 DEF Types
<1>6. stream[o] \o b \in Seq(Bytes)
  BY <1>4, <1>5, Pushed
<1>7. stream' \in [Peers -> Seq(Bytes)]
  BY <1>5, <1>6 DEF Types
<1>8. sent' \in [Peers -> Seq(Messages)] /\ reset' \in BOOLEAN
  <2>1. Append(sent[p], m) \in Seq(Messages)
    BY <1>1 DEF Types
  <2>2. CASE send(p, m)
    BY <2>1, <2>2 DEF send, Types
  <2>3. CASE SendFails(p, m)
    BY <2>3 DEF SendFails, Types
  <2> QED BY <2>2, <2>3
<1>9. ASSUME NEW q \in Peers PROVE Origin(q)'
  <2>1. From(Other(q))' = From(Other(q))
    BY DEF From, Hello, StateSync, start_vars
  <2>2. \A i \in DOMAIN rx'[q].got : rx'[q].got[i].msg \in From(Other(q))
    BY DEF Origin
  <2>3. CASE q # o
    BY <1>5, <2>1, <2>2, <2>3 DEF Origin
  <2>4. CASE q = o
    <3>1. \A i \in 1..Len(stream[o] \o b) :
              \/ i \in 1..Len(stream[o]) /\ (stream[o] \o b)[i] = stream[o][i]
              \/ i - Len(stream[o]) \in 1..Len(b)
                   /\ (stream[o] \o b)[i] = b[i - Len(stream[o])]
      BY <1>4, <1>5, Pushed
    <3>2. \A i \in 1..Len(stream[o]) : stream[o][i].msg \in From(p)
      <4>1. Origin(o)
        BY <1>1
      <4> QED BY <4>1, <1>1, <1>5 DEF Origin
    <3>3. \A i \in 1..Len(b) : b[i].msg \in From(p)
      BY <1>4
    <3>4. \A i \in 1..Len(stream[o] \o b) : (stream[o] \o b)[i].msg \in From(p)
      BY <3>1, <3>2, <3>3
    <3>5. \A i \in DOMAIN stream'[q] : stream'[q][i].msg \in From(Other(q))
      BY <1>1, <1>5, <1>6, <2>4, <3>4
    <3> QED BY <2>1, <2>2, <3>5 DEF Origin
  <2> QED BY <2>3, <2>4
<1> QED BY <1>7, <1>8, <1>9

LEMMA SendStartInv ==
  ASSUME StartInv, NEW p \in Peers,
         SendHello(p) \/ (p = "host" /\ SendState) \/ SendInput(p)
  PROVE  StartInv'
<1> USE DEF StartInv
<1> DEFINE Step(c) ==
        /\ pc' = [pc EXCEPT ![p] = c]
        /\ c \in Steps(p)
        /\ c \notin {"wsa", "ended", "state", "state_wait"}
        /\ c = "play" => pc[p] \in {"state", "play"} /\ (p = "join" => pc[p] = "play")
        /\ pc[p] \notin {"wsa", "ended"}
        /\ UNCHANGED <<start_vars, delay, game, g_wsa_refs, connected, rx, cut,
                       received>>
<1>1. /\ \E c : Step(c)
      /\ \/ \E m \in From(p) : send(p, m) \/ SendFails(p, m)
         \/ UNCHANGED <<stream, reset, sent>>
  <2>1. CASE SendHello(p)
    <3>1. Step("hello_wait") \/ Step("failed")
      BY <2>1 DEF SendHello, Goto, Steps
    <3>2. send(p, Hello(p)) \/ SendFails(p, Hello(p))
      BY <2>1 DEF SendHello
    <3> QED BY <3>1, <3>2, MessageFacts
  <2>2. CASE p = "host" /\ SendState
    <3>1. Step("play") \/ Step("failed")
      BY <2>2 DEF SendState, Goto, Steps
    <3>2. \/ send(p, StateSync) \/ SendFails(p, StateSync)
          \/ UNCHANGED <<stream, reset, sent>>
      BY <2>2 DEF SendState
    <3> QED BY <2>2, <3>1, <3>2, MessageFacts
  <2>3. CASE SendInput(p)
    <3>1. pc[p] = "play"
      BY <2>3 DEF SendInput
    <3>2. send(p, Input(p)) \/ SendFails(p, Input(p))
      BY <2>3 DEF SendInput
    <3>3. CASE UNCHANGED pc
      <4>1. pc' = [pc EXCEPT ![p] = "play"]
        BY <3>1, <3>3 DEF Types
      <4>2. Step("play")
        BY <2>3, <3>1, <4>1 DEF SendInput, Steps
      <4> QED BY <3>2, <4>2, MessageFacts
    <3>4. CASE pc' = [pc EXCEPT ![p] = "failed"]
      <4>1. Step("failed")
        BY <2>3, <3>1, <3>4 DEF SendInput, Steps
      <4> QED BY <3>2, <4>1, MessageFacts
    <3>5. UNCHANGED pc \/ pc' = [pc EXCEPT ![p] = "failed"]
      BY <2>3 DEF SendInput, Goto
    <3> HIDE DEF Step
    <3> QED BY <3>3, <3>4, <3>5
  <2> HIDE DEF Step
  <2> QED BY <2>1, <2>2, <2>3
<1>2. PICK c : Step(c)
  BY <1>1
<1>3. /\ stream' \in [Peers -> Seq(Bytes)]
      /\ sent' \in [Peers -> Seq(Messages)] /\ reset' \in BOOLEAN
      /\ \A q \in Peers : Origin(q)'
  <2>1. CASE \E m \in From(p) : send(p, m) \/ SendFails(p, m)
    BY <1>2, <2>1, BytesOut
  <2>2. CASE UNCHANGED <<stream, reset, sent>>
    <3>1. \A q \in Peers : Origin(q)'
      BY <1>2, <2>2, OriginKept DEF Types
    <3> QED BY <2>2, <3>1 DEF Types
  <2> QED BY <1>1, <2>1, <2>2
<1>4. Types'
  BY <1>2, <1>3 DEF Types, start_vars
<1>5. Referenced'
  <2>1. g_wsa_refs' = g_wsa_refs - Ref(p) + (IF c \in {"wsa", "ended"} THEN 0 ELSE 1)
    BY <1>2 DEF Ref, Types
  <2> QED BY <1>2, <2>1, ReferenceMoves
<1>6. Started'
  BY <1>2, PeersFacts DEF Started, Types, start_vars, Settled, Steps
<1> QED BY <1>3, <1>4, <1>5, <1>6

LEMMA GotFacts ==
  ASSUME NEW r \in Receives, NEW g
  PROVE  [r EXCEPT !.got = g] = [got |-> g, part |-> r.part, need |-> r.need]
<1>1. DOMAIN r = {"got", "part", "need"}
  BY DEF Receives
<1>2. DOMAIN [r EXCEPT !.got = g] = DOMAIN [got |-> g, part |-> r.part, need |-> r.need]
  BY <1>1
<1>3. \A x \in {"got", "part", "need"} :
        [r EXCEPT !.got = g][x] = [got |-> g, part |-> r.part, need |-> r.need][x]
  BY <1>1
<1> QED BY <1>1, <1>2, <1>3

\* A piece is read: from what is on its way into what is there.
LEMMA ReadPieceStartInv ==
  ASSUME StartInv, NEW p \in Peers, ReadPiece(p)
  PROVE  StartInv'
<1> USE DEF StartInv
<1>1. PICK k \in 1..(rx[p].need - Len(rx[p].got)) :
        /\ k <= Len(stream[p])
        /\ rx' = [rx EXCEPT ![p].got = @ \o SubSeq(stream[p], 1, k)]
        /\ stream' = [stream EXCEPT ![p] = SubSeq(@, k + 1, Len(@))]
  BY DEF ReadPiece
<1>2. /\ rx[p] \in Receives /\ stream[p] \in Seq(Bytes)
      /\ rx[p].got \in Seq(Bytes) /\ rx[p].need \in 0..2
  BY DEF Types, Receives
<1>3. k \in 1..Len(stream[p]) /\ k \in 0..Len(stream[p])
  BY <1>1, <1>2
<1>4. PICK g, b, s : /\ g = rx[p].got /\ b = SubSeq(stream[p], 1, k)
                     /\ s = SubSeq(stream[p], k + 1, Len(stream[p]))
  OBVIOUS
<1>5. /\ b \in Seq(Bytes) /\ Len(b) = k
      /\ \A i \in 1..k : b[i] = stream[p][i]
  BY <1>2, <1>3, <1>4, Beginnings
<1>6. /\ s \in Seq(Bytes) /\ Len(s) = Len(stream[p]) - k
      /\ \A i \in 1..Len(s) : s[i] = stream[p][k + i]
  BY <1>2, <1>3, <1>4, Rests
<1>7. /\ g \o b \in Seq(Bytes)
      /\ \A i \in 1..Len(g \o b) :
           \/ i \in 1..Len(g) /\ (g \o b)[i] = g[i]
           \/ i - Len(g) \in 1..Len(b) /\ (g \o b)[i] = b[i - Len(g)]
  BY <1>2, <1>4, <1>5, Pushed
<1>8. /\ rx' = [rx EXCEPT ![p] = [got |-> g \o b, part |-> rx[p].part,
                                  need |-> rx[p].need]]
      /\ stream' = [stream EXCEPT ![p] = s]
      /\ UNCHANGED <<start_vars, session_vars, g_wsa_refs, connected, reset,
                     log_vars>>
  <2>1. rx \in [Peers -> Receives]
    BY DEF Types
  <2>2. rx' = [rx EXCEPT ![p] = [rx[p] EXCEPT !.got = g \o b]]
    BY <1>1, <1>4, <2>1
  <2>3. [rx[p] EXCEPT !.got = g \o b]
          = [got |-> g \o b, part |-> rx[p].part, need |-> rx[p].need]
    BY <1>2, GotFacts
  <2> QED BY <1>1, <1>4, <2>2, <2>3 DEF ReadPiece
<1>9. Types'
  <2>1. [got |-> g \o b, part |-> rx[p].part, need |-> rx[p].need] \in Receives
    BY <1>2, <1>7 DEF Receives
  <2>2. rx' \in [Peers -> Receives] /\ stream' \in [Peers -> Seq(Bytes)]
    BY <1>6, <1>8, <2>1 DEF Types
  <2> QED BY <1>8, <2>2 DEF Types, start_vars, session_vars, log_vars
<1>10. Referenced' /\ Started'
  BY <1>8 DEF Referenced, Ref, Started, start_vars, session_vars, Settled
<1>11. ASSUME NEW q \in Peers PROVE Origin(q)'
  <2>1. From(Other(q))' = From(Other(q))
    BY <1>8 DEF From, Hello, StateSync, start_vars
  <2>2. CASE q # p
    <3>1. rx'[q] = rx[q] /\ stream'[q] = stream[q]
      BY <1>8, <2>2 DEF Types
    <3> QED BY <2>1, <3>1 DEF Origin
  <2>3. CASE q = p
    <3>1. rx'[q].got = g \o b /\ stream'[q] = s
      BY <1>8, <2>3 DEF Types
    <3>2. /\ \A i \in 1..Len(stream[p]) : stream[p][i].msg \in From(Other(p))
          /\ \A i \in 1..Len(g) : g[i].msg \in From(Other(p))
      BY <1>2, <1>4 DEF Origin
    <3>3. ASSUME NEW i \in 1..Len(b) PROVE b[i].msg \in From(Other(p))
      <4>1. i \in 1..Len(stream[p]) /\ b[i] = stream[p][i]
        BY <1>2, <1>3, <1>5
      <4> QED BY <3>2, <4>1
    <3>4. \A i \in 1..Len(g \o b) : (g \o b)[i].msg \in From(Other(p))
      BY <1>7, <3>2, <3>3
    <3>5. ASSUME NEW i \in 1..Len(s) PROVE s[i].msg \in From(Other(p))
      <4>1. k + i \in 1..Len(stream[p]) /\ s[i] = stream[p][k + i]
        BY <1>2, <1>3, <1>6
      <4> QED BY <3>2, <4>1
    <3> QED BY <1>6, <1>7, <2>1, <2>3, <3>1, <3>4, <3>5 DEF Origin
  <2> QED BY <2>2, <2>3
<1> QED BY <1>9, <1>10, <1>11
LEMMA IdleFacts == Idle \in Receives /\ Idle.got = <<>>
BY DEF Idle, Receives, HeaderLen

LEMMA ReadLengthStartInv ==
  ASSUME StartInv, NEW p \in Peers, ReadLength(p)
  PROVE  StartInv'
<1> USE DEF StartInv
<1>1. PICK len \in Lengths(rx[p].got) :
        rx' = [rx EXCEPT ![p] = [got |-> <<>>, part |-> "payload", need |-> len]]
  BY DEF ReadLength
<1>2. len \in 0..2
  <2>1. Lengths(rx[p].got) \subseteq 0..2
    BY PayloadLens DEF Lengths
  <2> QED BY <2>1
<1>3. UNCHANGED <<start_vars, session_vars, g_wsa_refs, link_vars, log_vars>>
  BY DEF ReadLength
<1>4. Types'
  <2>1. [got |-> <<>>, part |-> "payload", need |-> len] \in Receives
    <3>1. <<>> \in Seq(Bytes)
      OBVIOUS
    <3> QED BY <1>2, <3>1 DEF Receives
  <2>2. rx' \in [Peers -> Receives]
    BY <1>1, <2>1 DEF Types
  <2> QED BY <1>3, <2>2 DEF Types, start_vars, session_vars, link_vars, log_vars
<1>5. Referenced' /\ Started'
  BY <1>3 DEF Referenced, Ref, Started, start_vars, session_vars, Settled
<1>6. \A q \in Peers : Origin(q)'
  <2>1. \A q \in Peers : rx'[q].got = rx[q].got \/ rx'[q].got = <<>>
    BY <1>1 DEF Types
  <2> QED BY <1>3, <1>4, <2>1, OriginKept DEF Types, link_vars
<1> QED BY <1>4, <1>5, <1>6

\* What recv returned is one of the other side's messages, or junk: a Hello is
\* the other side's and a StateSync the host's.
LEMMA ReturnedFacts ==
  ASSUME StartInv, NEW p \in Peers, NEW m, m = Decoded(rx[p].got)
  PROVE  /\ m \in Messages \union {Junk}
         /\ m.type = "Hello" => m = Hello(Other(p))
         /\ m.type = "StateSync" => m = StateSync
<1>1. rx[p].got \in Seq(Bytes)
  BY DEF StartInv, Types, Receives
<1>2. \A i \in DOMAIN rx[p].got : rx[p].got[i].msg \in From(Other(p))
  BY DEF StartInv, Origin
<1>3. m \in From(Other(p)) \union {Junk}
  BY <1>1, <1>2, DecodedFrom
<1>4. From(Other(p)) \subseteq Messages
  BY MessageFacts, PeersFacts DEF StartInv
<1>5. m = Hello(Other(p)) \/ m = StateSync \/ m.type = "Input" \/ m = Junk
  BY <1>3 DEF From
<1> QED BY <1>3, <1>4, <1>5 DEF Hello, StateSync, Junk

LEMMA ReturnStartInv ==
  ASSUME StartInv, NEW p \in Peers, Return(p)
  PROVE  StartInv'
<1> USE DEF StartInv
<1>1. PICK m : m = Decoded(rx[p].got)
  OBVIOUS
<1>2. /\ m \in Messages \union {Junk}
      /\ m.type = "Hello" => m = Hello(Other(p))
      /\ m.type = "StateSync" => m = StateSync
  BY <1>1, ReturnedFacts
<1>3. /\ rx' = [rx EXCEPT ![p] = Idle]
      /\ received' = [received EXCEPT ![p] = IF cut[p] THEN @ ELSE Append(@, m)]
      /\ UNCHANGED <<start_vars, g_wsa_refs, link_vars, cut, sent>>
      /\ pc[p] \in {"hello_wait", "state_wait", "play"}
  BY <1>1 DEF Return, Receiving
<1>4. /\ rx' \in [Peers -> Receives]
      /\ received' \in [Peers -> Seq(Messages \union {Junk})]
  <2>1. rx' \in [Peers -> Receives]
    BY <1>3, IdleFacts DEF Types
  <2>2. received[p] \in Seq(Messages \union {Junk})
    BY DEF Types
  <2>3. Append(received[p], m) \in Seq(Messages \union {Junk})
    BY <1>2, <2>2
  <2> QED BY <1>3, <2>1, <2>2, <2>3 DEF Types
<1>5. \A q \in Peers : Origin(q)'
  <2>1. \A q \in Peers : rx'[q].got = rx[q].got \/ rx'[q].got = <<>>
    BY <1>3, IdleFacts DEF Types
  <2> QED BY <1>3, <1>4, <2>1, OriginKept DEF Types, link_vars
<1> DEFINE Step(c) ==
      /\ pc' = [pc EXCEPT ![p] = c] /\ c \in Steps(p) /\ c \notin {"wsa", "ended"}
<1>6. ASSUME NEW c, Step(c), delay' \in [Peers -> Nat], game' \in [Peers -> Peers]
      PROVE  Types' /\ Referenced'
  <2>1. Types'
    BY <1>3, <1>4, <1>6 DEF Types, start_vars, link_vars
  <2>2. g_wsa_refs' = g_wsa_refs - Ref(p) + (IF c \in {"wsa", "ended"} THEN 0 ELSE 1)
    BY <1>3, <1>6 DEF Ref, Types
  <2> QED BY <1>6, <2>1, <2>2, ReferenceMoves
<1>7. CASE /\ pc[p] = "hello_wait" /\ HelloAccepted(p, m)
           /\ delay' = [delay EXCEPT ![p] = Settled(AdoptedDelay(p, m))]
           /\ pc' = [pc EXCEPT ![p] = IF p = "host" THEN "state" ELSE "state_wait"]
           /\ UNCHANGED game
  <2>1. m = Hello(Other(p)) /\ build[Other(p)] = build[p]
    BY <1>2, <1>7 DEF HelloAccepted, Hello
  <2>2. AdoptedDelay(p, m) = asked
    BY <2>1, PeersFacts DEF AdoptedDelay, Hello, Other
  <2>3. Settled(asked) \in Nat
    BY PredictionAssumption DEF Settled, Types
  <2>4. Step(IF p = "host" THEN "state" ELSE "state_wait")
    BY <1>7 DEF Steps
  <2>5. /\ delay' \in [Peers -> Nat] /\ delay'[p] = Settled(asked)
        /\ \A q \in Peers : q # p => delay'[q] = delay[q]
    BY <1>7, <2>2, <2>3 DEF Types
  <2>6. Types' /\ Referenced'
    <3>1. game' \in [Peers -> Peers]
      BY <1>7 DEF Types
    <3> HIDE DEF Step
    <3> QED BY <1>6, <2>4, <2>5, <3>1
  <2>7. Settled(asked)' = Settled(asked) /\ UNCHANGED <<asked, build, saves>>
    BY <1>3 DEF Settled, start_vars
  <2>8. /\ pc'[p] = (IF p = "host" THEN "state" ELSE "state_wait")
        /\ \A q \in Peers : q # p => pc'[q] = pc[q]
    BY <1>7 DEF Types
  <2>9. Started'
    <3>1. build["host"] = build["join"]
      BY <2>1, PeersFacts DEF Other
    <3>2. "host" \in Peers /\ "join" \in Peers /\ Started
      BY DEF Peers
    <3>3. CASE p = "host"
      BY <1>7, <2>5, <2>7, <2>8, <3>1, <3>2, <3>3 DEF Started
    <3>4. CASE p = "join"
      BY <1>7, <2>5, <2>7, <2>8, <3>1, <3>2, <3>4 DEF Started
    <3> QED BY <3>3, <3>4, PeersFacts
  <2> QED BY <1>5, <2>6, <2>9
<1>8. CASE /\ pc[p] \in {"hello_wait", "state_wait"}
           /\ pc' = [pc EXCEPT ![p] = "failed"]
           /\ UNCHANGED <<delay, game>>
  <2>1. Step("failed")
    BY <1>8 DEF Steps
  <2>2. Types' /\ Referenced'
    BY <1>6, <1>8, <2>1 DEF Types
  <2>3. Started'
    BY <1>3, <1>8, PeersFacts DEF Started, Types, start_vars, Settled
  <2> QED BY <1>5, <2>2, <2>3
<1>9. CASE /\ pc[p] = "state_wait" /\ m.type = "StateSync"
           /\ game' = [game EXCEPT ![p] = IF m.blob = "empty" THEN @ ELSE m.blob]
           /\ pc' = [pc EXCEPT ![p] = "play"]
           /\ UNCHANGED delay
  <2>1. Step("play") /\ p = "join"
    BY <1>9, PeersFacts DEF Steps, Types
  <2>2. /\ m.blob = IF saves THEN "host" ELSE "empty"
        /\ "host" \in Peers
    BY <1>2, <1>9 DEF StateSync, Peers
  <2>3. game' \in [Peers -> Peers] /\ saves => game'[p] = "host"
    BY <1>9, <2>2 DEF Types
  <2>4. game' \in [Peers -> Peers]
    <3>1. CASE saves
      BY <1>9, <2>2, <3>1 DEF Types
    <3>2. CASE ~saves
      BY <1>9, <2>2, <3>2 DEF Types
    <3> QED BY <3>1, <3>2
  <2>5. Types' /\ Referenced'
    BY <1>6, <1>9, <2>1, <2>4 DEF Types
  <2>6. Started'
    BY <1>3, <1>9, <2>1, <2>3, <2>4
    DEF Started, Types, start_vars, Settled, Peers
  <2> QED BY <1>5, <2>5, <2>6
<1>10. CASE pc[p] = "play" /\ UNCHANGED session_vars
  <2>1. Step("play")
    BY <1>10 DEF session_vars, Steps, Types
  <2>2. Types' /\ Referenced'
    BY <1>6, <1>10, <2>1 DEF Types, session_vars
  <2>3. Started'
    BY <1>3, <1>10 DEF Started, start_vars, session_vars, Settled
  <2> QED BY <1>5, <2>2, <2>3
<1>11. Return(p)
  OBVIOUS
<1> HIDE DEF Step
<1> QED BY <1>1, <1>7, <1>8, <1>9, <1>10, <1>11 DEF Return, Goto

\* A receive that gives up: a session that waits for its start fails, one that
\* plays lockstep goes on after a timeout.
LEMMA GiveUpStartInv ==
  ASSUME StartInv, NEW p \in Peers, Timeout(p) \/ RecvFails(p)
  PROVE  StartInv'
<1> USE DEF StartInv
<1>1. /\ pc[p] \in {"hello_wait", "state_wait", "play"}
      /\ rx' = [rx EXCEPT ![p] = Idle]
      /\ UNCHANGED <<start_vars, delay, game, g_wsa_refs, link_vars, sent,
                     received>>
      /\ cut' \in [Peers -> BOOLEAN]
  BY DEF Timeout, RecvFails, Receiving, Types, log_vars
<1>2. PICK c \in {pc[p], "failed"} : pc' = [pc EXCEPT ![p] = c]
  <2>1. pc = [pc EXCEPT ![p] = pc[p]]
    BY DEF Types
  <2> QED BY <2>1 DEF Timeout, RecvFails, Goto
<1>3. c \in Steps(p) /\ c \notin {"wsa", "ended"}
  BY <1>1 DEF Types, Steps
<1>4. rx' \in [Peers -> Receives]
  BY <1>1, IdleFacts DEF Types
<1>5. Types'
  BY <1>1, <1>2, <1>3, <1>4 DEF Types, start_vars, link_vars
<1>6. Referenced'
  <2>1. g_wsa_refs' = g_wsa_refs - Ref(p) + (IF c \in {"wsa", "ended"} THEN 0 ELSE 1)
    BY <1>1, <1>3 DEF Ref, Types
  <2> QED BY <1>2, <2>1, ReferenceMoves
<1>7. Started'
  BY <1>1, <1>2, PeersFacts DEF Started, Types, start_vars, Settled
<1>8. \A q \in Peers : Origin(q)'
  <2>1. \A q \in Peers : rx'[q].got = rx[q].got \/ rx'[q].got = <<>>
    BY <1>1, IdleFacts DEF Types
  <2> QED BY <1>1, <1>4, <2>1, OriginKept DEF Types, link_vars
<1> QED BY <1>5, <1>6, <1>7, <1>8

LEMMA CloseStartInv ==
  ASSUME StartInv, NEW p \in Peers, close(p) \/ Quit(p)
  PROVE  StartInv'
<1> USE DEF StartInv
<1>1. /\ pc[p] \in {"failed", "play"} /\ pc' = [pc EXCEPT ![p] = "ended"]
      /\ g_wsa_refs' = g_wsa_refs - 1
      /\ UNCHANGED <<start_vars, delay, game, link_vars, rx, log_vars>>
  BY DEF close, Quit, Goto
<1>2. Types'
  <2>1. g_wsa_refs' \in Int
    BY <1>1 DEF Types
  <2>2. pc' = [q \in Peers |-> pc'[q]] /\ \A q \in Peers : pc'[q] \in Steps(q)
    BY <1>1 DEF Types, Steps
  <2> QED BY <1>1, <2>1, <2>2 DEF Types, start_vars, link_vars, log_vars
<1>3. Referenced'
  <2>1. g_wsa_refs' = g_wsa_refs - Ref(p) + 0
    BY <1>1 DEF Ref, Types
  <2> QED BY <1>1, <2>1, ReferenceMoves
<1>4. Started'
  BY <1>1, PeersFacts DEF Started, Types, start_vars, Settled
<1>5. \A q \in Peers : Origin(q)'
  BY <1>1, <1>2, OriginKept DEF Types, link_vars
<1> QED BY <1>2, <1>3, <1>4, <1>5

\* The connection breaks, or nothing moves.
LEMMA BreakStartInv ==
  ASSUME StartInv, Break \/ UNCHANGED vars
  PROVE  StartInv'
<1> USE DEF StartInv
<1>1. /\ UNCHANGED <<start_vars, session_vars, g_wsa_refs, connected, stream, rx,
                     log_vars>>
      /\ reset' \in BOOLEAN
  BY DEF Break, vars, link_vars, Types
<1>2. Types'
  BY <1>1 DEF Types, start_vars, session_vars, log_vars
<1>3. Referenced' /\ Started'
  BY <1>1 DEF Referenced, Ref, Started, start_vars, session_vars, Settled
<1>4. \A q \in Peers : Origin(q)'
  BY <1>1, <1>2, PeersFacts, OriginKept DEF Types, Peers
<1> QED BY <1>2, <1>3, <1>4

LEMMA NextStartInv == StartInv /\ [Next]_vars => StartInv'
<1> SUFFICES ASSUME StartInv, [Next]_vars PROVE StartInv'
  OBVIOUS
<1>1. CASE connect \/ accept
  BY <1>1, ConnectStartInv
<1>2. CASE SendState
  BY <1>2, SendStartInv DEF Peers
<1>3. CASE Break \/ Ended \/ UNCHANGED vars
  BY <1>3, BreakStartInv DEF Ended
<1>4. ASSUME NEW p \in Peers, SetUpActions(p) PROVE StartInv'
  BY <1>4, SetUpStartInv
<1>5. ASSUME NEW p \in Peers, SendHello(p) \/ SendInput(p) PROVE StartInv'
  BY <1>5, SendStartInv
<1>6. ASSUME NEW p \in Peers,
             ReadPiece(p) \/ ReadLength(p) \/ Return(p) \/ RecvFails(p)
               \/ Timeout(p)
      PROVE  StartInv'
  BY <1>6, ReadPieceStartInv, ReadLengthStartInv, ReturnStartInv, GiveUpStartInv
<1>7. ASSUME NEW p \in Peers, close(p) \/ Quit(p) PROVE StartInv'
  BY <1>7, CloseStartInv
<1> QED BY <1>1, <1>2, <1>3, <1>4, <1>5, <1>6, <1>7 DEF Next, SessionStep

\* The references counted are those of the transports there are.
LEMMA ReferencedCounts == Types /\ Referenced => WsaBalanced
<1> SUFFICES ASSUME Types, Referenced PROVE WsaBalanced
  OBVIOUS
<1> DEFINE S == {p \in Peers : pc[p] \notin {"wsa", "ended"}}
<1>1. CASE Ref("host") = 0 /\ Ref("join") = 0
  <2>1. S = {}
    BY <1>1 DEF Ref, Peers
  <2> QED BY <1>1, <2>1, FS_EmptySet DEF Referenced, WsaBalanced
<1>2. CASE Ref("host") = 1 /\ Ref("join") = 0
  <2>1. S = {"host"}
    BY <1>2 DEF Ref, Peers
  <2>2. Cardinality(S) = 1
    BY <2>1, FS_Singleton
  <2> QED BY <1>2, <2>2 DEF Referenced, WsaBalanced
<1>3. CASE Ref("host") = 0 /\ Ref("join") = 1
  <2>1. S = {"join"}
    BY <1>3 DEF Ref, Peers
  <2> QED BY <1>3, <2>1, FS_Singleton DEF Referenced, WsaBalanced
<1>4. CASE Ref("host") = 1 /\ Ref("join") = 1
  <2>1. S = {"host"} \union {"join"}
    BY <1>4 DEF Ref, Peers
  <2>2. IsFiniteSet({"host"}) /\ Cardinality({"host"}) = 1
    BY FS_Singleton
  <2>3. Cardinality({"host"} \union {"join"}) = 2
    BY <2>2, FS_AddElement
  <2> QED BY <1>4, <2>1, <2>3 DEF Referenced, WsaBalanced
<1> QED BY <1>1, <1>2, <1>3, <1>4 DEF Ref

\* Every reachable state satisfies the invariant of the start: the types, a
\* reference per open transport, what a peer that got the other one's Hello
\* made of it, and that every byte is one of the other side's messages.
THEOREM StartInvariant == Spec => []StartInv
BY InitStartInv, NextStartInv, PTL DEF Spec

\* However host and join, and the error paths of each, interleave in one
\* process, wsa_startup and wsa_cleanup leave one Winsock reference for each
\* transport that is being set up or is open.
THEOREM WinsockReferences == Spec => []WsaBalanced
<1>1. StartInv => WsaBalanced
  BY ReferencedCounts DEF StartInv
<1> QED BY StartInvariant, <1>1, PTL

\* Two sessions that came through start_host and start_join over TCP play the
\* same core and content with the host's delay (or prediction limit, never 0)
\* and, where the core saves states, from the host's state, whatever the
\* connection lost, delayed or cut before.
THEOREM PlayersAgree == Spec => []StartAgrees
<1>1. StartInv => StartAgrees
  BY PredictionAssumption DEF StartInv, Started, StartAgrees, Settled, Peers, Types
<1> QED BY StartInvariant, <1>1, PTL

\* The state of sessions and transports keeps its type; in particular the
\* count of Winsock references never becomes negative.
THEOREM TcpTypes == Spec => []TypeOK
<1>1. StartInv => TypeOK
  BY PeersFacts DEF StartInv, Types, TypeOK, Referenced, Ref, Steps
<1> QED BY StartInvariant, <1>1, PTL
-----------------------------------------------------------------------------
(* The stream.  Written down one after the other, the frames sent to a peer *)
(* take up a line of bytes; each byte it has yet to read is the one at its  *)
(* place on the line.                                                       *)

FrameLen(m) == HeaderLen + PayloadLen(m)
ByteAt(m, j) == IF j <= HeaderLen THEN Byte(m, "header", j)
                ELSE Byte(m, "payload", j - HeaderLen)

\* Where the frames of w end on the line.
Ends(w, t) ==
  /\ t[0] = 0
  /\ \A i \in 1..Len(w) : t[i] = t[i - 1] + FrameLen(w[i])
  /\ \A i, j \in 0..Len(w) : i <= j => t[i] <= t[j]

\* How much of the frame under way a receive r has read.
Read(r) == Len(r.got) + IF r.part = "header" THEN 0 ELSE HeaderLen

\* Where the bytes s that are on their way end, after n frames and r.
End(n, r, s, t) == t[n] + Read(r) + Len(s)

\* A peer's place on the line w with the ends t: it received n frames, r is
\* what it has read of the next, and s is on its way.
OnLine(n, r, s, w, t) ==
  /\ \A k \in 1..Len(s), i \in 1..Len(w) : \A j \in 1..FrameLen(w[i]) :
       t[i - 1] + j = t[n] + Read(r) + k => s[k] = ByteAt(w[i], j)
  /\ r.part = "header" =>
       /\ r.need = HeaderLen
       /\ \A k \in 1..Len(r.got) : n < Len(w) /\ r.got[k] = ByteAt(w[n + 1], k)
  /\ r.part = "payload" =>
       /\ n < Len(w) /\ r.need = PayloadLen(w[n + 1])
       /\ \A k \in 1..Len(r.got) : r.got[k] = ByteAt(w[n + 1], HeaderLen + k)
  /\ Len(r.got) <= r.need

\* The same with the types, and no bytes beyond the line.
Placed(n, r, s, w, t) ==
  /\ w \in Seq(Messages) /\ t \in [0..Len(w) -> Nat] /\ Ends(w, t)
  /\ n \in 0..Len(w) /\ r \in Receives /\ s \in Seq(Bytes)
  /\ OnLine(n, r, s, w, t) /\ End(n, r, s, t) <= t[Len(w)]

\* A piece of k bytes is read of s, and r and s become r2 and s2.
Reads(k, r, s, r2, s2) ==
  /\ k \in 1..(r.need - Len(r.got)) /\ k <= Len(s)
  /\ r2 = [got |-> r.got \o SubSeq(s, 1, k), part |-> r.part, need |-> r.need]
  /\ s2 = SubSeq(s, k + 1, Len(s))

\* The first k bytes of m's frame are sent behind s.
Adds(k, m, s, s2) ==
  k \in 0..FrameLen(m) /\ s2 = s \o SubSeq(Frame(m), 1, k)

\* u are the ends of the line w with m behind it, of which k bytes were sent.
Longer(n, r, s, w, m, k, u) ==
  LET v == Append(w, m) IN
  /\ u \in [0..Len(v) -> Nat] /\ u[Len(w)] \in Nat
  /\ Ends(v, u) /\ OnLine(n, r, s, v, u)
  /\ u[Len(v)] = u[Len(w)] + FrameLen(m) /\ End(n, r, s, u) = u[Len(w)] + k

\* The line w ends with what was sent to p, and all its bytes are read or on
\* their way; or there is one more message on it, whose send failed after some
\* of its bytes.
Sent(p, w, t, end) ==
  LET q == Other(p) IN
  \/ w = sent[q] /\ end = t[Len(w)]
  \/ /\ reset /\ pc[q] \in {"failed", "ended"}
     /\ \E m \in Messages : w = Append(sent[q], m)
     /\ t[Len(sent[q])] <= end /\ end < t[Len(w)]

\* The line to p.
Line(p) ==
  \E w \in Seq(Messages) : \E t \in [0..Len(w) -> Nat] :
    /\ Ends(w, t) /\ OnLine(Len(received[p]), rx[p], stream[p], w, t)
    /\ Sent(p, w, t, End(Len(received[p]), rx[p], stream[p], t))

\* What p received is the beginning of what was sent to it.
Beginning(p) ==
  LET q == Other(p) IN
  /\ Len(received[p]) <= Len(sent[q])
  /\ \A i \in DOMAIN received[p] : received[p][i] = sent[q][i]

\* The invariant of the stream, on top of StartInv.
StreamInv ==
  \A p \in Peers :
    /\ Beginning(p)
    /\ ~cut[p] /\ pc[p] \notin {"failed", "ended"} => Line(p)

LEMMA FrameLens ==
  \A m : /\ FrameLen(m) = 2 + PayloadLen(m)
         /\ FrameLen(m) \in 3..4 /\ FrameLen(m) \in Nat
BY PayloadLens DEF FrameLen, HeaderLen

\* A frame's bytes at their places.
LEMMA BytesAtPlaces ==
  ASSUME NEW m \in Messages, NEW k \in 0..FrameLen(m)
  PROVE  LET b == SubSeq(Frame(m), 1, k)
         IN  b \in Seq(Bytes) /\ Len(b) = k /\ \A j \in 1..k : b[j] = ByteAt(m, j)
<1>1. /\ Header(m) \in Seq(Bytes) /\ Len(Header(m)) = 2
      /\ \A i \in 1..2 : Header(m)[i] = Byte(m, "header", i)
      /\ Payload(m) \in Seq(Bytes) /\ Len(Payload(m)) = PayloadLen(m)
      /\ \A i \in 1..PayloadLen(m) : Payload(m)[i] = Byte(m, "payload", i)
      /\ Frame(m) \in Seq(Bytes) /\ Len(Frame(m)) = FrameLen(m)
  BY FrameFacts, FrameLens
<1>2. ASSUME NEW j \in 1..FrameLen(m) PROVE Frame(m)[j] = ByteAt(m, j)
  <2> DEFINE h == Header(m)
             b == Payload(m)
  <2>1. \/ j \in 1..Len(h) /\ (h \o b)[j] = h[j]
        \/ j - Len(h) \in 1..Len(b) /\ (h \o b)[j] = b[j - Len(h)]
    <3>1. h \in Seq(Bytes) /\ b \in Seq(Bytes) /\ j \in 1..Len(h \o b)
      BY <1>1 DEF Frame
    <3> HIDE DEF h, b
    <3> QED BY <3>1, Pushed
  <2>2. Frame(m)[j] = (h \o b)[j]
    BY DEF Frame
  <2>3. CASE j \in 1..2 /\ (h \o b)[j] = h[j]
    BY <1>1, <2>2, <2>3 DEF ByteAt, HeaderLen
  <2>4. CASE j - 2 \in 1..PayloadLen(m) /\ (h \o b)[j] = b[j - 2]
    BY <1>1, <2>2, <2>4 DEF ByteAt, HeaderLen
  <2> QED BY <1>1, <2>1, <2>3, <2>4
<1>3. k \in 0..Len(Frame(m))
  BY <1>1
<1>4. /\ SubSeq(Frame(m), 1, k) \in Seq(Bytes) /\ Len(SubSeq(Frame(m), 1, k)) = k
      /\ \A i \in 1..k : SubSeq(Frame(m), 1, k)[i] = Frame(m)[i]
  BY <1>1, <1>3, Beginnings
<1>5. \A j \in 1..k : j \in 1..FrameLen(m)
  BY FrameLens
<1> QED BY <1>2, <1>4, <1>5

LEMMA SameSequence ==
  ASSUME NEW S, NEW s \in Seq(S), NEW u \in Seq(S), Len(s) = Len(u),
         \A i \in 1..Len(s) : s[i] = u[i]
  PROVE  s = u
OBVIOUS

\* A piece of k bytes is read.  It stays within the frame under way, as recv
\* asks for no more bytes than are missing of it.
LEMMA ReadOnLine ==
  ASSUME NEW w, NEW t, NEW n, NEW r, NEW s, Placed(n, r, s, w, t),
         NEW k, NEW r2, NEW s2, Reads(k, r, s, r2, s2)
  PROVE  OnLine(n, r2, s2, w, t) /\ End(n, r2, s2, t) = End(n, r, s, t)
<1> /\ w \in Seq(Messages) /\ t \in [0..Len(w) -> Nat] /\ Ends(w, t)
    /\ n \in 0..Len(w) /\ r \in Receives /\ s \in Seq(Bytes)
    /\ OnLine(n, r, s, w, t) /\ End(n, r, s, t) <= t[Len(w)]
  BY DEF Placed
<1> /\ k \in 1..(r.need - Len(r.got)) /\ k <= Len(s)
    /\ r2 = [got |-> r.got \o SubSeq(s, 1, k), part |-> r.part, need |-> r.need]
    /\ s2 = SubSeq(s, k + 1, Len(s))
  BY DEF Reads
<1>1. PICK g, b : g = r.got /\ b = SubSeq(s, 1, k)
  OBVIOUS
<1>2. g \in Seq(Bytes) /\ r.part \in {"header", "payload"} /\ r.need \in 0..2
  BY <1>1 DEF Receives
<1>3. k \in 1..Len(s) /\ k \in 0..Len(s) /\ Len(g) \in Nat /\ Len(s) \in Nat
  BY <1>1, <1>2
<1>4. /\ b \in Seq(Bytes) /\ Len(b) = k /\ \A i \in 1..k : b[i] = s[i]
  BY <1>1, <1>3, Beginnings
<1>5. /\ s2 \in Seq(Bytes) /\ Len(s2) = Len(s) - k
      /\ \A i \in 1..(Len(s) - k) : s2[i] = s[k + i]
  BY <1>3, Rests
<1>6. /\ g \o b \in Seq(Bytes) /\ Len(g \o b) = Len(g) + k
      /\ \A i \in 1..Len(g \o b) :
           \/ i \in 1..Len(g) /\ (g \o b)[i] = g[i]
           \/ i - Len(g) \in 1..k /\ (g \o b)[i] = b[i - Len(g)]
  BY <1>2, <1>4, Pushed
<1>7. r2.got = g \o b /\ r2.part = r.part /\ r2.need = r.need
  BY <1>1
<1>8. Read(r) \in Nat /\ Read(r2) = Read(r) + k
  <2>1. r2.part = "header" <=> r.part = "header"
    BY <1>7
  <2>2. CASE r.part = "header"
    <3>1. Read(r) = Len(g) /\ Read(r2) = Len(g \o b)
      BY <1>1, <1>3, <1>6, <1>7, <2>1, <2>2 DEF Read
    <3> QED BY <1>3, <1>6, <3>1
  <2>3. CASE r.part # "header"
    <3>1. Read(r) = Len(g) + 2 /\ Read(r2) = Len(g \o b) + 2
      BY <1>1, <1>7, <2>1, <2>3 DEF Read, HeaderLen
    <3>2. \A a, c \in Nat : a + 2 \in Nat /\ (a + c) + 2 = (a + 2) + c
      OBVIOUS
    <3>3. k \in Nat
      BY <1>3
    <3>4. PICK a \in Nat : a = Len(g)
      BY <1>3
    <3> QED BY <1>6, <3>1, <3>2, <3>3, <3>4
  <2> QED BY <2>2, <2>3
<1>9. t[n] \in Nat /\ t[Len(w)] \in Nat /\ Len(w) \in Nat
  <2>1. Len(w) \in Nat
    OBVIOUS
  <2>2. Len(w) \in 0..Len(w)
    BY <2>1
  <2> QED BY <2>1, <2>2
<1>10. End(n, r2, s2, t) = End(n, r, s, t)
  BY <1>3, <1>5, <1>8, <1>9, SMTT(30) DEF End
<1>11. n < Len(w)
  <2>1. t[n] < t[Len(w)]
    BY <1>3, <1>8, <1>9, SMTT(30) DEF End
  <2> QED BY <1>9, <2>1
<1>12. t[(n + 1) - 1] = t[n] /\ n + 1 \in 1..Len(w)
  BY <1>9, <1>11
<1>13. \A i \in 1..k : \A j \in 1..FrameLen(w[n + 1]) :
         j = Read(r) + i => s[i] = ByteAt(w[n + 1], j)
  <2> TAKE i \in 1..k
  <2> TAKE j \in 1..FrameLen(w[n + 1])
  <2> HAVE j = Read(r) + i
  <2>1. i \in 1..Len(s) /\ t[(n + 1) - 1] + j = t[n] + Read(r) + i
    <3>1. i \in 1..Len(s)
      BY <1>3
    <3>2. \A a, c, d \in Nat : a + (c + d) = a + c + d
      OBVIOUS
    <3>3. i \in Nat
      OBVIOUS
    <3> QED BY <1>8, <1>9, <1>12, <3>1, <3>2, <3>3
  <2> QED BY <1>12, <2>1 DEF OnLine
<1>14. ASSUME NEW x \in 1..Len(s2), NEW i \in 1..Len(w), NEW j \in 1..FrameLen(w[i]),
              t[i - 1] + j = t[n] + Read(r2) + x
       PROVE  s2[x] = ByteAt(w[i], j)
  <2>1. k + x \in 1..Len(s) /\ s2[x] = s[k + x]
    BY <1>3, <1>5
  <2>2. t[i - 1] + j = t[n] + Read(r) + (k + x)
    <3>1. \A a, c, d, e \in Nat : a + (c + d) + e = a + c + (d + e)
      OBVIOUS
    <3>2. x \in Nat /\ k \in Nat
      BY <1>3, <1>5
    <3> QED BY <1>8, <1>9, <1>14, <3>1, <3>2, SMTT(30)
  <2> QED BY <2>1, <2>2 DEF OnLine
<1>15. CASE r.part = "header"
  <2>1. r.need = 2 /\ Read(r) = Len(g) /\ Len(g) + k <= 2
    BY <1>1, <1>3, <1>15 DEF OnLine, HeaderLen, Read
  <2>2. ASSUME NEW x \in 1..Len(g \o b) PROVE (g \o b)[x] = ByteAt(w[n + 1], x)
    <3>1. CASE x \in 1..Len(g) /\ (g \o b)[x] = g[x]
      BY <1>1, <1>15, <3>1 DEF OnLine
    <3>2. CASE x - Len(g) \in 1..k /\ (g \o b)[x] = b[x - Len(g)]
      <4>1. x \in 1..FrameLen(w[n + 1]) /\ x = Read(r) + (x - Len(g))
        <5>1. \A a, y, f \in Nat : /\ a + k <= 2 /\ y - a \in 1..k /\ f \in 3..4
                  => y \in 1..f /\ y = a + (y - a)
          BY <1>3
        <5>2. x \in Nat /\ FrameLen(w[n + 1]) \in 3..4 /\ FrameLen(w[n + 1]) \in Nat
          BY <1>3, <1>6, FrameLens
        <5> QED BY <1>3, <2>1, <3>2, <5>1, <5>2
      <4> QED BY <1>4, <1>13, <3>2, <4>1
    <3> QED BY <1>6, <3>1, <3>2
  <2> QED BY <1>6, <1>7, <1>10, <1>11, <1>14, <1>15, <2>1, <2>2
          DEF OnLine, HeaderLen
<1>16. CASE r.part = "payload"
  <2>1. /\ r.need = PayloadLen(w[n + 1]) /\ Read(r) = Len(g) + 2
        /\ Len(g) + k <= PayloadLen(w[n + 1])
    <3>1. r.need = PayloadLen(w[n + 1])
      BY <1>16 DEF OnLine
    <3>2. Read(r) = Len(g) + 2
      BY <1>1, <1>16 DEF HeaderLen, Read
    <3>3. k \in 1..(r.need - Len(g))
      BY <1>1
    <3>4. \A a \in Nat, c \in 0..2 : k \in 1..(c - a) => a + k <= c
      BY <1>3
    <3> QED BY <1>2, <1>3, <3>1, <3>2, <3>3, <3>4
  <2>2. ASSUME NEW x \in 1..Len(g \o b) PROVE (g \o b)[x] = ByteAt(w[n + 1], 2 + x)
    <3>1. CASE x \in 1..Len(g) /\ (g \o b)[x] = g[x]
      BY <1>1, <1>16, <3>1 DEF OnLine, HeaderLen
    <3>2. CASE x - Len(g) \in 1..k /\ (g \o b)[x] = b[x - Len(g)]
      <4>1. 2 + x \in 1..FrameLen(w[n + 1]) /\ 2 + x = Read(r) + (x - Len(g))
        <5>1. \A a, y, c \in Nat : a + k <= c /\ y - a \in 1..k
                => 2 + y \in 1..(2 + c) /\ 2 + y = (a + 2) + (y - a)
          BY <1>3
        <5>2. /\ x \in Nat /\ PayloadLen(w[n + 1]) \in Nat
              /\ FrameLen(w[n + 1]) = 2 + PayloadLen(w[n + 1])
          <6>1. x \in Nat
            BY <1>3, <1>6
          <6>2. PayloadLen(w[n + 1]) \in Nat
            BY PayloadLens, Zenon
          <6> QED BY <6>1, <6>2, FrameLens
        <5> QED BY <1>3, <2>1, <3>2, <5>1, <5>2, SMTT(30)
      <4> QED BY <1>4, <1>13, <3>2, <4>1
    <3> QED BY <1>6, <3>1, <3>2
  <2> QED BY <1>6, <1>7, <1>10, <1>11, <1>14, <1>16, <2>1, <2>2
          DEF OnLine, HeaderLen
<1> QED BY <1>2, <1>15, <1>16

\* The header is there: its length is that of the frame under way.
LEMMA LengthOnLine ==
  ASSUME NEW w, NEW t, NEW n, NEW r, NEW s, Placed(n, r, s, w, t),
         r.part = "header", Len(r.got) = r.need,
         NEW len \in Lengths(r.got),
         NEW r2, r2 = [got |-> <<>>, part |-> "payload", need |-> len]
  PROVE  OnLine(n, r2, s, w, t) /\ End(n, r2, s, t) = End(n, r, s, t)
<1> /\ w \in Seq(Messages) /\ t \in [0..Len(w) -> Nat] /\ Ends(w, t)
    /\ n \in 0..Len(w) /\ r \in Receives /\ s \in Seq(Bytes)
    /\ OnLine(n, r, s, w, t) /\ End(n, r, s, t) <= t[Len(w)]
  BY DEF Placed
<1>1. PICK g : g = r.got /\ g \in Seq(Bytes)
  BY DEF Receives
<1>2. /\ Len(g) = 2 /\ n < Len(w)
      /\ g[1] = Byte(w[n + 1], "header", 1) /\ g[2] = Byte(w[n + 1], "header", 2)
  <2>1. /\ Len(g) = 2
        /\ \A k \in 1..2 : n < Len(w) /\ g[k] = ByteAt(w[n + 1], k)
    BY <1>1 DEF OnLine, HeaderLen
  <2>2. ByteAt(w[n + 1], 1) = Byte(w[n + 1], "header", 1)
          /\ ByteAt(w[n + 1], 2) = Byte(w[n + 1], "header", 2)
    BY DEF ByteAt, HeaderLen
  <2>3. 1 \in 1..2 /\ 2 \in 1..2
    OBVIOUS
  <2> QED BY <2>1, <2>2, <2>3
<1>3. g[1].msg = w[n + 1] /\ w[n + 1] \in Messages
  BY <1>2 DEF Byte
<1>4. g = Header(w[n + 1])
  <2>1. /\ Header(w[n + 1]) \in Seq(Bytes) /\ Len(Header(w[n + 1])) = 2
        /\ \A i \in 1..2 : Header(w[n + 1])[i] = Byte(w[n + 1], "header", i)
    BY <1>3, FrameFacts
  <2>2. \A i \in 1..2 : g[i] = Header(w[n + 1])[i]
    BY <1>2, <2>1
  <2> QED BY <1>1, <1>2, <2>1, <2>2, SameSequence
<1>5. len = PayloadLen(w[n + 1])
  BY <1>1, <1>3, <1>4 DEF Lengths
<1>6. r2.got = <<>> /\ r2.part = "payload" /\ r2.need = PayloadLen(w[n + 1])
  BY <1>5
<1>7. Read(r2) = Read(r) /\ Len(r2.got) = 0 /\ Read(r2) = 2
  BY <1>1, <1>2, <1>6 DEF Read, HeaderLen
<1> QED BY <1>2, <1>6, <1>7, PayloadLens DEF OnLine, End

\* The payload is there: the frame under way has been read.
LEMMA ReturnOnLine ==
  ASSUME NEW w, NEW t, NEW n, NEW r, NEW s, Placed(n, r, s, w, t),
         r.part = "payload", Len(r.got) = r.need
  PROVE  /\ n < Len(w) /\ Decoded(r.got) = w[n + 1]
         /\ OnLine(n + 1, Idle, s, w, t)
         /\ End(n + 1, Idle, s, t) = End(n, r, s, t)
<1> /\ w \in Seq(Messages) /\ t \in [0..Len(w) -> Nat] /\ Ends(w, t)
    /\ n \in 0..Len(w) /\ r \in Receives /\ s \in Seq(Bytes)
    /\ OnLine(n, r, s, w, t) /\ End(n, r, s, t) <= t[Len(w)]
  BY DEF Placed
<1>1. PICK g : g = r.got /\ g \in Seq(Bytes)
  BY DEF Receives
<1>2. /\ n < Len(w) /\ Len(g) = PayloadLen(w[n + 1])
      /\ \A k \in 1..Len(g) : g[k] = ByteAt(w[n + 1], 2 + k)
  BY <1>1 DEF OnLine, HeaderLen
<1>3. \A k \in 1..Len(g) : g[k] = Byte(w[n + 1], "payload", k)
  <2> TAKE k \in 1..Len(g)
  <2>1. ~(2 + k <= 2) /\ (2 + k) - 2 = k
    OBVIOUS
  <2>2. g[k] = ByteAt(w[n + 1], 2 + k)
    BY <1>2
  <2> QED BY <2>1, <2>2 DEF ByteAt, HeaderLen
<1>4. w[n + 1] \in Messages /\ 1 \in 1..Len(g)
  BY <1>2, PayloadLens
<1>5. g # <<>> /\ g[1].msg = w[n + 1]
  <2>1. g[1] = Byte(w[n + 1], "payload", 1)
    BY <1>3, <1>4
  <2>2. g # <<>>
    BY <1>1, <1>4
  <2> QED BY <2>1, <2>2 DEF Byte
<1>6. g = Payload(w[n + 1])
  <2>1. /\ Payload(w[n + 1]) \in Seq(Bytes)
        /\ Len(Payload(w[n + 1])) = Len(g)
        /\ \A i \in 1..Len(g) : Payload(w[n + 1])[i] = Byte(w[n + 1], "payload", i)
    BY <1>2, <1>4, FrameFacts
  <2>2. \A i \in 1..Len(g) : g[i] = Payload(w[n + 1])[i]
    BY <1>3, <2>1
  <2> QED BY <1>1, <2>1, <2>2, SameSequence
<1>7. Decoded(r.got) = w[n + 1]
  BY <1>1, <1>5, <1>6 DEF Decoded
<1>8. Idle.got = <<>> /\ Idle.part = "header" /\ Idle.need = 2 /\ Read(Idle) = 0
  BY DEF Idle, HeaderLen, Read
<1>9. t[n] + Read(r) = t[n + 1] + Read(Idle) /\ t[n] \in Nat /\ t[n + 1] \in Nat
  <2>1. Read(r) = PayloadLen(w[n + 1]) + 2
    BY <1>1, <1>2, PayloadLens DEF Read, HeaderLen
  <2>2. n + 1 \in 1..Len(w) /\ (n + 1) - 1 = n
    BY <1>2
  <2>3. t[n + 1] = t[n] + FrameLen(w[n + 1])
    BY <2>2 DEF Ends
  <2>4. t[n] \in Nat /\ t[n + 1] \in Nat
    BY <2>2
  <2> QED BY <1>8, <2>1, <2>3, <2>4, FrameLens, PayloadLens
<1>10. OnLine(n + 1, Idle, s, w, t)
  <2>1. \A k \in 1..Len(s), i \in 1..Len(w) : \A j \in 1..FrameLen(w[i]) :
          t[i - 1] + j = t[n + 1] + Read(Idle) + k => s[k] = ByteAt(w[i], j)
    BY <1>9 DEF OnLine
  <2>2. Len(Idle.got) = 0
    BY <1>8
  <2> QED BY <1>8, <2>1, <2>2 DEF OnLine, HeaderLen
<1>11. End(n + 1, Idle, s, t) = End(n, r, s, t)
  BY <1>9 DEF End
<1> QED BY <1>2, <1>7, <1>10, <1>11

LEMMA LastOrBefore == \A N \in Nat : \A i \in 1..(N + 1) : i = N + 1 \/ i \in 1..N
OBVIOUS

\* A frame is sent whole, or k bytes of it, after a line whose bytes have all
\* been read or are on their way.
LEMMA SendOnLine ==
  ASSUME NEW w, NEW t, NEW n, NEW r, NEW s, Placed(n, r, s, w, t),
         End(n, r, s, t) = t[Len(w)],
         NEW m \in Messages, NEW k, NEW s2, Adds(k, m, s, s2)
  PROVE  \E u : Longer(n, r, s2, w, m, k, u)
<1> /\ w \in Seq(Messages) /\ t \in [0..Len(w) -> Nat] /\ Ends(w, t)
    /\ n \in 0..Len(w) /\ r \in Receives /\ s \in Seq(Bytes)
    /\ OnLine(n, r, s, w, t) /\ End(n, r, s, t) <= t[Len(w)]
  BY DEF Placed
<1>0. PICK b : /\ k \in 0..FrameLen(m) /\ s2 = s \o b
               /\ b \in Seq(Bytes) /\ Len(b) = k
               /\ \A j \in 1..k : b[j] = ByteAt(m, j)
  <2>1. PICK b : b = SubSeq(Frame(m), 1, k)
    OBVIOUS
  <2>2. k \in 0..FrameLen(m) /\ s2 = s \o b
    BY <2>1 DEF Adds
  <2>3. b \in Seq(Bytes) /\ Len(b) = k /\ \A j \in 1..k : b[j] = ByteAt(m, j)
    BY <2>1, <2>2, BytesAtPlaces
  <2> QED BY <2>2, <2>3
<1> USE <1>0
<1>00. PICK v : v = Append(w, m)
  OBVIOUS
<1> USE <1>00
<1>1. PICK N \in Nat : N = Len(w)
  OBVIOUS
<1>2. PICK F \in Nat : F = FrameLen(m)
  BY FrameLens, Zenon
<1>3. /\ v \in Seq(Messages) /\ Len(v) = N + 1
      /\ \A i \in 1..N : v[i] = w[i]
      /\ v[N + 1] = m
  BY <1>1, Appended
<1>4. \A i \in 0..N : t[i] \in Nat
  BY <1>1
<1>5. N \in 0..N
  OBVIOUS
<1>6. PICK T \in Nat : T = t[N]
  BY <1>4, <1>5
<1>7. PICK u : u = [i \in 0..(N + 1) |-> IF i <= N THEN t[i] ELSE T + F]
  OBVIOUS
<1>8. (\A i \in 0..N : u[i] = t[i]) /\ u[N + 1] = T + F
  BY <1>7
<1>9. u \in [0..(N + 1) -> Nat]
  BY <1>4, <1>7
<1>10. /\ t[0] = 0 /\ \A i \in 1..N : t[i] = t[i - 1] + FrameLen(w[i])
       /\ \A i, j \in 0..N : i <= j => t[i] <= t[j]
  BY <1>1 DEF Ends
<1>11. Ends(v, u)
  <2>1. u[0] = 0
    BY <1>8, <1>10
  <2>2. ASSUME NEW i \in 1..(N + 1) PROVE u[i] = u[i - 1] + FrameLen(v[i])
    <3>1. CASE i = N + 1
      <4>1. i - 1 = N
        BY <3>1
      <4> QED BY <1>2, <1>3, <1>5, <1>6, <1>8, <3>1, <4>1
    <3>2. CASE i \in 1..N
      <4>1. i \in 0..N /\ i - 1 \in 0..N
        BY <3>2
      <4> QED BY <1>3, <1>8, <1>10, <3>2, <4>1
    <3> QED BY <3>1, <3>2, LastOrBefore
  <2>3. ASSUME NEW i \in 0..(N + 1), NEW j \in 0..(N + 1), i <= j
        PROVE  u[i] <= u[j]
    <3>1. CASE j \in 0..N
      <4>1. i \in 0..N
        BY <2>3, <3>1
      <4> QED BY <1>8, <1>10, <2>3, <3>1, <4>1
    <3>2. CASE j = N + 1 /\ i \in 0..N
      <4>1. t[i] <= T
        BY <1>5, <1>6, <1>10, <3>2
      <4>2. PICK y \in Nat : y = t[i]
        BY <1>4, <3>2
      <4>3. y <= T + F
        BY <4>1, <4>2
      <4> QED BY <1>8, <3>2, <4>2, <4>3
    <3>3. CASE j = N + 1 /\ i = N + 1
      BY <1>8, <3>3
    <3> QED BY <3>1, <3>2, <3>3
  <2> QED BY <1>3, <2>1, <2>2, <2>3 DEF Ends
<1>12. PICK L \in Nat : L = Len(s)
  OBVIOUS
<1>13. /\ s2 \in Seq(Bytes) /\ Len(s2) = L + k
       /\ \A i \in 1..(L + k) :
            \/ i \in 1..L /\ s2[i] = s[i]
            \/ i - L \in 1..k /\ s2[i] = b[i - L]
  <2>1. /\ s \o b \in Seq(Bytes) /\ Len(s \o b) = Len(s) + Len(b)
        /\ \A i \in 1..Len(s \o b) :
             \/ i \in 1..Len(s) /\ (s \o b)[i] = s[i]
             \/ i - Len(s) \in 1..Len(b) /\ (s \o b)[i] = b[i - Len(s)]
    BY Pushed, Zenon
  <2> QED BY <1>12, <2>1, Zenon
<1>14. PICK R \in Nat : R = Read(r)
  BY DEF Read, HeaderLen, Receives
<1>15. PICK A \in Nat : A = t[n] /\ A = u[n]
  BY <1>1, <1>4, <1>8
<1>16. A + R + L = T
  BY <1>1, <1>6, <1>12, <1>14, <1>15 DEF End
<1>17. \A x \in 1..L, i \in 1..N : \A j \in 1..FrameLen(w[i]) :
         t[i - 1] + j = A + R + x => s[x] = ByteAt(w[i], j)
  BY <1>1, <1>12, <1>14, <1>15 DEF OnLine
<1>18. ASSUME NEW x \in 1..(L + k), NEW i \in 1..(N + 1),
              NEW j \in 1..FrameLen(v[i]), u[i - 1] + j = A + R + x
       PROVE  s2[x] = ByteAt(v[i], j)
  <2>1. CASE i \in 1..N
    <3>1. i - 1 \in 0..N /\ i \in 0..N /\ v[i] = w[i] /\ FrameLen(w[i]) \in Nat
      <4>1. i - 1 \in 0..N /\ i \in 0..N
        BY <2>1
      <4>2. FrameLen(w[i]) \in Nat
        BY FrameLens, Zenon
      <4> QED BY <1>3, <2>1, <4>1, <4>2
    <3>2. PICK y \in Nat : y = t[i - 1] /\ y = u[i - 1]
      BY <1>4, <1>8, <3>1
    <3>3. y + j = A + R + x
      BY <1>18, <3>2
    <3>4. y + FrameLen(w[i]) <= T
      <4>1. t[i] = y + FrameLen(w[i])
        BY <1>10, <2>1, <3>2
      <4>2. t[i] <= T
        BY <1>5, <1>6, <1>10, <2>1, <3>1
      <4> QED BY <4>1, <4>2
    <3>5. x \in 1..L
      <4>1. j <= FrameLen(w[i]) /\ j \in Nat
        BY <3>1, FrameLens
      <4> QED BY <1>16, <3>1, <3>3, <3>4, <4>1
    <3>6. s2[x] = s[x]
      BY <1>13, <3>5
    <3>7. t[i - 1] + j = A + R + x /\ j \in 1..FrameLen(w[i])
      BY <3>1, <3>2, <3>3
    <3> QED BY <1>17, <2>1, <3>1, <3>5, <3>6, <3>7
  <2>2. CASE i = N + 1
    <3>1. v[i] = m /\ u[i - 1] = T
      <4>1. i - 1 = N
        BY <2>2
      <4> QED BY <1>3, <1>5, <1>6, <1>8, <2>2, <4>1
    <3>2. j \in Nat /\ j > 0
      BY <3>1, FrameLens
    <3>3. T + j = A + R + x
      BY <1>18, <3>1
    <3>4. x = L + j
      BY <1>16, <3>2, <3>3
    <3>5. x - L = j /\ x \notin 1..L /\ j \in 1..k
      BY <3>2, <3>4
    <3>6. s2[x] = b[j]
      BY <1>13, <3>5
    <3>7. b[j] = ByteAt(m, j)
      BY <3>5
    <3> QED BY <3>1, <3>6, <3>7
  <2> QED BY <2>1, <2>2, LastOrBefore
<1>19. OnLine(n, r, s2, v, u)
  <2>1. \A x \in 1..Len(s2), i \in 1..Len(v) : \A j \in 1..FrameLen(v[i]) :
          u[i - 1] + j = u[n] + Read(r) + x => s2[x] = ByteAt(v[i], j)
    <3> TAKE x \in 1..Len(s2), i \in 1..Len(v)
    <3> TAKE j \in 1..FrameLen(v[i])
    <3> HAVE u[i - 1] + j = u[n] + Read(r) + x
    <3>1. x \in 1..(L + k) /\ i \in 1..(N + 1) /\ u[i - 1] + j = A + R + x
      BY <1>3, <1>13, <1>14, <1>15, Zenon
    <3> QED BY <1>18, <3>1, Zenon
  <2>2. n < Len(w) => n < Len(v) /\ v[n + 1] = w[n + 1]
    BY <1>1, <1>3
  <2> QED BY <2>1, <2>2 DEF OnLine
<1>20. u[Len(w)] = T /\ u[Len(v)] = T + F /\ End(n, r, s2, u) = T + k
  <2>1. u[N] = T
    BY <1>5, <1>6, <1>8
  <2>2. A + R + (L + k) = T + k
    BY <1>16
  <2> QED BY <1>1, <1>3, <1>8, <1>13, <1>14, <1>15, <2>1, <2>2 DEF End
<1>21. Longer(n, r, s2, w, m, k, u)
  BY <1>1, <1>2, <1>3, <1>6, <1>9, <1>11, <1>19, <1>20 DEF Longer
<1> QED BY <1>21

LEMMA InitStreamInv == Init => StreamInv
<1> SUFFICES ASSUME Init, NEW p \in Peers PROVE Beginning(p) /\ Line(p)
  BY DEF StreamInv
<1> USE DEF Init
<1>1. Other(p) \in Peers
  BY PeersFacts
<1>2. /\ received[p] = <<>> /\ sent[Other(p)] = <<>> /\ stream[p] = <<>>
      /\ rx[p] = Idle
  BY <1>1
<1>3. Beginning(p)
  BY <1>2 DEF Beginning
<1>4. PICK w, t : w = <<>> /\ t = [i \in 0..0 |-> 0]
  OBVIOUS
<1>5. w \in Seq(Messages) /\ Len(w) = 0 /\ t \in [0..Len(w) -> Nat] /\ t[0] = 0
  BY <1>4
<1>6. Ends(w, t)
  BY <1>5 DEF Ends
<1>7. Idle.got = <<>> /\ Idle.part = "header" /\ Idle.need = 2 /\ Read(Idle) = 0
  BY DEF Idle, HeaderLen, Read
<1>8. OnLine(0, Idle, <<>>, w, t)
  BY <1>7 DEF OnLine, HeaderLen
<1>9. Len(received[p]) = 0
  BY <1>2
<1>10. End(0, Idle, <<>>, t) = 0
  BY <1>5, <1>7 DEF End
<1>11. Sent(p, w, t, 0)
  BY <1>2, <1>4, <1>5 DEF Sent
<1>12. Line(p)
  BY <1>2, <1>5, <1>6, <1>8, <1>9, <1>10, <1>11 DEF Line
<1> QED BY <1>3, <1>12

\* What a line says of a peer, and where the peer is on it.
LEMMA LineOpens ==
  ASSUME Types, NEW p \in Peers, Beginning(p), Line(p)
  PROVE  \E w, t, n, r, s, e :
           /\ n = Len(received[p]) /\ r = rx[p] /\ s = stream[p]
           /\ e = End(n, r, s, t)
           /\ Placed(n, r, s, w, t) /\ Sent(p, w, t, e)
<1> DEFINE q == Other(p)
<1>1. PICK w \in Seq(Messages) : \E t \in [0..Len(w) -> Nat] :
        /\ Ends(w, t) /\ OnLine(Len(received[p]), rx[p], stream[p], w, t)
        /\ Sent(p, w, t, End(Len(received[p]), rx[p], stream[p], t))
  BY DEF Line
<1>2. PICK t \in [0..Len(w) -> Nat] :
        /\ Ends(w, t) /\ OnLine(Len(received[p]), rx[p], stream[p], w, t)
        /\ Sent(p, w, t, End(Len(received[p]), rx[p], stream[p], t))
  BY <1>1
<1>3. PICK n, r, s, e : /\ n = Len(received[p]) /\ r = rx[p] /\ s = stream[p]
                        /\ e = End(n, r, s, t)
  OBVIOUS
<1>4. Ends(w, t) /\ OnLine(n, r, s, w, t) /\ Sent(p, w, t, e)
  BY <1>2, <1>3
<1>5. r \in Receives /\ s \in Seq(Bytes) /\ received[p] \in Seq(Messages \union {Junk})
  BY <1>3 DEF Types
<1>6. sent[q] \in Seq(Messages)
  BY PeersFacts DEF Types
<1>7. n <= Len(sent[q]) /\ n \in Nat
  BY <1>3, <1>5 DEF Beginning
<1>8. Len(sent[q]) \in Nat /\ Len(sent[q]) <= Len(w) /\ Len(w) \in Nat
  <2>1. CASE w = sent[q]
    BY <1>6, <2>1
  <2>2. CASE \E m \in Messages : w = Append(sent[q], m)
    BY <1>6, <2>2
  <2> QED BY <1>4, <2>1, <2>2 DEF Sent
<1>9. n \in 0..Len(w)
  BY <1>7, <1>8
<1>10. e \in Nat /\ t[Len(w)] \in Nat
  <2>1. t[n] \in Nat /\ Len(s) \in Nat
    BY <1>5, <1>9
  <2>2. Read(r) \in Nat
    BY <1>5 DEF Read, HeaderLen, Receives
  <2>3. Len(w) \in 0..Len(w)
    BY <1>8
  <2> QED BY <1>3, <2>1, <2>2, <2>3, SMTT(30) DEF End
<1>11. e <= t[Len(w)]
  BY <1>4, <1>10 DEF Sent
<1>12. Placed(n, r, s, w, t)
  BY <1>3, <1>4, <1>5, <1>9, <1>11 DEF Placed
<1> QED BY <1>3, <1>4, <1>12

\* A line goes on when the peer's place on it does.
LEMMA LineCloses ==
  ASSUME NEW p \in Peers, NEW w \in Seq(Messages), NEW t \in [0..Len(w) -> Nat],
         NEW n, NEW r, NEW s, NEW e, e = End(n, r, s, t),
         Ends(w, t), OnLine(n, r, s, w, t), Sent(p, w, t, e),
         n = Len(received'[p]), r = rx'[p], s = stream'[p],
         sent'[Other(p)] = sent[Other(p)], reset => reset',
         pc[Other(p)] \in {"failed", "ended"} => pc'[Other(p)] \in {"failed", "ended"}
  PROVE  Line(p)'
<1>1. Sent(p, w, t, e)'
  BY DEF Sent
<1> QED BY <1>1 DEF Line

\* A step that moves no byte to, from or within p's line.
LEMMA LineKept ==
  ASSUME Types, NEW p \in Peers, Beginning(p), Line(p),
         received'[p] = received[p], rx'[p] = rx[p], stream'[p] = stream[p],
         sent'[Other(p)] = sent[Other(p)], reset => reset',
         pc[Other(p)] \in {"failed", "ended"} => pc'[Other(p)] \in {"failed", "ended"}
  PROVE  Line(p)'
<1>1. PICK w, t, n, r, s, e :
           /\ n = Len(received[p]) /\ r = rx[p] /\ s = stream[p]
           /\ e = End(n, r, s, t)
           /\ Placed(n, r, s, w, t) /\ Sent(p, w, t, e)
  BY LineOpens
<1> QED BY <1>1, LineCloses DEF Placed

\* A step that sends nothing and returns nothing.
LEMMA StreamKept ==
  ASSUME Types, StreamInv, UNCHANGED <<sent, received>>, reset => reset',
         \A q \in Peers :
           /\ pc[q] \in {"failed", "ended"} => pc'[q] \in {"failed", "ended"}
           /\ cut[q] => cut'[q]
           /\ \/ stream'[q] = stream[q] /\ rx'[q] = rx[q]
              \/ pc'[q] \in {"failed", "ended"} \/ cut'[q]
  PROVE  StreamInv'
<1> SUFFICES ASSUME NEW p \in Peers
             PROVE  /\ Beginning(p)'
                    /\ ~cut'[p] /\ pc'[p] \notin {"failed", "ended"} => Line(p)'
  BY DEF StreamInv
<1>1. Beginning(p) /\ (~cut[p] /\ pc[p] \notin {"failed", "ended"} => Line(p))
  BY DEF StreamInv
<1>2. Beginning(p)'
  BY <1>1 DEF Beginning
<1>3. ASSUME ~cut'[p], pc'[p] \notin {"failed", "ended"} PROVE Line(p)'
  <2>1. Line(p) /\ stream'[p] = stream[p] /\ rx'[p] = rx[p]
    BY <1>1, <1>3
  <2>2. Other(p) \in Peers
    BY PeersFacts
  <2> QED BY <1>1, <2>1, <2>2, LineKept
<1> QED BY <1>2, <1>3

\* The steps of the set-up, the ends of a session, a break and the receives
\* that give up.  A timeout between two frames has read nothing; one within a
\* frame is a cut, and a receive that fails ends the session.
LEMMA QuietStreamInv ==
  ASSUME StartInv, StreamInv, NEW p \in Peers,
         \/ SetUpActions(p) \/ connect \/ accept \/ close(p) \/ Quit(p)
         \/ Break \/ UNCHANGED vars \/ Timeout(p) \/ RecvFails(p)
  PROVE  StreamInv'
<1>1. Types
  BY DEF StartInv
<1>2. CASE SetUpActions(p)
  <2>1. /\ UNCHANGED <<stream, rx, cut, sent, received>>
        /\ reset => reset'
        /\ pc[p] \notin {"failed", "ended"}
    <3>1. CASE wsa_startup(p) \/ SetUpStep(p)
      BY <3>1 DEF wsa_startup, SetUpStep, link_vars, log_vars
    <3>2. CASE SetUpFails(p)
      <4>1. reset => reset'
        BY <3>2, Zenon DEF SetUpFails
      <4> QED BY <3>2, <4>1 DEF SetUpFails, log_vars
    <3> QED BY <1>2, <3>1, <3>2 DEF SetUpActions
  <2>2. \A q \in Peers : q # p => pc'[q] = pc[q]
    BY <1>1, <1>2 DEF SetUpActions, wsa_startup, SetUpStep, SetUpFails, Goto, Types
  <2>3. \A q \in Peers : pc[q] \in {"failed", "ended"} => pc'[q] \in {"failed", "ended"}
    BY <2>1, <2>2
  <2> QED BY <1>1, <2>1, <2>3, StreamKept
<1>3. CASE connect \/ accept \/ Break \/ UNCHANGED vars
  <2>1. /\ UNCHANGED <<stream, rx, cut, sent, received>>
        /\ reset => reset'
        /\ \A q \in Peers :
             pc[q] \in {"failed", "ended"} => pc'[q] \in {"failed", "ended"}
    BY <1>1, <1>3, PeersFacts
    DEF connect, accept, Break, vars, Goto, link_vars, log_vars, session_vars, Types
  <2> QED BY <1>1, <2>1, StreamKept
<1>4. CASE close(p) \/ Quit(p)
  <2>1. /\ UNCHANGED <<stream, rx, cut, sent, received, reset>>
        /\ pc' = [pc EXCEPT ![p] = "ended"]
    BY <1>4 DEF close, Quit, Goto, link_vars, log_vars
  <2> QED BY <1>1, <2>1, StreamKept DEF Types
<1>5. CASE Timeout(p)
  <2>1. /\ UNCHANGED <<stream, sent, received, reset>>
        /\ cut' = [cut EXCEPT ![p] = @ \/ rx[p] # Idle]
        /\ rx' = [rx EXCEPT ![p] = Idle]
        /\ pc[p] \notin {"failed", "ended"}
        /\ pc' = pc \/ pc' = [pc EXCEPT ![p] = "failed"]
    BY <1>5 DEF Timeout, Receiving, Goto, link_vars
  <2>2. \A q \in Peers : pc[q] \in {"failed", "ended"} => pc'[q] \in {"failed", "ended"}
    BY <1>1, <2>1 DEF Types
  <2>3. ASSUME NEW q \in Peers
        PROVE  (cut[q] => cut'[q]) /\ (rx'[q] = rx[q] \/ cut'[q])
    <3>1. CASE q # p
      BY <1>1, <2>1, <3>1 DEF Types
    <3>2. CASE q = p
      <4>1. cut'[p] <=> cut[p] \/ rx[p] # Idle
        BY <1>1, <2>1 DEF Types
      <4>2. rx'[p] = Idle
        BY <1>1, <2>1 DEF Types
      <4> QED BY <3>2, <4>1, <4>2
    <3> QED BY <3>1, <3>2
  <2> QED BY <1>1, <2>1, <2>2, <2>3, StreamKept
<1>6. CASE RecvFails(p)
  <2>1. /\ UNCHANGED <<stream, cut, sent, received, reset>>
        /\ rx' = [rx EXCEPT ![p] = Idle]
        /\ pc' = [pc EXCEPT ![p] = "failed"]
    BY <1>6 DEF RecvFails, Goto, link_vars, log_vars
  <2>2. \A q \in Peers :
          /\ pc[q] \in {"failed", "ended"} => pc'[q] \in {"failed", "ended"}
          /\ rx'[q] = rx[q] \/ pc'[q] \in {"failed", "ended"}
    BY <1>1, <2>1 DEF Types
  <2> QED BY <1>1, <2>1, <2>2, StreamKept
<1> QED BY <1>2, <1>3, <1>4, <1>5, <1>6

\* What a receive of p does concerns p's line only.
LEMMA ReceiverOnly ==
  ASSUME Types, StreamInv, NEW p \in Peers, UNCHANGED <<reset, sent>>,
         \A q \in Peers : q # p =>
           UNCHANGED <<stream[q], rx[q], received[q], cut[q], pc[q]>>,
         pc[p] \in {"failed", "ended"} => pc'[p] \in {"failed", "ended"},
         Beginning(p)',
         ~cut'[p] /\ pc'[p] \notin {"failed", "ended"} => Line(p)'
  PROVE  StreamInv'
<1> SUFFICES ASSUME NEW q \in Peers, q # p
             PROVE  /\ Beginning(q)'
                    /\ ~cut'[q] /\ pc'[q] \notin {"failed", "ended"} => Line(q)'
  BY DEF StreamInv
<1>1. Beginning(q) /\ (~cut[q] /\ pc[q] \notin {"failed", "ended"} => Line(q))
  BY DEF StreamInv
<1>2. Other(q) = p
  BY PeersFacts DEF Peers, Other
<1>3. Beginning(q)'
  BY <1>1 DEF Beginning
<1>4. ASSUME ~cut'[q], pc'[q] \notin {"failed", "ended"} PROVE Line(q)'
  BY <1>1, <1>2, <1>4, LineKept
<1> QED BY <1>3, <1>4

LEMMA ReadPieceStreamInv ==
  ASSUME StartInv, StreamInv, NEW p \in Peers, ReadPiece(p)
  PROVE  StreamInv'
<1>1. Types
  BY DEF StartInv
<1>2. PICK k \in 1..(rx[p].need - Len(rx[p].got)) :
        /\ k <= Len(stream[p])
        /\ rx' = [rx EXCEPT ![p].got = @ \o SubSeq(stream[p], 1, k)]
        /\ stream' = [stream EXCEPT ![p] = SubSeq(@, k + 1, Len(@))]
  BY DEF ReadPiece
<1>3. /\ UNCHANGED <<reset, sent, received, cut, pc>>
      /\ pc[p] \notin {"failed", "ended"}
  BY DEF ReadPiece, session_vars, log_vars, Receiving
<1>4. PICK r2, s2 :
        /\ r2 = [got |-> rx[p].got \o SubSeq(stream[p], 1, k), part |-> rx[p].part,
                 need |-> rx[p].need]
        /\ s2 = SubSeq(stream[p], k + 1, Len(stream[p]))
  OBVIOUS
<1>5. /\ rx' = [rx EXCEPT ![p] = r2] /\ stream' = [stream EXCEPT ![p] = s2]
  <2>1. rx[p] \in Receives
    BY <1>1 DEF Types
  <2>2. rx' = [rx EXCEPT ![p] =
                 [rx[p] EXCEPT !.got = rx[p].got \o SubSeq(stream[p], 1, k)]]
    BY <1>2
  <2>3. rx' = [rx EXCEPT ![p] = r2]
    BY <1>4, <2>1, <2>2, GotFacts
  <2> QED BY <1>2, <1>4, <2>3
<1>6. /\ rx'[p] = r2 /\ stream'[p] = s2
      /\ \A q \in Peers : q # p => rx'[q] = rx[q] /\ stream'[q] = stream[q]
  BY <1>1, <1>5 DEF Types
<1>7. Beginning(p) /\ (~cut[p] => Line(p))
  BY <1>3 DEF StreamInv
<1>8. Beginning(p)'
  BY <1>3, <1>7 DEF Beginning
<1>9. ASSUME ~cut'[p] PROVE Line(p)'
  <2>1. Line(p)
    BY <1>3, <1>7, <1>9
  <2>2. PICK w, t, n, r, s, e :
           /\ n = Len(received[p]) /\ r = rx[p] /\ s = stream[p]
           /\ e = End(n, r, s, t)
           /\ Placed(n, r, s, w, t) /\ Sent(p, w, t, e)
    BY <1>1, <1>7, <2>1, LineOpens
  <2>3. Reads(k, r, s, r2, s2)
    BY <1>2, <1>4, <2>2 DEF Reads
  <2>4. OnLine(n, r2, s2, w, t) /\ End(n, r2, s2, t) = End(n, r, s, t)
    BY <2>2, <2>3, ReadOnLine
  <2> QED BY <1>3, <1>6, <2>2, <2>4, LineCloses DEF Placed
<1> QED BY <1>1, <1>3, <1>6, <1>8, <1>9, ReceiverOnly

LEMMA ReadLengthStreamInv ==
  ASSUME StartInv, StreamInv, NEW p \in Peers, ReadLength(p)
  PROVE  StreamInv'
<1>1. Types
  BY DEF StartInv
<1>2. PICK len \in Lengths(rx[p].got) :
        rx' = [rx EXCEPT ![p] = [got |-> <<>>, part |-> "payload", need |-> len]]
  BY DEF ReadLength
<1>3. /\ UNCHANGED <<stream, reset, sent, received, cut, pc>>
      /\ pc[p] \notin {"failed", "ended"}
      /\ rx[p].part = "header" /\ Len(rx[p].got) = rx[p].need
  BY DEF ReadLength, session_vars, link_vars, log_vars, Receiving, HasAll
<1>4. PICK r2 : r2 = [got |-> <<>>, part |-> "payload", need |-> len]
  OBVIOUS
<1>5. /\ rx'[p] = r2 /\ \A q \in Peers : q # p => rx'[q] = rx[q]
  BY <1>1, <1>2, <1>4 DEF Types
<1>6. Beginning(p) /\ (~cut[p] => Line(p))
  BY <1>3 DEF StreamInv
<1>7. Beginning(p)'
  BY <1>3, <1>6 DEF Beginning
<1>8. ASSUME ~cut'[p] PROVE Line(p)'
  <2>1. Line(p)
    BY <1>3, <1>6, <1>8
  <2>2. PICK w, t, n, r, s, e :
           /\ n = Len(received[p]) /\ r = rx[p] /\ s = stream[p]
           /\ e = End(n, r, s, t)
           /\ Placed(n, r, s, w, t) /\ Sent(p, w, t, e)
    BY <1>1, <1>6, <2>1, LineOpens
  <2>3. r.part = "header" /\ Len(r.got) = r.need /\ len \in Lengths(r.got)
    BY <1>3, <2>2
  <2>4. OnLine(n, r2, s, w, t) /\ End(n, r2, s, t) = End(n, r, s, t)
    BY <1>4, <2>2, <2>3, LengthOnLine
  <2> QED BY <1>3, <1>5, <2>2, <2>4, LineCloses DEF Placed
<1> QED BY <1>1, <1>3, <1>5, <1>7, <1>8, ReceiverOnly

\* The frame recv returns is the next one that was sent whole: the part of a
\* frame whose send failed never comes to its end.
LEMMA ReturnStreamInv ==
  ASSUME StartInv, StreamInv, NEW p \in Peers, Return(p)
  PROVE  StreamInv'
<1>1. Types
  BY DEF StartInv
<1>2. PICK m : m = Decoded(rx[p].got)
  OBVIOUS
<1>3. /\ UNCHANGED <<stream, reset, sent, cut>>
      /\ pc[p] \notin {"failed", "ended"}
      /\ rx[p].part = "payload" /\ Len(rx[p].got) = rx[p].need
      /\ rx' = [rx EXCEPT ![p] = Idle]
      /\ received' = [received EXCEPT ![p] = IF cut[p] THEN @ ELSE Append(@, m)]
  BY <1>2 DEF Return, link_vars, Receiving, HasAll
<1>4. \A q \in Peers : q # p => pc'[q] = pc[q]
  BY <1>1 DEF Return, Goto, session_vars, Types
<1>5. /\ rx'[p] = Idle
      /\ \A q \in Peers : q # p => rx'[q] = rx[q] /\ received'[q] = received[q]
  BY <1>1, <1>3 DEF Types
<1>6. Beginning(p) /\ (~cut[p] => Line(p))
  BY <1>3 DEF StreamInv
<1>7. received[p] \in Seq(Messages \union {Junk}) /\ sent[Other(p)] \in Seq(Messages)
  BY <1>1, PeersFacts DEF Types
<1>8. CASE cut[p]
  <2>1. received'[p] = received[p]
    BY <1>1, <1>3, <1>8 DEF Types
  <2>2. Beginning(p)'
    BY <1>3, <1>6, <2>1 DEF Beginning
  <2> QED BY <1>1, <1>3, <1>4, <1>5, <1>8, <2>2, ReceiverOnly
<1>9. CASE ~cut[p]
  <2>1. received'[p] = Append(received[p], m)
    BY <1>1, <1>3, <1>9 DEF Types
  <2>2. PICK w, t, n, r, s, e :
           /\ n = Len(received[p]) /\ r = rx[p] /\ s = stream[p]
           /\ e = End(n, r, s, t)
           /\ Placed(n, r, s, w, t) /\ Sent(p, w, t, e)
    BY <1>1, <1>6, <1>9, LineOpens
  <2>3. r.part = "payload" /\ Len(r.got) = r.need /\ m = Decoded(r.got)
    BY <1>2, <1>3, <2>2
  <2>4. /\ n < Len(w) /\ m = w[n + 1]
        /\ OnLine(n + 1, Idle, s, w, t) /\ e = End(n + 1, Idle, s, t)
    BY <2>2, <2>3, ReturnOnLine
  <2>5. /\ Len(received'[p]) = n + 1 /\ received'[p][n + 1] = m
        /\ \A i \in 1..n : received'[p][i] = received[p][i]
        /\ DOMAIN received'[p] = 1..(n + 1)
    <3>1. m \in Messages \union {Junk}
      BY <2>2, <2>4 DEF Placed
    <3>2. n \in Nat /\ n = Len(received[p])
      BY <1>7, <2>2
    <3> QED BY <1>7, <2>1, <3>1, <3>2, Appended
  <2>6. n + 1 <= Len(sent[Other(p)]) /\ m = sent[Other(p)][n + 1]
    <3>1. CASE w = sent[Other(p)]
      BY <2>2, <2>4, <3>1
    <3>2. CASE e < t[Len(w)] /\ \E x \in Messages : w = Append(sent[Other(p)], x)
      <4>1. PICK x \in Messages : w = Append(sent[Other(p)], x)
        BY <3>2
      <4>2. PICK N \in Nat : N = Len(sent[Other(p)])
        BY <1>7
      <4>3. /\ Len(w) = N + 1 /\ \A i \in 1..N : w[i] = sent[Other(p)][i]
        BY <1>7, <4>1, <4>2, Appended
      <4>4. n + 1 # N + 1
        <5>1. t[n + 1] \in Nat
          BY <2>2, <2>4 DEF Placed
        <5>2. Len(s) \in Nat /\ Read(Idle) = 0
          BY <2>2 DEF Idle, Read, Placed
        <5>3. t[n + 1] <= e
          BY <2>4, <5>1, <5>2 DEF End
        <5>4. ~(t[n + 1] < t[n + 1]) /\ (e < t[n + 1] => ~(t[n + 1] <= e))
          <6>1. e \in Nat
            BY <2>4, <5>1, <5>2 DEF End
          <6> QED BY <5>1, <6>1
        <5> QED BY <3>2, <4>3, <5>3, <5>4
      <4>5. n \in Nat /\ n + 1 <= N
        BY <2>2, <2>4, <4>2, <4>3, <4>4
      <4> QED BY <2>4, <4>2, <4>3, <4>5
    <3> QED BY <2>2, <3>1, <3>2 DEF Sent
  <2>7. Beginning(p)'
    <3>1. \A i \in 1..n : received[p][i] = sent[Other(p)][i]
      BY <1>6, <1>7, <2>2 DEF Beginning
    <3>2. n \in Nat
      BY <1>7, <2>2
    <3>3. \A i \in 1..(n + 1) : received'[p][i] = sent'[Other(p)][i]
      BY <1>3, <2>5, <2>6, <3>1, <3>2, LastOrBefore
    <3> QED BY <1>3, <2>5, <2>6, <3>3 DEF Beginning
  <2>8. Line(p)'
    <3>1. Other(p) \in Peers /\ Other(p) # p
      BY PeersFacts
    <3> QED BY <1>3, <1>4, <1>5, <2>2, <2>4, <2>5, <3>1, LineCloses DEF Placed
  <2> QED BY <1>1, <1>3, <1>4, <1>5, <2>7, <2>8, ReceiverOnly
<1> QED BY <1>8, <1>9

\* A message of p goes on its way to the other side, whose line becomes longer:
\* by all of the frame, or by a part of it, and then p is done.
LEMMA SendStreamInv ==
  ASSUME StartInv, StreamInv, NEW p \in Peers, NEW m \in Messages,
         pc[p] \notin {"failed", "ended"},
         UNCHANGED <<rx, cut, received>>,
         \A q \in Peers : q # p => pc'[q] = pc[q],
         \/ send(p, m)
         \/ SendFails(p, m) /\ pc'[p] \in {"failed", "ended"}
  PROVE  StreamInv'
<1> DEFINE o == Other(p)
<1>1. Types /\ o \in Peers /\ o # p /\ Other(o) = p
  BY PeersFacts DEF StartInv
<1>2. PICK k : /\ k \in 0..FrameLen(m)
               /\ stream' = [stream EXCEPT ![o] = @ \o SubSeq(Frame(m), 1, k)]
               /\ \/ /\ k = FrameLen(m)
                     /\ sent' = [sent EXCEPT ![p] = Append(@, m)] /\ reset' = reset
                  \/ /\ k < FrameLen(m) /\ sent' = sent
                     /\ reset' /\ pc'[p] \in {"failed", "ended"}
  <2>1. Frame(m) \in Seq(Bytes) /\ Len(Frame(m)) = FrameLen(m) /\ FrameLen(m) \in Nat
    BY FrameFacts, FrameLens
  <2>2. CASE send(p, m)
    <3>1. SubSeq(Frame(m), 1, FrameLen(m)) = Frame(m)
      BY <2>1
    <3>2. stream' = [stream EXCEPT ![o] = @ \o SubSeq(Frame(m), 1, FrameLen(m))]
      BY <2>2, <3>1 DEF send
    <3>3. FrameLen(m) \in 0..FrameLen(m)
      BY <2>1
    <3> QED BY <2>2, <3>2, <3>3 DEF send
  <2>3. CASE SendFails(p, m) /\ pc'[p] \in {"failed", "ended"}
    <3>1. PICK k \in 0..(Len(Frame(m)) - 1) :
            stream' = [stream EXCEPT ![o] = @ \o SubSeq(Frame(m), 1, k)]
      BY <2>3 DEF SendFails
    <3>2. k \in 0..FrameLen(m) /\ k < FrameLen(m)
      BY <2>1
    <3> QED BY <2>3, <3>1, <3>2 DEF SendFails
  <2> QED BY <2>2, <2>3
<1>3. PICK b : b = SubSeq(Frame(m), 1, k)
  OBVIOUS
<1>4. /\ stream'[o] = stream[o] \o b
      /\ \A q \in Peers : q # o => stream'[q] = stream[q]
  BY <1>1, <1>2, <1>3 DEF Types
<1>5. /\ sent[p] \in Seq(Messages) /\ sent[o] \in Seq(Messages)
      /\ sent'[o] = sent[o] /\ (reset => reset')
      /\ sent'[p] = sent[p] \/ sent'[p] = Append(sent[p], m)
  BY <1>1, <1>2 DEF Types
<1>6. ASSUME NEW q \in Peers, q # o
      PROVE  /\ Beginning(q)'
             /\ ~cut'[q] /\ pc'[q] \notin {"failed", "ended"} => Line(q)'
  <2>1. q = p
    BY <1>1, <1>6, PeersFacts
  <2>2. Beginning(p) /\ (~cut[p] => Line(p))
    BY DEF StreamInv
  <2>3. Beginning(p)'
    BY <1>5, <2>2 DEF Beginning
  <2>4. ASSUME ~cut'[p] PROVE Line(p)'
    BY <1>1, <1>4, <1>5, <2>2, <2>4, LineKept
  <2> QED BY <2>1, <2>3, <2>4
<1>7. Beginning(o) /\ (~cut[o] /\ pc[o] \notin {"failed", "ended"} => Line(o))
  BY <1>1 DEF StreamInv
<1>8. Beginning(o)'
  <2>1. received[o] \in Seq(Messages \union {Junk})
    BY <1>1 DEF Types
  <2>2. PICK n \in Nat : n = Len(received[o]) /\ DOMAIN received[o] = 1..n
    BY <2>1
  <2>3. n <= Len(sent[p]) /\ \A i \in 1..n : received[o][i] = sent[p][i]
    BY <1>1, <1>7, <2>2 DEF Beginning
  <2>4. n <= Len(sent'[p]) /\ \A i \in 1..n : sent'[p][i] = sent[p][i]
    BY <1>5, <2>3
  <2> QED BY <1>1, <2>2, <2>3, <2>4 DEF Beginning
<1>9. ASSUME ~cut'[o], pc'[o] \notin {"failed", "ended"} PROVE Line(o)'
  <2>1. Line(o)
    BY <1>1, <1>7, <1>9
  <2>2. PICK w, t, n, r, s, e :
           /\ n = Len(received[o]) /\ r = rx[o] /\ s = stream[o]
           /\ e = End(n, r, s, t)
           /\ Placed(n, r, s, w, t) /\ Sent(o, w, t, e)
    BY <1>1, <1>7, <2>1, LineOpens
  <2>3. w = sent[p] /\ e = t[Len(w)]
    BY <1>1, <2>2 DEF Sent
  <2>4. PICK v, s2 : v = Append(w, m) /\ s2 = s \o b
    OBVIOUS
  <2>5. PICK u : /\ u \in [0..Len(v) -> Nat] /\ u[Len(w)] \in Nat
                 /\ Ends(v, u) /\ OnLine(n, r, s2, v, u)
                 /\ u[Len(v)] = u[Len(w)] + FrameLen(m)
                 /\ End(n, r, s2, u) = u[Len(w)] + k
    <3>1. End(n, r, s, t) = t[Len(w)]
      BY <2>2, <2>3
    <3>2. Adds(k, m, s, s2)
      BY <1>2, <1>3, <2>4 DEF Adds
    <3>3. PICK u : Longer(n, r, s2, w, m, k, u)
      BY <2>2, <3>1, <3>2, SendOnLine
    <3> QED BY <2>4, <3>3, Zenon DEF Longer
  <2>6. v \in Seq(Messages)
    BY <2>2, <2>4 DEF Placed
  <2>7. n = Len(received'[o]) /\ r = rx'[o] /\ s2 = stream'[o]
    BY <1>4, <2>2, <2>4
  <2>8. PICK e2 : e2 = End(n, r, s2, u)
    OBVIOUS
  <2>9. Sent(o, v, u, e2)'
    <3>1. CASE k = FrameLen(m) /\ sent' = [sent EXCEPT ![p] = Append(@, m)]
      <4>1. v = sent'[p]
        BY <1>1, <2>3, <2>4, <3>1 DEF Types
      <4>2. e2 = u[Len(v)]
        BY <2>5, <2>8, <3>1
      <4> QED BY <1>1, <4>1, <4>2 DEF Sent
    <3>2. CASE /\ k < FrameLen(m) /\ sent' = sent
               /\ reset' /\ pc'[p] \in {"failed", "ended"}
      <4>1. v = Append(sent'[p], m) /\ sent'[p] = w
        BY <2>3, <2>4, <3>2
      <4>2. u[Len(w)] <= e2 /\ e2 < u[Len(v)]
        <5>1. PICK T : T = u[Len(w)]
          OBVIOUS
        <5>2. T \in Nat
          BY <2>5, <5>1
        <5>3. PICK F \in Nat : F = FrameLen(m)
          BY FrameLens, Zenon
        <5>4. k \in 0..F /\ k < F
          BY <1>2, <3>2, <5>3
        <5>5. T <= T + k /\ T + k < T + F
          BY <5>2, <5>3, <5>4
        <5> QED BY <2>5, <2>8, <5>1, <5>3, <5>5
      <4> QED BY <1>1, <3>2, <4>1, <4>2 DEF Sent
    <3> QED BY <1>2, <3>1, <3>2
  <2> QED BY <2>5, <2>6, <2>7, <2>8, <2>9 DEF Line
<1> QED BY <1>6, <1>8, <1>9 DEF StreamInv

LEMMA SendsStreamInv ==
  ASSUME StartInv, StreamInv, NEW p \in Peers,
         SendHello(p) \/ (p = "host" /\ SendState) \/ SendInput(p)
  PROVE  StreamInv'
<1>1. Types
  BY DEF StartInv
<1>2. /\ pc[p] \notin {"failed", "ended"} /\ UNCHANGED <<rx, cut, received>>
  BY DEF SendHello, SendState, SendInput
<1>3. \A q \in Peers : q # p => pc'[q] = pc[q]
  BY <1>1 DEF SendHello, SendState, SendInput, Goto, Types
<1>4. Hello(p) \in Messages /\ StateSync \in Messages /\ Input(p) \in Messages
  BY <1>1, MessageFacts
<1>5. ASSUME NEW m \in Messages,
             send(p, m) \/ (SendFails(p, m) /\ pc'[p] \in {"failed", "ended"})
      PROVE  StreamInv'
  BY <1>2, <1>3, <1>5, SendStreamInv
<1>6. CASE SendHello(p)
  <2>1. \/ send(p, Hello(p))
        \/ SendFails(p, Hello(p)) /\ pc'[p] \in {"failed", "ended"}
    BY <1>1, <1>6 DEF SendHello, Goto, Types
  <2> QED BY <1>4, <1>5, <2>1
<1>7. CASE SendInput(p)
  <2>1. \/ send(p, Input(p))
        \/ SendFails(p, Input(p)) /\ pc'[p] \in {"failed", "ended"}
    BY <1>1, <1>7 DEF SendInput, Goto, Types
  <2> QED BY <1>4, <1>5, <2>1
<1>8. CASE p = "host" /\ SendState
  <2>1. \/ send(p, StateSync)
        \/ SendFails(p, StateSync) /\ pc'[p] \in {"failed", "ended"}
        \/ UNCHANGED <<stream, reset, sent>>
    BY <1>1, <1>8 DEF SendState, Goto, Types
  <2>2. CASE UNCHANGED <<stream, reset, sent>>
    <3>1. \A q \in Peers :
            pc[q] \in {"failed", "ended"} => pc'[q] \in {"failed", "ended"}
      BY <1>2, <1>3
    <3> QED BY <1>1, <1>2, <2>2, <3>1, StreamKept
  <2> QED BY <1>4, <1>5, <2>1, <2>2
<1> QED BY <1>6, <1>7, <1>8

LEMMA NextStreamInv == StartInv /\ StreamInv /\ [Next]_vars => StreamInv'
<1> SUFFICES ASSUME StartInv, StreamInv, [Next]_vars PROVE StreamInv'
  OBVIOUS
<1>1. "host" \in Peers
  BY DEF Peers
<1>2. CASE connect \/ accept \/ Break \/ Ended \/ UNCHANGED vars
  BY <1>1, <1>2, QuietStreamInv DEF Ended
<1>3. CASE SendState
  BY <1>1, <1>3, SendsStreamInv
<1>4. ASSUME NEW p \in Peers, SendHello(p) \/ SendInput(p) PROVE StreamInv'
  BY <1>4, SendsStreamInv
<1>5. ASSUME NEW p \in Peers,
             SetUpActions(p) \/ close(p) \/ Quit(p) \/ Timeout(p) \/ RecvFails(p)
      PROVE  StreamInv'
  BY <1>5, QuietStreamInv
<1>6. ASSUME NEW p \in Peers, ReadPiece(p) \/ ReadLength(p) \/ Return(p)
      PROVE  StreamInv'
  BY <1>6, ReadPieceStreamInv, ReadLengthStreamInv, ReturnStreamInv
<1> QED BY <1>2, <1>3, <1>4, <1>5, <1>6 DEF Next, SessionStep

\* Every reachable state satisfies the invariant of the stream: as long as no
\* receive of a peer gave up within a frame, each byte on its way to it is the
\* one that comes next in the frames that were sent.
THEOREM StreamInvariant == Spec => []StreamInv
<1>1. Init => StreamInv
  BY InitStreamInv
<1>2. StartInv /\ StreamInv /\ [Next]_vars => StreamInv'
  BY NextStreamInv
<1> QED BY <1>1, <1>2, StartInvariant, PTL DEF Spec

\* Where a peer is after a receive that gave up within a frame.
CutShort ==
  \A p \in Peers :
    cut[p] => pc[p] \in {"failed", "ended"} \/ (pc[p] = "play" /\ ~rollback)

\* From there it goes nowhere else, and only a timeout brings a peer there.
LEMMA NextCutShort ==
  ASSUME Types, CutShort, [Next]_vars PROVE CutShort'
<1> SUFFICES ASSUME NEW q \in Peers, cut'[q]
             PROVE  \/ pc'[q] \in {"failed", "ended"}
                    \/ pc'[q] = "play" /\ ~rollback'
  BY DEF CutShort
<1>0. /\ pc \in [Peers -> {"wsa", "socket", "bind", "listen", "address",
                           "accept", "connect", "hello", "hello_wait", "state",
                           "state_wait", "play", "failed", "ended"}]
      /\ cut \in [Peers -> BOOLEAN] /\ "host" \in Peers /\ "join" \in Peers
  BY DEF Types, Steps, Peers
<1>1. rollback' = rollback
  BY DEF Next, SetUpActions, SessionStep, connect, accept, SendState, Break,
         Ended, vars, start_vars, wsa_startup, SetUpStep, SetUpFails, SendHello,
         ReadPiece, ReadLength, Return, RecvFails, close, SendInput, Timeout,
         Quit
<1>2. CASE connect \/ accept \/ SendState \/ Break \/ Ended \/ UNCHANGED vars
  BY <1>0, <1>1, <1>2
  DEF CutShort, connect, accept, SendState, Break, Ended, vars, session_vars,
      log_vars, Goto
<1>3. ASSUME NEW p \in Peers,
             SetUpActions(p) \/ SendHello(p) \/ SendInput(p) \/ Quit(p)
               \/ RecvFails(p) \/ close(p) \/ ReadPiece(p) \/ ReadLength(p)
               \/ Return(p)
      PROVE  \/ pc'[q] \in {"failed", "ended"}
             \/ pc'[q] = "play" /\ ~rollback'
  <2>1. cut' = cut
    BY <1>3
    DEF SetUpActions, wsa_startup, SetUpStep, SetUpFails, SendHello, SendInput,
        Quit, RecvFails, close, ReadPiece, ReadLength, Return, log_vars
  <2>2. pc[q] \in {"failed", "ended"} \/ (pc[q] = "play" /\ ~rollback)
    BY <2>1 DEF CutShort
  <2>3. CASE q # p
    BY <1>0, <1>1, <1>3, <2>2, <2>3
    DEF SetUpActions, wsa_startup, SetUpStep, SetUpFails, SendHello, SendInput,
        Quit, RecvFails, close, ReadPiece, ReadLength, Return, session_vars,
        Goto
  <2>4. CASE q = p
    BY <1>0, <1>1, <1>3, <2>2, <2>4
    DEF SetUpActions, wsa_startup, SetUpStep, SetUpFails, SendHello, SendInput,
        Quit, RecvFails, close, ReadPiece, ReadLength, Return, Receiving,
        session_vars, Goto
  <2> QED BY <2>3, <2>4
<1>4. ASSUME NEW p \in Peers, Timeout(p)
      PROVE  \/ pc'[q] \in {"failed", "ended"}
             \/ pc'[q] = "play" /\ ~rollback'
  <2>1. CASE q # p
    BY <1>0, <1>1, <1>4, <2>1 DEF CutShort, Timeout, Goto
  <2>2. CASE q = p
    BY <1>0, <1>1, <1>4, <2>2 DEF Timeout, Receiving, Goto
  <2> QED BY <2>1, <2>2
<1> QED BY <1>2, <1>3, <1>4 DEF Next, SessionStep

\* What TcpTransport::recv returned before any receive gave up within a frame,
\* and even up to the one that did, are the messages the other side sent, whole,
\* each once and in order, whatever pieces recv_exact gets, wherever the
\* connection breaks and however often a receive times out between two frames.
\* A peer whose receive did give up within a frame reads on only in a running
\* lockstep session.
THEOREM MessagesIntact == Spec => []FramesIntact
<1>1. StreamInv /\ CutShort => FramesIntact
  BY DEF StreamInv, Beginning, CutShort, FramesIntact
<1>2. Init => CutShort
  BY DEF Init, CutShort
<1>3. StartInv /\ CutShort /\ [Next]_vars => CutShort'
  BY NextCutShort DEF StartInv
<1> QED BY StartInvariant, StreamInvariant, <1>1, <1>2, <1>3, PTL DEF Spec
=============================================================================
