----------------------------- MODULE TcpSession -----------------------------
(***************************************************************************)
(* How a netplay session comes up over TCP: a host and a joining peer       *)
(* connect (src/src/net/TcpTransport.cpp), exchange Hellos, the host sends  *)
(* its state (start_host and start_join of src/src/net/NetSession.cpp and   *)
(* RollbackSession.cpp), and then both exchange inputs.                     *)
(*                                                                          *)
(* The connection is a stream of bytes.  A message is framed by a header    *)
(* that holds its length; recv reads header and payload in as many pieces   *)
(* as the network brings, and gives up when a piece keeps it waiting too    *)
(* long.  A byte is modelled by the message it belongs to and its place in  *)
(* it, a header by two bytes for four.  Both peers may run in one process,  *)
(* as the tests run them, and share the count of Winsock references.        *)
(***************************************************************************)
EXTENDS Integers, Sequences, FiniteSets

CONSTANTS
  Delays,             \* what a host may ask for: input delay, max_prediction
  DefaultPrediction,  \* what a rollback session takes for 0
  MaxInputs           \* bound: inputs each peer sends

ASSUME DelaysAssumption == Delays \subseteq Nat
ASSUME PredictionAssumption == DefaultPrediction \in Nat \ {0}
ASSUME InputsAssumption == MaxInputs \in Nat

Peers == {"host", "join"}
Other(p) == IF p = "host" THEN "join" ELSE "host"

VARIABLES
  \* what the peers were started with
  rollback,     \* a RollbackSession, or a NetSession?
  asked,        \* the host's input_delay or max_prediction
  build,        \* peer -> its ABI version, content hash and core id
  saves,        \* does the host's core have a state to save?
  \* the sessions
  pc,           \* peer -> the step it is at
  delay,        \* peer -> delay_ or max_prediction_
  game,         \* peer -> whose state its runtime holds
  \* the transports
  g_wsa_refs,
  connected,    \* the OS has completed the connection
  reset,        \* the connection broke
  stream,       \* peer -> bytes on their way to it
  rx,           \* peer -> a receive under way: bytes of header and payload
  cut,          \* peer -> has a receive given up within a frame?
  sent,         \* peer -> messages handed whole to send
  received      \* peer -> messages recv returned, up to the first cut

start_vars == <<rollback, asked, build, saves>>
session_vars == <<pc, delay, game>>
link_vars == <<connected, reset, stream>>
log_vars == <<cut, sent, received>>
vars == <<start_vars, session_vars, g_wsa_refs, link_vars, rx, log_vars>>

-----------------------------------------------------------------------------
\* Messages and their bytes.

PayloadLen(m) == IF m.type = "Input" THEN 1 ELSE 2
HeaderLen == 2

Byte(m, kind, i) == [msg |-> m, kind |-> kind, at |-> i]
Header(m) == [i \in 1..HeaderLen |-> Byte(m, "header", i)]
Payload(m) == [i \in 1..PayloadLen(m) |-> Byte(m, "payload", i)]
Frame(m) == Header(m) \o Payload(m)

\* encode_hello, encode_state_sync and encode_input pack; what they pack is
\* decoded only from exactly those bytes.
Hello(p) == [type |-> "Hello", delay |-> IF p = "host" THEN asked ELSE 0,
             build |-> build[p]]
StateSync == [type |-> "StateSync", blob |-> IF saves THEN "host" ELSE "empty"]
Input(p) == [type |-> "Input",
             frame |-> Cardinality({i \in DOMAIN sent[p] :
                                      sent[p][i].type = "Input"})]

\* The length a header tells; bytes that are no header may tell any.
Lengths(bytes) ==
  IF bytes = Header(bytes[1].msg) THEN {PayloadLen(bytes[1].msg)} ELSE 0..2
Junk == [type |-> "Junk"]
Decoded(bytes) ==
  IF bytes # <<>> /\ bytes = Payload(bytes[1].msg) THEN bytes[1].msg ELSE Junk

\* A receive that has read nothing; need is what the part under way takes.
Idle == [got |-> <<>>, part |-> "header", need |-> HeaderLen]

-----------------------------------------------------------------------------
Init ==
  /\ rollback \in BOOLEAN /\ asked \in Delays /\ saves \in BOOLEAN
  /\ build \in {[p \in Peers |-> IF p = "host" THEN <<1, 1, 1>> ELSE b] :
                  b \in (1..2) \X (1..2) \X (1..2)}
  /\ pc = [p \in Peers |-> "wsa"]
  /\ delay = [p \in Peers |-> 0]
  /\ game = [p \in Peers |-> p]
  /\ g_wsa_refs = 0
  /\ connected = FALSE /\ reset = FALSE
  /\ stream = [p \in Peers |-> <<>>]
  /\ rx = [p \in Peers |-> Idle]
  /\ cut = [p \in Peers |-> FALSE]
  /\ sent = [p \in Peers |-> <<>>] /\ received = [p \in Peers |-> <<>>]

Goto(p, step) == pc' = [pc EXCEPT ![p] = step]

\* TcpTransport::host and join take a reference and go through these steps.
SetUp(p) == IF p = "host" THEN <<"wsa", "socket", "bind", "listen", "accept">>
                        ELSE <<"wsa", "socket", "address", "connect">>
After(p) == LET i == CHOOSE j \in DOMAIN SetUp(p) : SetUp(p)[j] = pc[p]
            IN  SetUp(p)[i + 1]

wsa_startup(p) ==
  /\ pc[p] = "wsa"
  /\ \/ /\ g_wsa_refs' = g_wsa_refs + 1
        /\ Goto(p, After(p))
     \/ /\ g_wsa_refs = 0                       \* WSAStartup fails
        /\ Goto(p, "ended")
        /\ UNCHANGED g_wsa_refs
  /\ UNCHANGED <<start_vars, delay, game, link_vars, rx, log_vars>>

SetUpStep(p) ==
  /\ pc[p] \in {"socket", "bind", "listen", "address"}
  /\ Goto(p, After(p))
  /\ UNCHANGED <<start_vars, delay, game, g_wsa_refs, link_vars, rx, log_vars>>

\* Any of them fails, or nobody connects in time, or nobody listens: the socket
\* and the reference are given back.
\* Faulty variant: bind's error path forgets the reference.
KeepReference(p) ==
  /\ pc[p] \in {"socket", "bind", "listen", "address", "accept", "connect"}
  /\ Goto(p, "ended")
  /\ g_wsa_refs' = IF pc[p] = "bind" THEN g_wsa_refs ELSE g_wsa_refs - 1
  /\ reset' = (reset \/ connected)
  /\ UNCHANGED <<start_vars, delay, game, connected, stream, rx, log_vars>>
SetUpFails(p) ==
  /\ pc[p] \in {"socket", "bind", "listen", "address", "accept", "connect"}
  /\ Goto(p, "ended")
  /\ g_wsa_refs' = g_wsa_refs - 1
  /\ reset' = (reset \/ connected)
  /\ UNCHANGED <<start_vars, delay, game, connected, stream, rx, log_vars>>

\* The OS completes a connection that the host has yet to accept.
connect ==
  /\ pc["join"] = "connect" /\ pc["host"] = "accept"
  /\ connected' = TRUE
  /\ Goto("join", "hello")
  /\ UNCHANGED <<start_vars, delay, game, g_wsa_refs, reset, stream, rx,
                 log_vars>>

accept ==
  /\ pc["host"] = "accept"
  /\ connected
  /\ Goto("host", "hello")
  /\ UNCHANGED <<start_vars, delay, game, g_wsa_refs, link_vars, rx, log_vars>>

-----------------------------------------------------------------------------
\* TcpTransport::send: header, then payload, until the connection breaks.
send(p, m) ==
  /\ connected /\ ~reset
  /\ stream' = [stream EXCEPT ![Other(p)] = @ \o Frame(m)]
  /\ sent' = [sent EXCEPT ![p] = Append(@, m)]
  /\ UNCHANGED reset

\* It breaks after some of the bytes, or was broken before.
SendFails(p, m) ==
  /\ \E k \in 0..(Len(Frame(m)) - 1) :
       stream' = [stream EXCEPT ![Other(p)] = @ \o SubSeq(Frame(m), 1, k)]
  /\ reset' = TRUE
  /\ UNCHANGED sent

\* handshake's first half.
SendHello(p) ==
  /\ pc[p] = "hello"
  /\ \/ send(p, Hello(p)) /\ Goto(p, "hello_wait")
     \/ SendFails(p, Hello(p)) /\ Goto(p, "failed")
  /\ UNCHANGED <<start_vars, delay, game, g_wsa_refs, connected, rx, cut,
                 received>>

\* start_host saves the state and sends it; saving may fail.
SendState ==
  /\ pc["host"] = "state"
  /\ \/ send("host", StateSync) /\ Goto("host", "play")
     \/ SendFails("host", StateSync) /\ Goto("host", "failed")
     \/ saves /\ Goto("host", "failed") /\ UNCHANGED <<stream, reset, sent>>
  /\ UNCHANGED <<start_vars, delay, game, g_wsa_refs, connected, rx, cut,
                 received>>

\* An input of the running session.
SendInput(p) ==
  /\ pc[p] = "play"
  /\ Input(p).frame < MaxInputs
  /\ \/ send(p, Input(p)) /\ UNCHANGED pc
     \/ SendFails(p, Input(p)) /\ Goto(p, "failed")
  /\ UNCHANGED <<start_vars, delay, game, g_wsa_refs, connected, rx, cut,
                 received>>

-----------------------------------------------------------------------------
\* TcpTransport::recv.

Receiving(p) == pc[p] \in {"hello_wait", "state_wait", "play"}

\* recv_exact goes on until it has all it needs, piece by piece.
\* Faulty variant: the first piece is taken for the whole part.
FirstPiece(p) == rx[p].got # <<>>
HasAll(p) == Len(rx[p].got) = rx[p].need

ReadPiece(p) ==
  /\ Receiving(p)
  /\ ~HasAll(p)
  /\ \E k \in 1..(rx[p].need - Len(rx[p].got)) :
       /\ k <= Len(stream[p])
       /\ rx' = [rx EXCEPT ![p].got = @ \o SubSeq(stream[p], 1, k)]
       /\ stream' = [stream EXCEPT ![p] = SubSeq(@, k + 1, Len(@))]
  /\ UNCHANGED <<start_vars, session_vars, g_wsa_refs, connected, reset,
                 log_vars>>

\* The header is there: its length is what the payload needs.
ReadLength(p) ==
  /\ Receiving(p)
  /\ rx[p].part = "header" /\ HasAll(p)
  /\ \E len \in Lengths(rx[p].got) :
       rx' = [rx EXCEPT ![p] = [got |-> <<>>, part |-> "payload", need |-> len]]
  /\ UNCHANGED <<start_vars, session_vars, g_wsa_refs, link_vars, log_vars>>

\* The checks of handshake and what it adopts: the host's wish is authoritative.
\* Faulty variant: each peer keeps its own.
OwnDelay(p, m) == IF p = "host" THEN asked ELSE 0
AdoptedDelay(p, m) == IF p = "host" THEN asked ELSE m.delay
Settled(d) == IF rollback /\ d = 0 THEN DefaultPrediction ELSE d

HelloAccepted(p, m) == m.type = "Hello" /\ m.build = build[p]

\* recv returns a message to the step that waits for it.
Return(p) ==
  LET m == Decoded(rx[p].got)
  IN  /\ Receiving(p)
      /\ rx[p].part = "payload" /\ HasAll(p)
      /\ rx' = [rx EXCEPT ![p] = Idle]
      /\ received' = [received EXCEPT ![p] = IF cut[p] THEN @ ELSE Append(@, m)]
      /\ \/ /\ pc[p] = "hello_wait" /\ HelloAccepted(p, m)
            /\ delay' = [delay EXCEPT ![p] = Settled(AdoptedDelay(p, m))]
            /\ Goto(p, IF p = "host" THEN "state" ELSE "state_wait")
            /\ UNCHANGED game
         \/ /\ pc[p] = "hello_wait" /\ ~HelloAccepted(p, m)
            /\ Goto(p, "failed")
            /\ UNCHANGED <<delay, game>>
         \/ /\ pc[p] = "state_wait" /\ m.type = "StateSync"
            /\ game' = [game EXCEPT ![p] =
                           IF m.blob = "empty" THEN @ ELSE m.blob]
            /\ Goto(p, "play")
            /\ UNCHANGED delay
         \/ /\ pc[p] = "state_wait"             \* bad state sync, or not loaded
            /\ m.type = "StateSync" => m.blob # "empty"
            /\ Goto(p, "failed")
            /\ UNCHANGED <<delay, game>>
         \/ /\ pc[p] = "play"
            /\ UNCHANGED session_vars
      /\ UNCHANGED <<start_vars, g_wsa_refs, link_vars, cut, sent>>

\* The wait for a piece is too long.  What was read so far is forgotten; a
\* start that waited fails, a running lockstep session tries again.  A running
\* rollback session polls first, so there is a byte before it waits, and takes
\* the timeout for a lost connection.
Timeout(p) ==
  /\ Receiving(p)
  /\ ~HasAll(p)
  /\ pc[p] = "play" => ~rollback \/ rx[p] # Idle
  /\ cut' = [cut EXCEPT ![p] = @ \/ rx[p] # Idle]
  /\ rx' = [rx EXCEPT ![p] = Idle]
  /\ IF pc[p] = "play" /\ ~rollback THEN UNCHANGED pc ELSE Goto(p, "failed")
  /\ UNCHANGED <<start_vars, delay, game, g_wsa_refs, link_vars, sent,
                 received>>

\* The other side closed and all it sent has been read, or the connection
\* broke: the start fails, or the session is disconnected.
\* Faulty variant: the end of the stream is taken for a timeout.
EndIsTimeout(p) ==
  /\ Receiving(p)
  /\ ~HasAll(p)
  /\ reset
  /\ rx' = [rx EXCEPT ![p] = Idle]
  /\ Goto(p, "failed")
  /\ UNCHANGED <<start_vars, delay, game, g_wsa_refs, link_vars, log_vars>>
RecvFails(p) ==
  /\ Receiving(p)
  /\ ~HasAll(p)
  /\ reset \/ (pc[Other(p)] = "ended" /\ stream[p] = <<>>)
  /\ rx' = [rx EXCEPT ![p] = Idle]
  /\ Goto(p, "failed")
  /\ UNCHANGED <<start_vars, delay, game, g_wsa_refs, link_vars, log_vars>>

-----------------------------------------------------------------------------
\* The caller gives up a failed session and destroys the transport.
close(p) ==
  /\ pc[p] = "failed"
  /\ g_wsa_refs' = g_wsa_refs - 1
  /\ Goto(p, "ended")
  /\ UNCHANGED <<start_vars, delay, game, link_vars, rx, log_vars>>

\* The player quits a running session.
Quit(p) ==
  /\ pc[p] = "play"
  /\ g_wsa_refs' = g_wsa_refs - 1
  /\ Goto(p, "ended")
  /\ UNCHANGED <<start_vars, delay, game, link_vars, rx, log_vars>>

Break ==
  /\ connected /\ ~reset
  /\ reset' = TRUE
  /\ UNCHANGED <<start_vars, session_vars, g_wsa_refs, connected, stream, rx,
                 log_vars>>

Ended ==
  /\ \A p \in Peers : pc[p] = "ended"
  /\ UNCHANGED vars

SetUpActions(p) == wsa_startup(p) \/ SetUpStep(p) \/ SetUpFails(p)
SessionStep(p) ==
  \/ SendHello(p)
  \/ ReadPiece(p) \/ ReadLength(p) \/ Return(p) \/ RecvFails(p) \/ close(p)

Next ==
  \/ connect \/ accept \/ SendState \/ Break \/ Ended
  \/ \E p \in Peers :
       \/ SetUpActions(p) \/ SessionStep(p)
       \/ SendInput(p) \/ Timeout(p) \/ Quit(p)

Spec == Init /\ [][Next]_vars

\* A peer that is inside a start, or whose loop ticks, goes on: its socket
\* calls return.  Bytes that were sent arrive or the connection breaks.
FairSpec ==
  /\ Spec
  /\ WF_vars(connect) /\ WF_vars(accept) /\ WF_vars(SendState)
  /\ \A p \in Peers : WF_vars(SetUpActions(p)) /\ WF_vars(SessionStep(p))

-----------------------------------------------------------------------------
\* The type of the connection's and the sessions' state.
TypeOK ==
  /\ pc \in [Peers -> {"wsa", "socket", "bind", "listen", "address", "accept",
                       "connect", "hello", "hello_wait", "state", "state_wait",
                       "play", "failed", "ended"}]
  /\ g_wsa_refs \in Nat
  /\ cut \in [Peers -> BOOLEAN]
  /\ connected \in BOOLEAN /\ reset \in BOOLEAN
  /\ delay \in [Peers -> Nat] /\ game \in [Peers -> Peers]

\* On every path through host, join and the handshake, however the two
\* interleave, the process holds one Winsock reference for each transport that
\* is being set up or is open, none for one that failed, and so never cleans
\* Winsock up under an open socket.
WsaBalanced ==
  g_wsa_refs = Cardinality({p \in Peers : pc[p] \notin {"wsa", "ended"}})

\* Two peers that both play agree on what the two sessions must agree on: the
\* ABI, the content and the core, the delay (or the prediction limit, never 0)
\* the host asked for and, if the core saves states, the host's game.
StartAgrees ==
  (\A p \in Peers : pc[p] = "play") =>
    /\ build["host"] = build["join"]
    /\ delay["host"] = delay["join"]
    /\ rollback => delay["join"] > 0
    /\ saves => game["join"] = "host"

\* What recv returns are the messages the other side sent, whole, each once
\* and in order, however the network cuts the stream into pieces and however
\* often a receive times out between two frames.  The one exception is a peer
\* whose receive gave up within a frame: recv_exact forgets the bytes it has,
\* and the next receive takes the rest of the frame for a header.  Only a
\* running lockstep session makes that next receive.
FramesIntact ==
  \A p \in Peers :
    /\ ~cut[p] =>
         /\ Len(received[p]) <= Len(sent[Other(p)])
         /\ \A i \in DOMAIN received[p] : received[p][i] = sent[Other(p)][i]
    /\ cut[p] =>
         pc[p] \in {"failed", "ended"} \/ (pc[p] = "play" /\ ~rollback)

\* A peer is not left behind: when the other one's start fails or its session
\* ends, this one's receives say so and it ends as well.
PartnerLossNoticed ==
  \A p \in Peers : pc[Other(p)] = "ended" ~> pc[p] = "ended"
=============================================================================
