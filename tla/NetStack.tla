------------------------------ MODULE NetStack ------------------------------
(***************************************************************************)
(* The userspace TCP stack of the native core (netstack.rs): its single    *)
(* task with the biased select, the channels it shares with the tunnel and *)
(* with the proxies, and service_tcp, which decides when a connection is   *)
(* answered, closed and forgotten.  smoltcp itself is external: a socket   *)
(* is its TCP state and the number of bytes in its two buffers.  The       *)
(* applications are the relays of socks.rs.                                *)
(***************************************************************************)
EXTENDS Naturals, Sequences

CONSTANTS
    Conns,      \* connection ids
    Noise,      \* the owner of a packet that belongs to none of them
    MaxUp,      \* bound: bytes an application writes
    MaxDown,    \* bound: bytes a peer sends
    TxBuffer,   \* tcp_tx_buf
    AppQueue,   \* app_queue, for to_app and data_in
    InQueue,    \* capacity of the inbound channel
    MaxIngest   \* MAX_INGEST_PER_TICK

ASSUME ConstantsAssumption ==
    /\ Noise \notin Conns
    /\ {MaxUp, MaxDown, MaxIngest} \subseteq Nat
    /\ {TxBuffer, AppQueue, InQueue} \subseteq Nat \ {0}

VARIABLES
    stack,      \* the task: about to service, waiting in its select, emptying a channel, or returned
    extra,      \* packets its try_recv loop has taken
    handles,    \* some StackHandle exists
    tunnel,     \* the tunnel task holds the other ends of inbound and outbound
    inbound,    \* packets from the tunnel
    cmds,       \* OpenTcp commands
    dataIn,     \* DataIn messages
    app,        \* the application's side of each connection
    conn,       \* TcpState, with its socket
    peer        \* the remote end of each connection

vars == <<stack, extra, handles, tunnel, inbound, cmds, dataIn, app, conn, peer>>
channels == <<inbound, cmds, dataIn>>

States == {"none", "SynSent", "Established", "FinWait1", "FinWait2", "Closing", "TimeWait",
           "CloseWait", "LastAck", "Closed"}
Packets == [of : Conns \cup {Noise}, kind : {"synack", "rst", "data", "fin", "ack", "finack", "any"}]
NoConn == [st |-> "none", established |-> FALSE, half |-> FALSE, pending |-> 0,
           tx |-> 0, rx |-> 0, toApp |-> <<>>, slow |-> FALSE]

TypeOK ==
    /\ stack \in {"turn", "wait", "ingest", "data", "ended"}
    /\ extra \in 0 .. MaxIngest
    /\ handles \in BOOLEAN
    /\ tunnel \in BOOLEAN
    /\ inbound \in Seq(Packets) /\ Len(inbound) <= InQueue
    /\ cmds \in Seq(Conns)
    /\ dataIn \in Seq([of : Conns, kind : {"data", "close"}]) /\ Len(dataIn) <= AppQueue
    /\ app \in [Conns -> [is : {"none", "asking", "open", "refused", "gone"},
                          wrote : 0 .. MaxUp, shut : BOOLEAN, read : 0 .. MaxDown, eof : BOOLEAN]]
    /\ conn \in [Conns -> [st : States, established : BOOLEAN, half : BOOLEAN, pending : 0 .. MaxUp,
                           tx : 0 .. TxBuffer, rx : 0 .. MaxDown,
                           toApp : Seq(1 .. MaxDown), slow : BOOLEAN]]
    /\ \A c \in Conns : Len(conn[c].toApp) <= AppQueue
    /\ peer \in [Conns -> [got : 0 .. MaxUp, gotFin : BOOLEAN, sent : 0 .. MaxDown,
                           fin : BOOLEAN, rst : BOOLEAN]]

Init ==
    /\ stack = "turn"
    /\ extra = 0
    /\ handles = TRUE
    /\ tunnel = TRUE
    /\ inbound = <<>> /\ cmds = <<>> /\ dataIn = <<>>
    /\ app = [c \in Conns |-> [is |-> "none", wrote |-> 0, shut |-> FALSE, read |-> 0, eof |-> FALSE]]
    /\ conn = [c \in Conns |-> NoConn]
    /\ peer = [c \in Conns |-> [got |-> 0, gotFin |-> FALSE, sent |-> 0, fin |-> FALSE, rst |-> FALSE]]

-----------------------------------------------------------------------------
(* smoltcp.                                                                *)

\* Socket::close.
Close(s) ==
    [s EXCEPT !.st = CASE @ = "SynSent" -> "Closed"
                       [] @ = "Established" -> "FinWait1"
                       [] @ = "CloseWait" -> "LastAck"
                       [] @ \notin {"SynSent", "Established", "CloseWait"} -> @]

CanSend(s) == s.st \in {"Established", "CloseWait"}

\* A FIN of ours is on its way once everything before it has been taken.
FinDue(s) == s.st \in {"FinWait1", "Closing", "LastAck"} /\ s.tx = 0

\* Interface::poll hands a packet to the socket it belongs to.
Receive(s, kind) ==
    CASE kind = "synack" -> IF s.st = "SynSent" THEN [s EXCEPT !.st = "Established"] ELSE s
      [] kind = "rst" -> IF s.st = "none" THEN s ELSE [s EXCEPT !.st = "Closed"]
      [] kind = "data" -> IF s.st \in {"Established", "FinWait1", "FinWait2"}
                          THEN [s EXCEPT !.rx = @ + 1] ELSE s
      [] kind = "fin" -> [s EXCEPT !.st = CASE @ = "Established" -> "CloseWait"
                                            [] @ = "FinWait1" -> "Closing"
                                            [] @ = "FinWait2" -> "TimeWait"
                                            [] @ \notin {"Established", "FinWait1", "FinWait2"} -> @]
      [] kind = "ack" -> IF s.tx > 0 THEN [s EXCEPT !.tx = @ - 1] ELSE s
      [] kind = "finack" -> [s EXCEPT !.st = CASE @ = "FinWait1" -> "FinWait2"
                                               [] @ = "Closing" -> "TimeWait"
                                               [] @ = "LastAck" -> "Closed"
                                               [] @ \notin {"FinWait1", "Closing", "LastAck"} -> @]

-----------------------------------------------------------------------------
(* service_tcp, for one connection.                                        *)

\* The receiver of to_app is held by the application, or still by TcpState.
Listening(c, s) == app[c].is \in {"asking", "open"} \/ ~s.established

\* Mutant: the socket is closed when the application has closed its half.
FlushEager(s) ==
    LET n == IF CanSend(s) THEN IF s.pending <= TxBuffer - s.tx THEN s.pending ELSE TxBuffer - s.tx
             ELSE 0
        sent == [s EXCEPT !.pending = @ - n, !.tx = @ + n] IN
    IF sent.half THEN Close(sent) ELSE sent

\* pending into the socket as far as it goes; then close, if the application has
\* closed its half and nothing is pending.
Flush(s) ==
    LET n == IF CanSend(s) THEN IF s.pending <= TxBuffer - s.tx THEN s.pending ELSE TxBuffer - s.tx
             ELSE 0
        sent == [s EXCEPT !.pending = @ - n, !.tx = @ + n] IN
    IF sent.half /\ sent.pending = 0 THEN Close(sent) ELSE sent

\* What the socket holds goes to to_app, if to_app has room.
Deliver(s) ==
    IF s.rx = 0 THEN s
    ELSE IF Len(s.toApp) < AppQueue THEN [s EXCEPT !.toApp = Append(@, s.rx), !.rx = 0]
    ELSE [s EXCEPT !.slow = TRUE]

\* Both maps drop the connection; what to_app holds can still be read.
Forget(s) == [NoConn EXCEPT !.toApp = s.toApp, !.slow = s.slow]

\* Mutant: the state is looked at before the socket is drained.
FinishFirst(c, s) ==
    IF s.st = "CloseWait" THEN Close(s)
    ELSE IF s.st \in {"LastAck", "Closed"} /\ s.established THEN Forget(s)
    ELSE IF Listening(c, s) THEN Deliver(s) ELSE Close(s)

\* Mutant: a vanished application is not noticed.
FinishBlind(c, s) ==
    LET heard == IF Listening(c, s) THEN Deliver(s) ELSE s IN
    IF heard.st = "CloseWait" THEN Close(heard)
    ELSE IF heard.st = "Closed" /\ heard.established THEN Forget(heard)
    ELSE heard

\* Deliver, or close for want of a listener; close after the peer did; forget the
\* connection when the socket is closed.
Finish(c, s) ==
    LET heard == IF Listening(c, s) THEN Deliver(s) ELSE Close(s) IN
    IF heard.st = "CloseWait" THEN Close(heard)
    ELSE IF heard.st = "Closed" /\ heard.established THEN Forget(heard)
    ELSE heard

\* Closed before it was established: "connection refused".
Refused(c) == ~conn[c].established /\ conn[c].st \in {"Closed", "TimeWait"}

\* Established for the first time: the TcpConn goes to whoever still waits for it.
Opened(c) == ~conn[c].established /\ conn[c].st = "Established"

Service(c) ==
    IF conn[c].st = "none" THEN conn[c]
    ELSE IF ~conn[c].established /\ conn[c].st \in {"Closed", "TimeWait"} THEN NoConn
    ELSE Finish(c, Flush(IF Opened(c) THEN [conn[c] EXCEPT !.established = TRUE] ELSE conn[c]))

\* Everything one turn of the loop does before its select.
Turn ==
    /\ stack = "turn"
    /\ conn' = [c \in Conns |-> Service(c)]
    /\ app' = [c \in Conns |->
                 IF app[c].is # "asking" THEN app[c]
                 ELSE [app[c] EXCEPT !.is = IF Opened(c) THEN "open" ELSE IF Refused(c) THEN "refused" ELSE @]]
    /\ stack' = "wait"
    /\ UNCHANGED <<extra, handles, tunnel, channels, peer>>

-----------------------------------------------------------------------------
(* The select, in its order.                                               *)

\* The task returns: its channels close, its connections are gone.
End ==
    /\ stack' = "ended"
    /\ conn' = [c \in Conns |-> [NoConn EXCEPT !.toApp = conn[c].toApp]]
    /\ app' = [c \in Conns |-> IF app[c].is = "asking" THEN [app[c] EXCEPT !.is = "refused"] ELSE app[c]]
    /\ inbound' = <<>> /\ cmds' = <<>> /\ dataIn' = <<>>
    /\ UNCHANGED <<extra, handles, tunnel, peer>>

\* inbound_rx.recv(), then try_recv() up to MAX_INGEST_PER_TICK times while the
\* tunnel goes on sending; the packets are the next poll's.
Ingest ==
    /\ \/ stack = "wait" /\ extra' = extra
       \/ stack = "ingest" /\ extra < MaxIngest /\ extra' = extra + 1
    /\ inbound # <<>>
    /\ conn' = [c \in Conns |-> IF Head(inbound).of = c THEN Receive(conn[c], Head(inbound).kind) ELSE conn[c]]
    /\ inbound' = Tail(inbound)
    /\ stack' = "ingest"
    /\ UNCHANGED <<handles, tunnel, cmds, dataIn, app, peer>>

IngestDone ==
    /\ stack = "ingest"
    /\ inbound = <<>> \/ extra = MaxIngest
    /\ extra' = 0
    /\ stack' = "turn"
    /\ UNCHANGED <<handles, tunnel, channels, app, conn, peer>>

TunnelGone ==
    /\ stack = "wait"
    /\ inbound = <<>>
    /\ ~tunnel
    /\ End

InboundIdle == stack = "wait" /\ inbound = <<>> /\ tunnel

\* handle_cmd of OpenTcp: a socket that sends its SYN, or an error at once.
Command ==
    /\ InboundIdle
    /\ cmds # <<>>
    /\ \/ conn' = [conn EXCEPT ![Head(cmds)] = [NoConn EXCEPT !.st = "SynSent"]] /\ UNCHANGED app
       \/ /\ app' = [app EXCEPT ![Head(cmds)].is = IF @ = "asking" THEN "refused" ELSE @]
          /\ UNCHANGED conn
    /\ cmds' = Tail(cmds)
    /\ stack' = "turn"
    /\ UNCHANGED <<extra, handles, tunnel, inbound, dataIn, peer>>

HandlesGone ==
    /\ InboundIdle
    /\ cmds = <<>>
    /\ ~handles
    /\ End

CommandsIdle == InboundIdle /\ cmds = <<>> /\ handles

\* handle_data: bytes join pending, a close marks the half; both only while the
\* connection exists.
Handle(s, kind) ==
    IF s.st = "none" THEN s
    ELSE IF kind = "data" THEN [s EXCEPT !.pending = @ + 1] ELSE [s EXCEPT !.half = TRUE]

\* data_in_rx.recv(), then try_recv() until it is empty.
Data ==
    /\ CommandsIdle \/ stack = "data"
    /\ dataIn # <<>>
    /\ conn' = [c \in Conns |-> IF Head(dataIn).of = c THEN Handle(conn[c], Head(dataIn).kind) ELSE conn[c]]
    /\ dataIn' = Tail(dataIn)
    /\ stack' = "data"
    /\ UNCHANGED <<extra, handles, tunnel, inbound, cmds, app, peer>>

DataDone ==
    /\ stack = "data"
    /\ dataIn = <<>>
    /\ stack' = "turn"
    /\ UNCHANGED <<extra, handles, tunnel, channels, app, conn, peer>>

\* The sleep: BACKPRESSURE_RETRY, or MAX_IDLE_TICK while there are connections.
Tick ==
    /\ CommandsIdle
    /\ dataIn = <<>>
    /\ \E c \in Conns : conn[c].st # "none"
    /\ stack' = "turn"
    /\ UNCHANGED <<extra, handles, tunnel, channels, app, conn, peer>>

-----------------------------------------------------------------------------
(* The applications.                                                       *)

\* open_tcp, and giving up on it (GATEWAY_PROBE_TIMEOUT, an aborted relay).
Ask(c) ==
    /\ app[c].is = "none"
    /\ handles
    /\ IF stack = "ended"
       THEN app' = [app EXCEPT ![c].is = "refused"] /\ UNCHANGED cmds
       ELSE app' = [app EXCEPT ![c].is = "asking"] /\ cmds' = Append(cmds, c)
    /\ UNCHANGED <<stack, extra, handles, tunnel, inbound, dataIn, conn, peer>>

GiveUp(c) ==
    /\ app[c].is = "asking"
    /\ app' = [app EXCEPT ![c].is = "gone"]
    /\ UNCHANGED <<stack, extra, handles, tunnel, channels, conn, peer>>

\* TcpSender::send and ::close wait for room in data_in.
Tell(c, kind) ==
    /\ app[c].is = "open"
    /\ ~app[c].shut
    /\ stack # "ended"
    /\ Len(dataIn) < AppQueue
    /\ dataIn' = Append(dataIn, [of |-> c, kind |-> kind])
    /\ UNCHANGED <<stack, extra, handles, tunnel, inbound, cmds, conn, peer>>

Write(c) ==
    /\ app[c].wrote < MaxUp
    /\ Tell(c, "data")
    /\ app' = [app EXCEPT ![c].wrote = @ + 1]

Shut(c) ==
    /\ Tell(c, "close")
    /\ app' = [app EXCEPT ![c].shut = TRUE]

\* from_stack.recv(): a chunk, or the end once the stack has let go of to_app.
Read(c) ==
    /\ app[c].is = "open"
    /\ ~app[c].eof
    /\ IF conn[c].toApp # <<>>
       THEN /\ app' = [app EXCEPT ![c].read = @ + Head(conn[c].toApp)]
            /\ conn' = [conn EXCEPT ![c].toApp = Tail(@)]
       ELSE /\ conn[c].st = "none"
            /\ app' = [app EXCEPT ![c].eof = TRUE]
            /\ UNCHANGED conn
    /\ UNCHANGED <<stack, extra, handles, tunnel, channels, peer>>

\* The relay ends: both halves of the TcpConn are dropped.
Leave(c) ==
    /\ app[c].is = "open"
    /\ app' = [app EXCEPT ![c].is = "gone"]
    /\ conn' = [conn EXCEPT ![c].toApp = <<>>]
    /\ UNCHANGED <<stack, extra, handles, tunnel, channels, peer>>

-----------------------------------------------------------------------------
(* The tunnel and the peers.                                               *)

Send(c, kind) ==
    /\ tunnel
    /\ stack # "ended"
    /\ Len(inbound) < InQueue
    /\ inbound' = Append(inbound, [of |-> c, kind |-> kind])

InFlight(c, kinds) == \E i \in DOMAIN inbound : inbound[i].of = c /\ inbound[i].kind \in kinds

peerIdle == <<stack, extra, handles, tunnel, cmds, dataIn, app, conn>>

\* The answer to the SYN.
PeerAnswers(c) ==
    /\ conn[c].st = "SynSent"
    /\ ~InFlight(c, {"synack", "rst"})
    /\ \/ Send(c, "synack") /\ UNCHANGED peer
       \/ Send(c, "rst") /\ peer' = [peer EXCEPT ![c].rst = TRUE]
    /\ UNCHANGED peerIdle

Connected(c) == conn[c].st \notin {"none", "SynSent", "Closed", "TimeWait"} /\ ~peer[c].rst

PeerSends(c) ==
    /\ Connected(c) /\ ~peer[c].fin /\ peer[c].sent < MaxDown
    /\ Send(c, "data")
    /\ peer' = [peer EXCEPT ![c].sent = @ + 1]
    /\ UNCHANGED peerIdle

PeerCloses(c) ==
    /\ Connected(c) /\ ~peer[c].fin
    /\ Send(c, "fin")
    /\ peer' = [peer EXCEPT ![c].fin = TRUE]
    /\ UNCHANGED peerIdle

\* The peer takes a byte, or the FIN behind the last of them.
PeerTakes(c) ==
    /\ Connected(c) /\ ~InFlight(c, {"ack", "finack"})
    /\ \/ conn[c].tx > 0 /\ Send(c, "ack") /\ peer' = [peer EXCEPT ![c].got = @ + 1]
       \/ FinDue(conn[c]) /\ Send(c, "finack") /\ peer' = [peer EXCEPT ![c].gotFin = TRUE]
    /\ UNCHANGED peerIdle

PeerResets(c) ==
    /\ Connected(c)
    /\ Send(c, "rst")
    /\ peer' = [peer EXCEPT ![c].rst = TRUE]
    /\ UNCHANGED peerIdle

\* The timer of TIME-WAIT.
TimeWaitEnds(c) ==
    /\ conn[c].st = "TimeWait"
    /\ conn' = [conn EXCEPT ![c].st = "Closed"]
    /\ UNCHANGED <<stack, extra, handles, tunnel, channels, app, peer>>

\* Traffic of other connections.
OtherTraffic ==
    /\ Send(Noise, "any")
    /\ UNCHANGED <<stack, extra, handles, tunnel, cmds, dataIn, app, conn, peer>>

\* The tunnel ends; the last StackHandle is dropped.
TunnelEnds ==
    /\ tunnel
    /\ tunnel' = FALSE
    /\ UNCHANGED <<stack, extra, handles, channels, app, conn, peer>>

DropHandles ==
    /\ handles
    /\ \A c \in Conns : app[c].is # "asking"
    /\ handles' = FALSE
    /\ UNCHANGED <<stack, extra, tunnel, channels, app, conn, peer>>

-----------------------------------------------------------------------------
Stack == Turn \/ Ingest \/ IngestDone \/ TunnelGone \/ Command \/ HandlesGone \/ Data \/ DataDone \/ Tick
Peer(c) == PeerAnswers(c) \/ PeerTakes(c) \/ TimeWaitEnds(c)

Next ==
    \/ Stack
    \/ \E c \in Conns :
         \/ Ask(c) \/ GiveUp(c) \/ Write(c) \/ Shut(c) \/ Read(c) \/ Leave(c)
         \/ Peer(c) \/ PeerSends(c) \/ PeerCloses(c) \/ PeerResets(c)
    \/ OtherTraffic \/ TunnelEnds \/ DropHandles

Spec == Init /\ [][Next]_vars

\* The task and the relays are scheduled; peers answer, take what they are sent and
\* close when they have been closed.
FairSpec ==
    /\ Spec
    /\ WF_vars(Stack)
    /\ \A c \in Conns : /\ WF_vars(Read(c)) /\ WF_vars(PeerAnswers(c)) /\ WF_vars(PeerTakes(c))
                        /\ WF_vars(TimeWaitEnds(c)) /\ WF_vars(peer[c].gotFin /\ PeerCloses(c))

-----------------------------------------------------------------------------
(* Properties.                                                             *)

\* When the peer has seen the end of an upload that nobody cut short, it has seen
\* all of it: a close that overtakes pending bytes would truncate it.
UploadIntact ==
    \A c \in Conns :
        peer[c].gotFin /\ app[c].is = "open" /\ ~peer[c].fin => peer[c].got = app[c].wrote

\* An application that keeps up reads everything before it reads the end, if the
\* peer finished and the stack lives.
DownloadIntact ==
    \A c \in Conns :
        app[c].eof /\ peer[c].fin /\ ~peer[c].rst /\ stack # "ended" /\ ~conn[c].slow
            => app[c].read = peer[c].sent

\* The same for an application whose queue was full at the wrong moment.
SlowDownloadIntact ==
    \A c \in Conns :
        app[c].eof /\ peer[c].fin /\ ~peer[c].rst /\ stack # "ended" => app[c].read = peer[c].sent

Quiet == <>[][Len(inbound') < Len(inbound)]_inbound

\* Whoever asks for a connection gets an answer, once the tunnel is quiet.
Answered == Quiet => \A c \in Conns : app[c].is = "asking" ~> app[c].is # "asking"

\* An application that goes away takes its connection with it, once the tunnel is
\* quiet: "the netstack never closed the socket after the app went away, so it leaks".
Reclaimed == Quiet => \A c \in Conns : app[c].is = "gone" ~> conn[c].st = "none" /\ cmds = <<>>

\* What the application has not read reaches it or its relay, without an event of
\* its own to wake the stack.
Drained == Quiet => \A c \in Conns : conn[c].rx > 0 ~> conn[c].rx = 0

\* What the select of quic.rs makes sure of, "so every arm makes progress".
EveryArmProgresses == \A c \in Conns : app[c].is = "asking" ~> app[c].is # "asking"
=============================================================================
