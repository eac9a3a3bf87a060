----------------------------- MODULE DirectPath -----------------------------
(***************************************************************************)
(* The direct path of one tunnel (internal/agent/direct.go,                *)
(* handleForwardClient of agent.go) next to the relay it competes with     *)
(* (internal/server/forward.go).                                           *)
(*                                                                         *)
(* The source offers a data channel and waits for whichever comes first:   *)
(* the channel, or forward:open of the relay.  The target serves both      *)
(* independently, each with a connection of its own to the service.  What  *)
(* ForwardConn and ForwardSession show in detail is one step here: a relay *)
(* connection drains at once and a session has no row.  Peer connection    *)
(* and network are external: a channel may open late, never, or break.     *)
(***************************************************************************)
EXTENDS Integers, Sequences

CONSTANTS MaxChunks,  \* bound: reads of each socket on the direct path
          MaxRelayed, \* bound: reads of the relay's socket
          MaxEvents   \* bound: ends, losses and failures

ASSUME BoundAssumption == {MaxChunks, MaxRelayed, MaxEvents} \subseteq Nat

VARIABLES
  src,        \* handleForwardClient: "start", "offer", "select", "direct", "relay", "done"
  fwd,        \* a.forwards[id] = fc
  client,     \* fc and its socket: "open", "eof" (the client has ended) or "closed"
  waits,      \* a.forwardPending and a.directPending hold its channels
  relayReady, \* messages in relayReady
  directReady,\* a token is in directReady
  sPeer,      \* the source's peer: "none", "made", "ready" (it has the answer), "closed"
  sChan,      \* its channel: "none", "open" or "closed"
  sMap,       \* it is in a.dataChannels
  sLocal,     \* a.localConns holds the client's socket
  sPend,      \* chunks in a.pendingData of the source
  heard,      \* what the client has been written: chunks by number, or Relayed
  up,         \* reads of the client so far, on the direct path
  tOffer,     \* handleDirectOffer: "none", "run" or "done"
  tPeer,      \* the target's peer: "none", "made", "answered" or "closed"
  tChan, tMap,\* its channel, and a.dataChannels
  bridge,     \* the callbacks of the target's channel ("accept", "opened") and
              \* bridgeTargetChannel: "none", "dial", "flush", "read" or "done"
  svc,        \* its socket to the service: "none", "open", "eof" or "closed"
  tLocal,     \* a.localConns holds that socket
  tPend,      \* chunks in a.pendingData of the target
  flush,      \* chunks bridgeTargetChannel has taken from it and not yet written
  got,        \* chunks written to the service
  raced,      \* history: a chunk was written while others waited in flush
  down,       \* reads of the service so far, on the direct path
  relay,      \* handleForwardTarget: "none", "dial", "open" or "done"
  rdown,      \* reads of its socket so far
  c2s, s2c,   \* chunks on the data channel
  sess,       \* the server's session: "none", "negotiating", "direct", "relay", "gone"
  fell,       \* history: the server has fallen back
  sq, tq,     \* messages to the server from source and target
  ts, tt,     \* messages from the server to source and target
  sCtl, tCtl, \* the control connections: "up", "lost" (a.ws is nil), "clean"
  told,       \* the agents closeAgentForwards has run for
  events      \* ends, losses and failures so far

sPath == <<sPeer, sChan, sMap, sLocal, sPend>>
source == <<src, fwd, client, waits, relayReady, directReady, sPath, heard, up>>
tPath == <<tPeer, tChan, tMap, tLocal, tPend>>
target == <<tOffer, tPath, bridge, svc, flush, got, raced, down, relay, rdown>>
channel == <<c2s, s2c>>
server == <<sess, fell, told>>
queues == <<sq, tq, ts, tt>>
ctl == <<sCtl, tCtl>>
vars == <<source, target, channel, server, queues, ctl, events>>

\* Agent.send: an error without a control connection.
SendS(m) == sq' = IF sCtl = "up" THEN Append(sq, m) ELSE sq
SendT(m) == tq' = IF tCtl = "up" THEN Append(tq, m) ELSE tq

-----------------------------------------------------------------------------
(* The source: handleForwardClient.                                        *)

notSource == <<target, channel, server, tq, ts, tt, ctl>>

\* The deferred calls: the channels leave their maps (nobody reads them any more),
\* and finishForward.
Finish ==
  /\ src' = "done" /\ waits' = FALSE /\ fwd' = FALSE /\ client' = "closed"
  /\ relayReady' = <<>> /\ directReady' = FALSE

\* forward:connect is sent, or the client dropped.
Connect ==
  /\ src = "start"
  /\ SendS("connect")
  /\ IF sCtl = "up"
     THEN src' = "offer" /\ UNCHANGED <<fwd, client, waits, relayReady, directReady>>
     ELSE Finish
  /\ UNCHANGED <<sPath, heard, up, notSource>>

\* startDirectOffer; setupDataChannel puts the channel in its map.
StartDirectOffer ==
  /\ src = "offer" /\ src' = "select"
  /\ sPeer' = "made" /\ sMap' = TRUE
  /\ SendS("offer")
  /\ UNCHANGED <<fwd, client, waits, relayReady, directReady, sChan, sLocal, sPend, heard, up,
                 notSource>>

\* It fails: only the relay is left, and what it had entered stays in the maps.
DirectOfferFails ==
  /\ src = "offer" /\ src' = "select"
  /\ \/ UNCHANGED <<sPeer, sMap>>
     \/ sPeer' = "made" /\ sMap' \in BOOLEAN
  /\ UNCHANGED <<fwd, client, waits, relayReady, directReady, sChan, sLocal, sPend, heard, up,
                 sq, notSource>>

\* The select: fc.ctx is done ...
SelectDone ==
  /\ src = "select" /\ client = "closed"
  /\ Finish
  /\ UNCHANGED <<sPath, heard, up, sq, notSource>>

\* ... or the relay has answered ...
SelectRelay ==
  /\ src = "select" /\ relayReady # <<>>
  /\ IF Head(relayReady) = "error" THEN Finish
     ELSE src' = "relay" /\ relayReady' = Tail(relayReady)
          /\ UNCHANGED <<fwd, client, waits, directReady>>
  /\ UNCHANGED <<sPath, heard, up, sq, notSource>>

\* ... or the channel is open: the socket is handed to it, if it is still ours ...
SelectDirect ==
  /\ src = "select" /\ directReady
  /\ IF client = "closed" \/ ~fwd THEN Finish /\ UNCHANGED sLocal
     ELSE /\ sLocal' = TRUE
          /\ IF sMap THEN src' = "direct" /\ directReady' = FALSE
                          /\ UNCHANGED <<fwd, client, waits, relayReady>>
             ELSE Finish
  /\ UNCHANGED <<sPeer, sChan, sMap, sPend, heard, up, sq, notSource>>

\* ... or ten seconds have passed.
SelectTimeout ==
  /\ src = "select"
  /\ Finish
  /\ UNCHANGED <<sPath, heard, up, sq, notSource>>

\* copyLocalToChannel: a read of the client goes to the channel ...
CopyChunk ==
  /\ src = "direct" /\ client = "open" /\ sChan = "open" /\ up < MaxChunks
  /\ up' = up + 1 /\ c2s' = Append(c2s, up')
  /\ UNCHANGED <<src, fwd, client, waits, relayReady, directReady, sPath, heard, target, s2c,
                 server, queues, ctl>>

CopyStops ==
  /\ SendS("close") /\ sChan' = "closed"
  /\ Finish
  /\ UNCHANGED <<sPeer, sMap, sLocal, sPend, heard, notSource>>

\* ... until a read fails ...
CopyEnds == src = "direct" /\ client # "open" /\ CopyStops /\ UNCHANGED up

\* ... or what was read cannot be sent.
CopyFails ==
  /\ src = "direct" /\ client = "open" /\ sChan = "closed" /\ up < MaxChunks
  /\ up' = up + 1 /\ CopyStops

\* readForward of the relay ends with the client's socket: the server is told, unless
\* it was the server that ended the tunnel.
ReadForwardEnds ==
  /\ src = "relay" /\ client # "open"
  /\ IF fwd /\ client = "eof" THEN SendS("close") ELSE UNCHANGED sq
  /\ Finish
  /\ UNCHANGED <<sPath, heard, up, notSource>>

ClientEnds ==
  /\ client = "open" /\ client' = "eof"
  /\ UNCHANGED <<src, fwd, waits, relayReady, directReady, sPath, heard, up, sq, notSource>>

-----------------------------------------------------------------------------
(* The source: messages and its end of the channel.                        *)

notReceive == <<src, up, target, channel, server, sq, tq, tt, ctl>>

FromServer(m) == sCtl = "up" /\ ts # <<>> /\ Head(ts) = m /\ ts' = Tail(ts)

Notify(m) ==
  relayReady' = IF waits /\ Len(relayReady) < 2 THEN Append(relayReady, m) ELSE relayReady

ReceiveAnswer ==
  /\ FromServer("answer")
  /\ sPeer' = IF sPeer = "made" THEN "ready" ELSE sPeer
  /\ UNCHANGED <<fwd, client, waits, relayReady, directReady, sChan, sMap, sLocal, sPend, heard,
                 notReceive>>

ReceiveOpen ==
  /\ FromServer("open") /\ Notify("open")
  /\ UNCHANGED <<fwd, client, waits, directReady, sPath, heard, notReceive>>

ReceiveError ==
  /\ FromServer("error") /\ Notify("error")
  /\ fwd' = FALSE /\ client' = IF fwd THEN "closed" ELSE client
  /\ UNCHANGED <<waits, directReady, sPath, heard, notReceive>>

\* A chunk of the relay's connection to the service, whichever it is.
Relayed == 0

\* enqueue, and the writer that runs from the start writes to the client.
ReceiveData ==
  /\ FromServer("data")
  /\ heard' = IF fwd /\ client # "closed" THEN Append(heard, Relayed) ELSE heard
  /\ UNCHANGED <<fwd, client, waits, relayReady, directReady, sPath, notReceive>>

\* gracefulClose.
ReceiveClose ==
  /\ FromServer("close")
  /\ client' = IF fwd THEN "closed" ELSE client
  /\ UNCHANGED <<fwd, waits, relayReady, directReady, sPath, heard, notReceive>>

notChannelS == <<src, fwd, client, waits, relayReady, up, target, c2s, server, tq, ts, tt, ctl>>

Connected == sPeer = "ready" /\ tPeer = "answered"

\* OnOpen: forward:direct-ok, and the token.
SourceOpens ==
  /\ Connected /\ sChan = "none" /\ sChan' = "open"
  /\ SendS("direct-ok")
  /\ directReady' = (directReady \/ waits)
  /\ UNCHANGED <<sPeer, sMap, sLocal, sPend, heard, s2c, notChannelS>>

\* Faulty variant: the client is written to before the path has been chosen.
SourceMessageEarly ==
  /\ sChan = "open" /\ s2c # <<>> /\ s2c' = Tail(s2c)
  /\ heard' = IF client # "closed" THEN Append(heard, Head(s2c)) ELSE heard
  /\ UNCHANGED <<directReady, sPath, sq, notChannelS>>

\* OnMessage: to the client once the socket was handed over, else to pendingData,
\* which the source never reads.
SourceMessage ==
  /\ sChan = "open" /\ s2c # <<>> /\ s2c' = Tail(s2c)
  /\ IF sLocal
     THEN /\ heard' = IF client # "closed" THEN Append(heard, Head(s2c)) ELSE heard
          /\ UNCHANGED sPend
     ELSE sPend' = sPend + 1 /\ UNCHANGED heard
  /\ UNCHANGED <<directReady, sPeer, sChan, sMap, sLocal, sq, notChannelS>>

-----------------------------------------------------------------------------
(* The target: handleDirectOffer and bridgeTargetChannel.                  *)

notTarget == <<source, server, sq, ts, ctl>>

ForTarget(m) == tCtl = "up" /\ tt # <<>> /\ Head(tt) = m /\ tt' = Tail(tt)

ReceiveOffer ==
  /\ ForTarget("offer")
  /\ tOffer' = "run"
  /\ UNCHANGED <<tPath, bridge, svc, flush, got, raced, down, relay, rdown, channel, tq, notTarget>>

HandleDirectOffer ==
  /\ tOffer = "run" /\ tOffer' = "done"
  /\ tPeer' = "answered" /\ SendT("answer")
  /\ UNCHANGED <<tChan, tMap, tLocal, tPend, bridge, svc, flush, got, raced, down, relay, rdown,
                 channel, tt, notTarget>>

\* A failure here is a forward:error, which ends the tunnel and not just this path.
HandleDirectOfferFails ==
  /\ tOffer = "run" /\ tOffer' = "done"
  /\ tPeer' \in {tPeer, "made"} /\ SendT("error")
  /\ UNCHANGED <<tChan, tMap, tLocal, tPend, bridge, svc, flush, got, raced, down, relay, rdown,
                 channel, tt, notTarget>>

notCallback == <<tOffer, tPeer, tLocal, tPend, svc, flush, got, raced, down, relay, rdown,
                 channel, tt, notTarget>>

\* The source's channel arrives.  Its callbacks run in goroutines of the library, and
\* the connections may be lost meanwhile.
TargetChannel ==
  /\ Connected /\ tChan = "none"
  /\ tChan' = "open" /\ bridge' = "accept"
  /\ UNCHANGED <<tMap, tq, notCallback>>

\* OnDataChannel: the channel is entered, whatever has become of the session ...
OnDataChannel ==
  /\ bridge = "accept" /\ bridge' = "opened"
  /\ tMap' = TRUE
  /\ UNCHANGED <<tChan, tq, notCallback>>

\* ... and OnOpen: forward:direct-ok, and the bridge starts.
TargetOpens ==
  /\ bridge = "opened" /\ bridge' = "dial"
  /\ SendT("direct-ok")
  /\ UNCHANGED <<tChan, tMap, notCallback>>

notBridge == <<tOffer, tPeer, tChan, tMap, relay, rdown, tt, notTarget>>

\* The socket is entered and the pending chunks taken in one critical section ...
BridgeDial ==
  /\ bridge = "dial" /\ bridge' = "flush"
  /\ svc' = "open" /\ tLocal' = TRUE /\ flush' = tPend /\ tPend' = <<>>
  /\ UNCHANGED <<got, raced, down, channel, tq, notBridge>>

BridgeDialFails ==
  /\ bridge = "dial" /\ bridge' = "done"
  /\ SendT("close")
  /\ UNCHANGED <<svc, tLocal, tPend, flush, got, raced, down, channel, notBridge>>

Written(k) == got' = IF svc \in {"open", "eof"} THEN Append(got, k) ELSE got

\* ... and written outside it.
BridgeFlush ==
  /\ bridge = "flush" /\ flush # <<>>
  /\ Written(Head(flush)) /\ flush' = Tail(flush)
  /\ UNCHANGED <<bridge, svc, tLocal, tPend, raced, down, channel, tq, notBridge>>

\* Faulty variant: the channel is not looked up again after the dial.
BridgeStartUnchecked ==
  /\ bridge = "flush" /\ flush = <<>> /\ bridge' = "read"
  /\ UNCHANGED <<svc, tLocal, tPend, flush, got, raced, down, channel, tq, notBridge>>

\* Without a channel in the map the bridge returns.
BridgeStart ==
  /\ bridge = "flush" /\ flush = <<>>
  /\ IF tMap THEN bridge' = "read" /\ UNCHANGED svc
             ELSE bridge' = "done" /\ svc' = "closed"
  /\ UNCHANGED <<tLocal, tPend, flush, got, raced, down, channel, tq, notBridge>>

BridgeChunk ==
  /\ bridge = "read" /\ svc = "open" /\ tChan = "open" /\ down < MaxChunks
  /\ down' = down + 1 /\ s2c' = Append(s2c, down')
  /\ UNCHANGED <<bridge, svc, tLocal, tPend, flush, got, raced, c2s, tq, notBridge>>

\* Faulty variant: the server is not told.
BridgeEndsSilently ==
  /\ bridge = "read" /\ svc # "open"
  /\ bridge' = "done" /\ svc' = "closed"
  /\ UNCHANGED <<tLocal, tPend, flush, got, raced, down, channel, tq, notBridge>>

BridgeStops ==
  /\ bridge' = "done" /\ svc' = "closed" /\ SendT("close")
  /\ UNCHANGED <<tLocal, tPend, flush, got, raced, channel, notBridge>>

\* A read fails ...
BridgeEnds == bridge = "read" /\ svc # "open" /\ BridgeStops /\ UNCHANGED down

\* ... or brings data for a channel that is closed: nothing else tells the bridge.
BridgeFails ==
  /\ bridge = "read" /\ svc = "open" /\ tChan = "closed" /\ down < MaxChunks
  /\ down' = down + 1 /\ BridgeStops

ServiceEnds ==
  /\ svc = "open" /\ svc' = "eof"
  /\ UNCHANGED <<bridge, tLocal, tPend, flush, got, raced, down, channel, tq, notBridge>>

\* Faulty variant: chunks that come during the flush are put behind the pending ones.
TargetMessageDefers ==
  /\ tChan = "open" /\ bridge # "accept" /\ c2s # <<>> /\ c2s' = Tail(c2s)
  /\ IF tLocal /\ flush = <<>>
     THEN Written(Head(c2s)) /\ UNCHANGED tPend
     ELSE tPend' = Append(tPend, Head(c2s)) /\ UNCHANGED got
  /\ UNCHANGED <<bridge, svc, tLocal, flush, raced, down, s2c, tq, notBridge>>

\* OnMessage: to the service if the socket is known, else to pendingData.
TargetMessage ==
  /\ tChan = "open" /\ bridge # "accept" /\ c2s # <<>> /\ c2s' = Tail(c2s)
  /\ IF tLocal
     THEN /\ Written(Head(c2s)) /\ raced' = (raced \/ flush # <<>>)
          /\ UNCHANGED tPend
     ELSE tPend' = Append(tPend, Head(c2s)) /\ UNCHANGED <<got, raced>>
  /\ UNCHANGED <<bridge, svc, tLocal, flush, down, s2c, tq, notBridge>>

\* One end of the channel is closed: the other follows.
ChannelCloses ==
  /\ "closed" \in {sChan, tChan, sPeer, tPeer} /\ "open" \in {sChan, tChan}
  /\ sChan' = (IF sChan = "open" THEN "closed" ELSE sChan)
  /\ tChan' = (IF tChan = "open" THEN "closed" ELSE tChan)
  /\ UNCHANGED <<src, fwd, client, waits, relayReady, directReady, sPeer, sMap, sLocal, sPend,
                 heard, up, tOffer, tPeer, tMap, tLocal, tPend, bridge, svc, flush, got, raced,
                 down, relay, rdown, channel, server, queues, ctl>>

\* The path breaks under an open channel.
ChannelBreaks ==
  /\ sChan = "open" /\ tChan = "open"
  /\ sChan' = "closed" /\ tChan' = "closed" /\ c2s' = <<>> /\ s2c' = <<>>
  /\ UNCHANGED <<src, fwd, client, waits, relayReady, directReady, sPeer, sMap, sLocal, sPend,
                 heard, up, tOffer, tPeer, tMap, tLocal, tPend, bridge, svc, flush, got, raced,
                 down, relay, rdown, server, queues, ctl>>

-----------------------------------------------------------------------------
(* The target: handleForwardTarget, the relay's side.                      *)

notRelay == <<tOffer, tPath, bridge, svc, flush, got, raced, down, channel, notTarget>>

ReceiveConnect ==
  /\ ForTarget("connect") /\ relay' = "dial"
  /\ UNCHANGED <<rdown, tq, notRelay>>

\* A close ends the relay's connection; the bridge knows nothing of it.
ReceiveCloseT ==
  /\ ForTarget("close") /\ relay' = IF relay = "none" THEN "none" ELSE "done"
  /\ UNCHANGED <<rdown, tq, notRelay>>

RelayDial ==
  /\ relay = "dial" /\ relay' = "open" /\ SendT("open")
  /\ UNCHANGED <<rdown, tt, notRelay>>

RelayDialFails ==
  /\ relay = "dial" /\ relay' = "done" /\ SendT("error")
  /\ UNCHANGED <<rdown, tt, notRelay>>

RelayChunk ==
  /\ relay = "open" /\ rdown < MaxRelayed
  /\ rdown' = rdown + 1 /\ SendT("data")
  /\ UNCHANGED <<relay, tt, notRelay>>

RelayServiceEnds ==
  /\ relay = "open" /\ relay' = "done" /\ SendT("close")
  /\ UNCHANGED <<rdown, tt, notRelay>>

-----------------------------------------------------------------------------
(* The server.  Its writes reach an agent whose connection is up.          *)

notServer == <<source, target, channel, ctl>>

ToSource(m) == ts' = IF sCtl = "up" THEN Append(ts, m) ELSE ts
ToTarget(m) == tt' = IF tCtl = "up" THEN Append(tt, m) ELSE tt

Alive == sess \in {"negotiating", "direct", "relay"}

\* handleForwardConnect.
ServeConnect ==
  /\ sq # <<>> /\ Head(sq) = "connect" /\ sq' = Tail(sq)
  /\ IF "target" \notin told
     THEN sess' = "negotiating" /\ UNCHANGED ts
     ELSE ToSource("error") /\ UNCHANGED sess
  /\ UNCHANGED <<fell, told, tq, tt, notServer>>

\* handleDirectOK, from either side: markDirect also leaves the relay.
ServeDirectOK ==
  /\ \/ sq # <<>> /\ Head(sq) = "direct-ok" /\ sq' = Tail(sq) /\ UNCHANGED tq
     \/ tq # <<>> /\ Head(tq) = "direct-ok" /\ tq' = Tail(tq) /\ UNCHANGED sq
  /\ sess' = IF Alive THEN "direct" ELSE sess
  /\ UNCHANGED <<fell, told, ts, tt, notServer>>

Ending(m) == m \in {"close", "error"}

\* relayForward: the session ends with the message, or with a write that fails.
After(m, to) == IF ~Alive THEN {sess} ELSE IF Ending(m) THEN {"gone"}
                ELSE IF to = "up" THEN {sess} ELSE {sess, "gone"}

RelayFromSource ==
  /\ sq # <<>> /\ Head(sq) \notin {"connect", "direct-ok"} /\ sq' = Tail(sq)
  /\ IF Alive THEN ToTarget(Head(sq)) ELSE UNCHANGED tt
  /\ sess' \in After(Head(sq), tCtl)
  /\ UNCHANGED <<fell, told, tq, ts, notServer>>

RelayFromTarget ==
  /\ tq # <<>> /\ Head(tq) # "direct-ok" /\ tq' = Tail(tq)
  /\ IF Alive THEN ToSource(Head(tq)) ELSE UNCHANGED ts
  /\ sess' \in After(Head(tq), sCtl)
  /\ UNCHANGED <<fell, told, sq, tt, notServer>>

\* The five-second timer: markRelay and startRelayFallback.
Fallback ==
  /\ sess = "negotiating"
  /\ sess' \in IF tCtl = "up" THEN {"relay"} ELSE {"relay", "gone"}
  /\ fell' = TRUE /\ ToTarget("connect")
  /\ UNCHANGED <<told, sq, tq, ts, notServer>>

\* closeAgentForwards, when a connection has been read to its end: the other side is
\* sent forward:close.
CloseAgentForwards ==
  /\ \/ /\ sCtl # "up" /\ sq = <<>> /\ "source" \notin told /\ told' = told \cup {"source"}
        /\ IF Alive THEN ToTarget("close") ELSE UNCHANGED tt
        /\ UNCHANGED ts
     \/ /\ tCtl # "up" /\ tq = <<>> /\ "target" \notin told /\ told' = told \cup {"target"}
        /\ IF Alive THEN ToSource("close") ELSE UNCHANGED ts
        /\ UNCHANGED tt
  /\ sess' = IF Alive THEN "gone" ELSE sess
  /\ UNCHANGED <<fell, sq, tq, notServer>>

-----------------------------------------------------------------------------
(* The control connections.                                                *)

\* The connection of the source is lost, with what was under way to it and some of
\* what was under way to the server ...
SourceLost ==
  /\ sCtl = "up" /\ sCtl' = "lost" /\ ts' = <<>>
  /\ \E n \in 0..Len(sq) : sq' = SubSeq(sq, 1, n)
  /\ UNCHANGED <<source, target, channel, server, tq, tt, tCtl>>

\* ... and cleanupSessions empties every map and closes what they held.
CleanupSource ==
  /\ sCtl = "lost" /\ sCtl' = "clean"
  /\ client' = (IF fwd \/ sLocal THEN "closed" ELSE client) /\ fwd' = FALSE /\ waits' = FALSE
  /\ sPeer' = (IF sPeer = "none" THEN sPeer ELSE "closed")
  /\ sChan' = (IF sMap THEN "closed" ELSE sChan)
  /\ sMap' = FALSE /\ sLocal' = FALSE /\ sPend' = 0
  /\ UNCHANGED <<src, relayReady, directReady, heard, up, target, channel, server, queues, tCtl>>

TargetLost ==
  /\ tCtl = "up" /\ tCtl' = "lost" /\ tt' = <<>>
  /\ \E n \in 0..Len(tq) : tq' = SubSeq(tq, 1, n)
  /\ UNCHANGED <<source, target, channel, server, sq, ts, sCtl>>

CleanupTarget ==
  /\ tCtl = "lost" /\ tCtl' = "clean"
  /\ svc' = (IF tLocal THEN "closed" ELSE svc) /\ tLocal' = FALSE
  /\ tPeer' = (IF tPeer = "none" THEN tPeer ELSE "closed")
  /\ tChan' = (IF tMap THEN "closed" ELSE tChan)
  /\ tMap' = FALSE /\ tPend' = <<>>
  /\ relay' = (IF relay = "none" THEN relay ELSE "done")
  /\ UNCHANGED <<source, tOffer, bridge, flush, got, raced, down, rdown, channel, server, queues,
                 sCtl>>

-----------------------------------------------------------------------------
Init ==
  /\ src = "start" /\ fwd = TRUE /\ client = "open" /\ waits = TRUE /\ relayReady = <<>>
  /\ directReady = FALSE /\ sPeer = "none" /\ sChan = "none" /\ sMap = FALSE /\ sLocal = FALSE
  /\ sPend = 0 /\ heard = <<>> /\ up = 0
  /\ tOffer = "none" /\ tPeer = "none" /\ tChan = "none" /\ tMap = FALSE /\ tLocal = FALSE
  /\ tPend = <<>> /\ bridge = "none" /\ svc = "none" /\ flush = <<>> /\ got = <<>>
  /\ raced = FALSE /\ down = 0 /\ relay = "none" /\ rdown = 0
  /\ c2s = <<>> /\ s2c = <<>> /\ sess = "none" /\ fell = FALSE /\ told = {}
  /\ sq = <<>> /\ tq = <<>> /\ ts = <<>> /\ tt = <<>>
  /\ sCtl = "up" /\ tCtl = "up" /\ events = 0

Source == \/ Connect \/ StartDirectOffer \/ SelectDone \/ SelectRelay \/ SelectDirect
          \/ SelectTimeout \/ CopyEnds \/ ReadForwardEnds \/ ReceiveAnswer
          \/ ReceiveOpen \/ ReceiveError \/ ReceiveData \/ ReceiveClose \/ SourceMessage
          \/ CleanupSource
Target == \/ ReceiveOffer \/ HandleDirectOffer \/ OnDataChannel \/ TargetOpens \/ BridgeDial
          \/ BridgeFlush \/ BridgeStart \/ BridgeEnds \/ TargetMessage \/ ReceiveConnect \/ ReceiveCloseT
          \/ RelayDial \/ CleanupTarget
Server == \/ ServeConnect \/ ServeDirectOK \/ RelayFromSource \/ RelayFromTarget \/ Fallback
          \/ CloseAgentForwards

\* What the client, the services and the network do when they please.
Free == \/ CopyChunk \/ CopyFails \/ BridgeChunk \/ BridgeFails \/ RelayChunk \/ SourceOpens
        \/ TargetChannel \/ ChannelCloses

\* What ends, is lost or fails.
Event == \/ ClientEnds \/ ServiceEnds \/ RelayServiceEnds \/ SourceLost \/ TargetLost
         \/ ChannelBreaks \/ DirectOfferFails \/ HandleDirectOfferFails \/ BridgeDialFails
         \/ RelayDialFails

Step == Source \/ Target \/ Server

Next == \/ (Step \/ Free) /\ UNCHANGED events
        \/ events < MaxEvents /\ events' = events + 1 /\ Event

Spec == Init /\ [][Next]_vars

\* Goroutines, timers and message loops run.  Clients, services and the network owe
\* nothing.  No step can repeat for ever, so one condition starves none.
Fairness == WF_vars(Step /\ UNCHANGED events)

FairSpec == Spec /\ Fairness

-----------------------------------------------------------------------------
(* Properties.                                                             *)

UpTo(n) == [i \in 1..n |-> i]
Elements(s) == {s[i] : i \in DOMAIN s}

\* What the channel brings to the target is written to the service once and in
\* order, whether it came before, during or after the dial, as long as both last, and
\* none is left in pendingData when the bridge reads.  Only a chunk that arrives while
\* older ones are being flushed may overtake them.
ServiceGetsAll ==
  LET all == got \o flush \o tPend
  IN  tCtl = "up" /\ svc \in {"none", "open"} =>
        /\ IF raced THEN Elements(all) = 1..Len(all) ELSE all = UpTo(Len(all))
        /\ bridge = "read" => tPend = <<>>

\* The client hears one service connection.  With the relay chosen nothing of the
\* channel reaches it; with the channel chosen it hears the stream of the channel
\* without a gap, from the first chunk that comes after the choice (earlier ones stay
\* in pendingData), unless the server had fallen back as well.
ClientHearsOne ==
  /\ src \in {"start", "offer", "select", "relay"} => Elements(heard) \subseteq {Relayed}
  /\ src = "direct" /\ client # "closed" /\ ~fell => heard = [i \in 1..Len(heard) |-> sPend + i]

\* cleanupSessions after a lost control connection frees the sockets of its side,
\* although a dial or an offer may be under way and finds the maps empty later.  Only
\* a channel that OnDataChannel enters after the clean-up is found by its bridge, which
\* then keeps the socket until the service sends or ends.
CleanupFrees ==
  /\ sCtl = "clean" ~> src = "done" /\ client = "closed"
  /\ tCtl = "clean" ~> /\ svc \in {"none", "closed"} \/ (bridge = "read" /\ tMap)
                       /\ relay \in {"none", "done"}

\* A service that ends its direct connection ends the client's, while the control
\* connections last: the channel itself tells the source nothing.
ServiceEndReachesClient ==
  svc = "eof" ~> client = "closed" \/ sCtl # "up" \/ tCtl # "up"
=============================================================================
