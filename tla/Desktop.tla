------------------------------ MODULE Desktop ------------------------------
(***************************************************************************)
(* One desktop of the console: DesktopView in the browser                  *)
(* (web/src/App.tsx), the socket handler, the screen link and the router   *)
(* of the server (internal/server/screen.go, agentws.go) and the direct    *)
(* path and the link of the agent (internal/agent/browser_direct.go,       *)
(* screen.go).                                                             *)
(*                                                                         *)
(* A desktop has no stream before it has a path: a WebRTC data channel, or *)
(* else a second socket, the screen link, that the device opens and the    *)
(* server joins to the browser's own socket.  From then on that socket     *)
(* carries the remote framebuffer protocol (RFB) and no more messages.     *)
(* noVNC, the peer connection and the VNC server are external: noVNC takes *)
(* over the socket or channel it is given, a path may fail at any time and *)
(* a closed end is noticed by the other.                                   *)
(***************************************************************************)
EXTENDS Integers, Sequences, SessionStage

CONSTANTS MaxFrames, \* bound: reads of the framebuffer stream
          MaxEvents  \* bound: candidates, inputs, departures and failures

ASSUME BoundAssumption == MaxFrames \in Nat /\ MaxEvents \in Nat

VARIABLES
  b,          \* the variables of DesktopView, a record: see NewView
  up, down,   \* frames on the browser socket, to and from the server
  handler,    \* where handleScreenWS is
  endState,   \* its variable of that name
  transport,  \* sess.transport
  listed,     \* the session is in s.screens
  wsOpen,     \* the server's end of the browser socket
  row,        \* the connections row: state and transport
  router,     \* what routeBrowserRTC writes with sessionsMu held, or "idle"
  linker,     \* handleScreenLinkWS: "none", "look", "wait" or "gone"
  linkSet,    \* sess.linkSet
  link,       \* the socket of the link: "none", "open" or "cut"
  lq,         \* frames in transit on it, to the server
  conn,       \* the handler's device connection: "up", "broken" (not noticed), "closed"
  toAgent, fromAgent, \* messages on it
  dev,        \* the agent: "up", "lost" (a.ws is nil), "down" (cleaned up), "back"
  ctl,        \* its control loop: "idle", or "buffer" inside handleBrowserICE
  screen,     \* startScreenLink: "none", "dial", "vnc", "bridge" or "done"
  frames,     \* reads of the framebuffer stream so far
  offer,      \* handleBrowserOffer: "none", "dial", "make", "describe", "answer", "done"
  pc,         \* its peer connection: "none", "made" or "described" (it is in
              \* a.peerConns), or "closed"
  vnc,        \* the VNC connection of the direct path: "none", "open" or "closed"
  pend,       \* a candidate is in a.pendingCandidates
  dch,        \* the agent's end of the data channel: "none", "open" or "closed"
  onOpen,     \* its OnOpen callback: "none", "pending" or "done"
  reg,        \* the channel is in a.browserChannels and a.browserDirect
  bridge,     \* bridgeBrowserDesktop: "none", "read" or "done"
  chq,        \* frames in transit on the channel
  events      \* candidates, inputs, departures and failures so far

browser == <<b, up>>
session == <<transport, listed>>
server == <<handler, endState, session, wsOpen, row, router>>
linked == <<linker, linkSet, link, lq>>
control == <<conn, dev>>
path == <<pc, vnc, pend, dch, reg>>
direct == <<offer, onOpen, bridge, path>>
agent == <<ctl, screen, frames, direct, chq>>
vars == <<browser, down, server, linked, control, toAgent, fromAgent, agent, events>>

-----------------------------------------------------------------------------
(* DesktopView.                                                            *)

NewView ==
  [sock |-> "connecting", disposed |-> FALSE, requested |-> FALSE, acked |-> FALSE,
   live |-> FALSE, rfb |-> "none",               \* the path rfbRef.current runs on
   directTimer |-> FALSE,                        \* directDeadline is armed
   hand |-> "off",                               \* what handshakeDeadline waits for
   stage |-> "setup", offer |-> "none",
   peer |-> "none", answered |-> FALSE,          \* the peer, and it has the answer
   chan |-> "none"]                              \* channel.readyState

\* peer.close() of the console closes its end of the channel too.
ClosePeer(x) ==
  [x EXCEPT !.peer = IF @ = "open" THEN "closed" ELSE @,
            !.chan = IF @ = "open" THEN "closed" ELSE @]

\* socket.close(): no frame is handled any more, and the server reads an error
\* after the frames sent before.
CloseSocket(x) == [x EXCEPT !.sock = IF @ = "open" THEN "closing" ELSE @]

\* Frames sent to an end the server has closed vanish.
Sending(q, m) == IF wsOpen THEN Append(q, m) ELSE q
Send(x, m) == up' = IF x.sock = "open" THEN Sending(up, m) ELSE up

FellBack(x) ==
  [ClosePeer(x) EXCEPT
     !.live = FALSE, !.requested = TRUE, !.directTimer = FALSE, !.rfb = "none",
     !.hand = IF x.sock = "open" THEN "switch" ELSE "off",
     !.stage = LET s == applyStage(@, "switching")
               IN  IF x.sock = "open" THEN s ELSE markFailed(s)]

\* startFallback(failed) in state x of the view.
startFallback(x, failed) ==
  IF canFallback(x, failed)
  THEN b' = FellBack(x) /\ Send(x, "fallback")
  ELSE b' = x /\ UNCHANGED up

\* Faulty variant: the budget ends when noVNC has the path.
attachRFBUntimed(x, mode) == [x EXCEPT !.rfb = mode, !.hand = "off"]

\* attachRFB: noVNC gets the path, and a budget for its handshake.
attachRFB(x, mode) == [x EXCEPT !.rfb = mode, !.hand = mode]

\* maybeAttachDirect, then rtc:ready.
maybeAttachDirect(x) ==
  IF x.acked /\ x.chan = "open" /\ ~x.requested /\ x.rfb = "none"
  THEN b' = attachRFB(x, "direct") /\ Send(x, "ready")
  ELSE b' = x /\ UNCHANGED up

notBrowser == <<server, linked, control, toAgent, fromAgent, ctl, screen, frames, direct>>

\* socket.onopen: arm the budget and create the peer ...
Opened == [b EXCEPT !.sock = "open", !.directTimer = TRUE, !.stage = startBudget(@)]

SocketOpen ==
  /\ b.sock = "connecting"
  /\ b' = [Opened EXCEPT !.peer = "open", !.offer = "making"]
  /\ UNCHANGED <<up, down, chq, notBrowser>>

\* ... or fall back if that throws.
CreateThrows ==
  /\ b.sock = "connecting"
  /\ startFallback(Opened, FALSE)
  /\ UNCHANGED <<down, chq, notBrowser>>

\* Faulty variant: the offer is sent whatever happened to the peer meanwhile.
NegotiateOfferLate ==
  /\ b.offer = "making"
  /\ b' = [b EXCEPT !.offer = "made"] /\ Send(b, "offer")
  /\ UNCHANGED <<down, chq, notBrowser>>

\* negotiateOffer: the offer is sent unless the peer has been closed meanwhile ...
NegotiateOffer ==
  /\ b.offer = "making"
  /\ LET x == [b EXCEPT !.offer = "made"]
     IN  \/ b.peer = "closed" /\ b' = x /\ UNCHANGED up
         \/ b.peer = "open" /\ b' = x /\ Send(b, "offer")
  /\ UNCHANGED <<down, chq, notBrowser>>

\* ... and the failure of an open peer is reported.
NegotiateFails ==
  /\ b.offer = "making" /\ b.peer = "open"
  /\ startFallback([b EXCEPT !.offer = "made"], TRUE)
  /\ UNCHANGED <<down, chq, notBrowser>>

\* peer.onicecandidate.
SendCandidate ==
  /\ b.offer = "made" /\ b.peer = "open" /\ b.sock = "open"
  /\ Send(b, "ice")
  /\ UNCHANGED <<b, down, chq, notBrowser>>

\* onStateChange of a peer that is connecting.
PeerConnecting ==
  /\ b.peer = "open"
  /\ b' = [b EXCEPT !.stage = applyStage(@, "checking")]
  /\ UNCHANGED <<up, down, chq, notBrowser>>

DirectDeadline ==
  /\ b.directTimer
  /\ startFallback([b EXCEPT !.directTimer = FALSE], FALSE)
  /\ UNCHANGED <<down, chq, notBrowser>>

\* handshakeDeadline: a direct handshake falls back, any other ends the session.
HandshakeDeadline ==
  LET x == [b EXCEPT !.hand = "off"]
  IN  /\ b.hand # "off"
      /\ IF b.hand = "direct"
         THEN startFallback(x, TRUE) /\ UNCHANGED down
         ELSE /\ b' = CloseSocket([x EXCEPT !.rfb = "none", !.stage = markFailed(@)])
              /\ Send(b, "bye") /\ down' = <<>>
      /\ UNCHANGED <<chq, notBrowser>>

\* socket.onmessage for the messages of the direct path ...
OnSignal(m) ==
  \/ /\ m = "answer" /\ UNCHANGED up
     /\ b' = IF b.peer = "none" \/ b.requested THEN b
             ELSE [b EXCEPT !.stage = applyStage(@, "negotiating"), !.answered = TRUE]
  \/ m = "ok" /\ maybeAttachDirect([b EXCEPT !.acked = TRUE])
  \/ m = "derr" /\ startFallback(b, TRUE)

\* ... of the relay, which gives the socket to noVNC ...
OnRelay ==
  b' = attachRFB([ClosePeer(b) EXCEPT !.requested = TRUE, !.directTimer = FALSE,
                                      !.stage = markRelaying(@)], "relay")

OnError == b' = [b EXCEPT !.stage = markFailed(@)]

Received == b.sock = "open" /\ ~b.disposed /\ down # <<>> /\ Head(down) # "close"

Receive ==
  /\ Received /\ b.rfb # "relay"
  /\ \/ OnSignal(Head(down))
     \/ Head(down) = "relay" /\ OnRelay /\ UNCHANGED up
     \/ Head(down) = "serr" /\ OnError /\ UNCHANGED up
  /\ down' = Tail(down)
  /\ UNCHANGED <<chq, notBrowser>>

\* setRemoteDescription rejects the answer.
AnswerRejected ==
  /\ Received /\ b.rfb # "relay" /\ Head(down) = "answer" /\ b.peer # "none" /\ ~b.requested
  /\ startFallback([b EXCEPT !.stage = applyStage(@, "negotiating")], FALSE)
  /\ down' = Tail(down)
  /\ UNCHANGED <<chq, notBrowser>>

\* The "connect" event of noVNC, if this is still the stream in use.
RfbConnect(x) ==
  IF x.disposed \/ (x.rfb = "direct" /\ x.requested) THEN x
  ELSE [x EXCEPT !.live = TRUE, !.directTimer = FALSE, !.hand = "off",
                 !.stage = markConnected(@)]

\* noVNC reads a frame of the relayed stream, which may complete its handshake.
RelayFrame ==
  /\ Received /\ b.rfb = "relay" /\ Head(down) = "rfb"
  /\ b' \in {b, RfbConnect(b)}
  /\ down' = Tail(down)
  /\ UNCHANGED <<up, chq, notBrowser>>

\* ... or of the channel; nothing listens there before it is attached.
ChannelFrame ==
  /\ chq > 0 /\ b.chan = "open"
  /\ chq' = chq - 1
  /\ b' \in IF b.rfb = "direct" THEN {b, RfbConnect(b)} ELSE {b}
  /\ UNCHANGED <<up, down, notBrowser>>

\* noVNC answers the server of the device.
RfbSend ==
  /\ b.rfb = "relay" /\ b.sock = "open"
  /\ Send(b, "rfb")
  /\ UNCHANGED <<b, down, chq, notBrowser>>

\* noVNC gives up a stream: "disconnect" ...
RfbDisconnect ==
  /\ b.rfb # "none" /\ b.sock = "open"
  /\ LET x == [b EXCEPT !.hand = "off"]
     IN  IF b.rfb = "direct"
         THEN startFallback(x, TRUE) /\ UNCHANGED down
         ELSE /\ b' = CloseSocket([x EXCEPT !.stage = markDisconnected(@)])
              /\ Send(b, "bye") /\ down' = <<>>
  /\ UNCHANGED <<chq, notBrowser>>

\* ... or "securityfailure" before it connects, which ends the session.
SecurityFailure ==
  /\ b.rfb # "none" /\ b.sock = "open" /\ ~b.live
  /\ b' = CloseSocket(ClosePeer([b EXCEPT !.hand = "off", !.directTimer = FALSE,
                                          !.requested = TRUE, !.stage = markFailed(@)]))
  /\ Send(b, "bye") /\ down' = <<>>
  /\ UNCHANGED <<chq, notBrowser>>

\* socket.onclose in state x of the view, or noVNC's on a socket it was given.  What
\* no handler reads any more is reset.
Closed(x) ==
  [NewView EXCEPT !.sock = "closed", !.requested = TRUE, !.peer = "closed", !.chan = "closed",
                  !.offer = x.offer, !.stage = markDisconnected(x.stage)]

\* The server has closed the socket, or the close of this side is complete.
SocketClosed ==
  /\ \/ b.sock = "closing"
     \/ b.sock = "open" /\ down # <<>> /\ Head(down) = "close"
  /\ b' = Closed(b)
  /\ down' = <<>>
  /\ UNCHANGED <<up, chq, notBrowser>>

\* The socket breaks: onerror (unless noVNC has it), then onclose.
SocketFails ==
  /\ b.sock \in {"connecting", "open"}
  /\ b' = Closed(IF b.rfb = "relay" THEN b ELSE [b EXCEPT !.stage = markFailed(@)])
  /\ \E n \in 0..Len(up) : up' = Sending(SubSeq(up, 1, n), "bye")
  /\ down' = <<>>
  /\ UNCHANGED <<chq, notBrowser>>

\* The user leaves the page: every handler is off from now on.
Dispose ==
  /\ b.sock \in {"connecting", "open"}
  /\ b' = [Closed(b) EXCEPT !.disposed = TRUE]
  /\ up' = Sending(up, "bye")
  /\ down' = <<>>
  /\ UNCHANGED <<chq, notBrowser>>

\* Both descriptions are in place and neither end is closed.
Connected == b.peer = "open" /\ b.answered /\ pc = "described"

ChannelOpens ==
  /\ Connected /\ b.chan = "none"
  /\ maybeAttachDirect([b EXCEPT !.chan = "open"])
  /\ UNCHANGED <<down, chq, notBrowser>>

\* The peer fails or disconnects, or the channel closes or fails.
PathFails ==
  /\ b.peer = "open"
  /\ startFallback([b EXCEPT !.chan = IF @ = "open" THEN "closed" ELSE @], TRUE)
  /\ UNCHANGED <<down, chq, notBrowser>>

\* ... because the agent has closed its end.
NoticeClosed == b.chan = "open" /\ "closed" \in {pc, dch} /\ PathFails

-----------------------------------------------------------------------------
(* handleScreenWS.  A write to a broken connection fails or vanishes.      *)

WriteOK == conn # "closed"
WriteErr == conn # "up"
Delivered(q, ms) == IF conn = "up" THEN q \o ms ELSE q
ToAgent(m) == toAgent' = Delivered(toAgent, <<m>>)
ToBrowser(m) ==
  down' = IF wsOpen /\ b.sock \in {"connecting", "open"} THEN Append(down, m) ELSE down

\* The router holds sessionsMu from the look-up to its write.
Locked == router # "idle"

ReadFrame(ms) == handler = "read" /\ wsOpen /\ up # <<>> /\ Head(up) \in ms

Fail == endState' = "failed" /\ handler' = "unlist" /\ UNCHANGED toAgent

\* The row is inserted and the session listed.
StartScreen ==
  /\ handler = "start" /\ ~Locked
  /\ handler' = "read" /\ listed' = TRUE
  /\ row' = [row EXCEPT !.state = "active"]
  /\ UNCHANGED <<browser, down, endState, transport, wsOpen, router, linked, control, toAgent,
                 fromAgent, agent>>

\* rtc:offer and rtc:ice look at the transport first, under sessionsMu.  The loop
\* never comes back from the relay, so the relay case of that look is never taken.
HandleSignal ==
  /\ ReadFrame({"offer", "ice", "ready"}) /\ (Head(up) = "ready" \/ ~Locked)
  /\ up' = Tail(up)
  /\ \/ /\ WriteOK /\ UNCHANGED <<handler, endState>>
        /\ IF transport = "relay" /\ Head(up) # "ready" THEN UNCHANGED toAgent
           ELSE ToAgent(Head(up))
     \/ WriteErr /\ Fail
  /\ UNCHANGED <<b, down, session, wsOpen, row, router, linked, control, fromAgent, agent>>

\* Faulty variant: rtc:fallback does not wait for sessionsMu.
HandleFallbackUnlocked ==
  /\ ReadFrame({"fallback"})
  /\ up' = Tail(up)
  /\ transport' = "relay"
  /\ handler' = IF transport = "relay" THEN "read" ELSE "record"
  /\ UNCHANGED <<b, down, endState, listed, wsOpen, row, router, linked, control, toAgent,
                 fromAgent, agent>>

HandleFallback ==
  /\ ReadFrame({"fallback"}) /\ ~Locked
  /\ up' = Tail(up)
  /\ transport' = "relay"
  /\ handler' = IF transport = "relay" THEN "read" ELSE "record"
  /\ UNCHANGED <<b, down, endState, listed, wsOpen, row, router, linked, control, toAgent,
                 fromAgent, agent>>

\* The row, then rtc:relay and screen:start for the device.
RecordRelay ==
  /\ handler = "record"
  /\ row' = [row EXCEPT !.transport = "relay"]
  /\ \/ /\ WriteOK /\ handler' = "wait"
        /\ toAgent' = Delivered(toAgent, <<"relay", "sstart">>) /\ UNCHANGED endState
     \/ WriteErr /\ Fail
  /\ UNCHANGED <<browser, down, session, wsOpen, router, linked, control, fromAgent, agent>>

\* linkReady: the browser is told, and the sockets are joined ...
LinkReady ==
  /\ handler = "wait" /\ linkSet
  /\ ToBrowser("relay") /\ handler' = "relay"
  /\ UNCHANGED <<browser, endState, session, wsOpen, row, router, linked, control, toAgent,
                 fromAgent, agent>>

\* ... or ten seconds have passed.
LinkTimeout ==
  /\ handler = "wait"
  /\ ToBrowser("serr") /\ endState' = "failed" /\ handler' = "unlist"
  /\ UNCHANGED <<browser, session, wsOpen, row, router, linked, control, toAgent, fromAgent,
                 agent>>

\* relayScreen: frames of the browser go to the device, whatever they are ...
CopyUp ==
  /\ handler = "relay" /\ wsOpen /\ up # <<>> /\ Head(up) # "bye" /\ link = "open"
  /\ up' = Tail(up)
  /\ UNCHANGED <<b, down, server, linked, control, toAgent, fromAgent, agent>>

\* ... frames of the device to the browser ...
CopyDown ==
  /\ handler = "relay" /\ wsOpen /\ lq > 0
  /\ lq' = lq - 1 /\ ToBrowser("rfb")
  /\ UNCHANGED <<browser, server, linker, linkSet, link, control, toAgent, fromAgent, agent>>

CloseBrowser == wsOpen' = FALSE /\ ToBrowser("close") /\ up' = <<>>
Cut(l) == IF l = "open" THEN "cut" ELSE l

ReadError == ~wsOpen \/ (up # <<>> /\ Head(up) = "bye")

\* Faulty variant: only the direction that failed ends, as in a half-closed stream.
RelayEndsHalf ==
  /\ handler = "relay" /\ ReadError /\ link = "cut" /\ lq = 0
  /\ handler' = "unlist" /\ CloseBrowser
  /\ UNCHANGED <<b, endState, session, row, router, linked, control, toAgent, fromAgent, agent>>

\* ... and the first direction to fail closes both sockets.
RelayEnds ==
  /\ handler = "relay" /\ (ReadError \/ (link = "cut" /\ (lq = 0 \/ up # <<>>)))
  /\ handler' = "unlist" /\ CloseBrowser /\ link' = Cut(link) /\ lq' = 0
  /\ UNCHANGED <<b, endState, session, row, router, linker, linkSet, control, toAgent, fromAgent,
                 agent>>

HandlerReadError ==
  /\ handler = "read" /\ ReadError
  /\ handler' = "unlist"
  /\ UNCHANGED <<browser, down, endState, session, wsOpen, row, router, linked, control,
                 toAgent, fromAgent, agent>>

\* The deferred calls, last registered first: the session is unlisted, sess.done
\* closed and rtc:stop sent ...
Unlist ==
  /\ handler = "unlist" /\ ~Locked
  /\ listed' = FALSE /\ ToAgent("rtcstop") /\ handler' = "close"
  /\ UNCHANGED <<browser, down, endState, transport, wsOpen, row, router, linked, control,
                 fromAgent, agent>>

\* ... the row is ended, and the socket closed.
EndHandler ==
  /\ handler = "close" /\ handler' = "gone"
  /\ row' = [row EXCEPT !.state = endState] /\ CloseBrowser
  /\ UNCHANGED <<b, endState, session, router, linked, control, toAgent, fromAgent, agent>>

-----------------------------------------------------------------------------
(* handleScreenLinkWS: the device's second socket.                         *)

notLink == <<browser, down, server, control, toAgent, fromAgent, agent>>

\* The link is taken if the session is listed and has none.
LinkLook ==
  /\ linker = "look" /\ ~Locked
  /\ IF listed /\ ~linkSet
     THEN linker' = "wait" /\ linkSet' = TRUE /\ UNCHANGED <<link, lq>>
     ELSE linker' = "gone" /\ link' = Cut(link) /\ lq' = 0 /\ UNCHANGED linkSet
  /\ UNCHANGED notLink

\* It stays until sess.done is closed.
LinkEnd ==
  /\ linker = "wait" /\ handler \in {"close", "gone"}
  /\ linker' = "gone" /\ link' = Cut(link) /\ lq' = 0 /\ UNCHANGED linkSet
  /\ UNCHANGED notLink

-----------------------------------------------------------------------------
(* routeBrowserRTC.                                                        *)

\* Under sessionsMu: dropped once the session relays ...
RouteRTC ==
  /\ router = "idle" /\ fromAgent # <<>>
  /\ fromAgent' = Tail(fromAgent)
  /\ IF listed /\ transport # "relay"
     THEN /\ router' = Head(fromAgent)
          /\ transport' = IF Head(fromAgent) = "ok" THEN "direct" ELSE transport
     ELSE UNCHANGED <<router, transport>>
  /\ UNCHANGED <<browser, down, handler, endState, listed, wsOpen, row, linked, control, toAgent,
                 agent>>

\* ... else recorded and written before the mutex is released.
WriteRTC ==
  /\ Locked
  /\ row' = [row EXCEPT !.transport = IF router = "ok" THEN "direct" ELSE @]
  /\ ToBrowser(router) /\ router' = "idle"
  /\ UNCHANGED <<browser, handler, endState, session, wsOpen, linked, control, toAgent,
                 fromAgent, agent>>

-----------------------------------------------------------------------------
(* The device connection.                                                  *)

\* It breaks: each side still reads what had arrived.
LinkBreaks ==
  /\ conn = "up" /\ conn' = "broken"
  /\ \E n \in 0..Len(toAgent) : toAgent' = SubSeq(toAgent, 1, n)
  /\ \E n \in 0..Len(fromAgent) : fromAgent' = SubSeq(fromAgent, 1, n)
  /\ UNCHANGED <<browser, down, server, linked, dev, agent>>

\* The end of handleAgentWS, not replaced: closeAgentScreens unlists the sessions of
\* the device and closes their browsers.
ServerNotices ==
  /\ conn = "broken" /\ router = "idle"
  /\ conn' = "closed" /\ fromAgent' = <<>>
  /\ IF listed THEN listed' = FALSE /\ CloseBrowser
               ELSE UNCHANGED <<listed, wsOpen, down, up>>
  /\ UNCHANGED <<b, handler, endState, transport, row, router, linked, dev, toAgent, agent>>

\* The read of connectOnce fails: a.ws is nil ...
AgentNotices ==
  /\ dev = "up" /\ conn # "up" /\ ctl = "idle"
  /\ dev' = "lost" /\ toAgent' = <<>>
  /\ UNCHANGED <<browser, down, server, linked, conn, fromAgent, agent>>

HasPeer == pc \in {"made", "described"}

\* closeBrowserDirect: the peer connection, its channel and its VNC connection.
CloseDirect ==
  /\ pc' = IF HasPeer THEN "closed" ELSE pc
  /\ vnc' = IF HasPeer THEN "closed" ELSE vnc
  /\ dch' = IF HasPeer THEN "closed" ELSE dch
  /\ reg' = FALSE /\ pend' = FALSE

\* ... then cleanupSessions closes what the maps hold; the link is in none.
CleanupSessions ==
  /\ dev = "lost" /\ dev' = "down"
  /\ CloseDirect
  /\ UNCHANGED <<browser, down, server, linked, conn, toAgent, fromAgent, ctl, screen, frames,
                 offer, onOpen, bridge, chq>>

\* Run connects again; the server replaces the old connection and keeps its screens.
Reconnect ==
  /\ dev = "down" /\ dev' = "back" /\ router = "idle"
  /\ conn' = "closed" /\ fromAgent' = IF conn = "broken" THEN <<>> ELSE fromAgent
  /\ UNCHANGED <<browser, down, server, linked, toAgent, agent>>

\* Agent.send, on the connection of the moment.
Sends == dev = "back" \/ (dev = "up" /\ conn = "up")
SendErr == ~Sends
Sent(q, m) == IF Sends THEN Append(q, m) ELSE q

-----------------------------------------------------------------------------
(* The agent's control loop.                                               *)

Handles(m) == dev = "up" /\ ctl = "idle" /\ toAgent # <<>> /\ Head(toAgent) = m
notAgent == <<browser, down, server, linked, control>>

RTCOffer ==
  /\ Handles("offer") /\ toAgent' = Tail(toAgent)
  /\ offer' = "dial"
  /\ UNCHANGED <<notAgent, fromAgent, ctl, screen, frames, onOpen, bridge, path, chq>>

\* handleBrowserICE: the check and the append are two critical sections.
RTCICE ==
  /\ Handles("ice") /\ toAgent' = Tail(toAgent)
  /\ ctl' = IF pc = "described" THEN "idle" ELSE "buffer"
  /\ UNCHANGED <<notAgent, fromAgent, screen, frames, direct, chq>>

BufferCandidate ==
  /\ ctl = "buffer" /\ ctl' = "idle"
  /\ pend' = TRUE
  /\ UNCHANGED <<notAgent, toAgent, fromAgent, screen, frames, offer, onOpen, bridge, pc, vnc,
                 dch, reg, chq>>

\* startBrowserDesktop: the console is listening, so the stream may flow.
RTCReady ==
  /\ Handles("ready") /\ toAgent' = Tail(toAgent)
  /\ bridge' = IF HasPeer /\ reg /\ dch = "open" THEN "read" ELSE bridge
  /\ UNCHANGED <<notAgent, fromAgent, ctl, screen, frames, offer, onOpen, path, chq>>

\* rtc:relay and rtc:stop.
RTCClose ==
  /\ Handles("relay") \/ Handles("rtcstop")
  /\ toAgent' = Tail(toAgent)
  /\ CloseDirect
  /\ UNCHANGED <<notAgent, fromAgent, ctl, screen, frames, offer, onOpen, bridge, chq>>

ScreenStart ==
  /\ Handles("sstart") /\ toAgent' = Tail(toAgent)
  /\ screen' = "dial"
  /\ UNCHANGED <<notAgent, fromAgent, ctl, frames, direct, chq>>

-----------------------------------------------------------------------------
(* startScreenLink and bridgeScreen, in a goroutine of their own.          *)

notScreen == <<browser, down, server, control, toAgent, fromAgent, ctl, direct, chq>>

LinkDial ==
  /\ screen = "dial" /\ screen' = "vnc"
  /\ linker' = "look" /\ link' = "open"
  /\ UNCHANGED <<notScreen, linkSet, lq, frames>>

\* Both failures are only logged: the server is told nothing.
LinkDialFails ==
  /\ screen = "dial" /\ screen' = "done"
  /\ UNCHANGED <<notScreen, linked, frames>>

VncDial ==
  /\ screen = "vnc" /\ screen' = "bridge"
  /\ UNCHANGED <<notScreen, linked, frames>>

VncDialFails ==
  /\ screen = "vnc" /\ screen' = "done"
  /\ link' = Cut(link)
  /\ UNCHANGED <<notScreen, linker, linkSet, lq, frames>>

LinkFrame ==
  /\ screen = "bridge" /\ link = "open" /\ frames < MaxFrames
  /\ lq' = lq + 1 /\ frames' = frames + 1
  /\ UNCHANGED <<notScreen, linker, linkSet, link, screen>>

\* The first direction to fail closes the link and the VNC connection.
BridgeEnds ==
  /\ screen = "bridge" /\ screen' = "done"
  /\ link' = Cut(link)
  /\ UNCHANGED <<notScreen, linker, linkSet, lq, frames>>

BridgeEndsCut == link = "cut" /\ BridgeEnds

-----------------------------------------------------------------------------
(* handleBrowserOffer, in a goroutine of its own.                          *)

\* failBrowserDirect: report and close, unless it is closed already.
FailDirect ==
  IF HasPeer
  THEN fromAgent' = Sent(fromAgent, "derr") /\ CloseDirect
  ELSE UNCHANGED <<fromAgent, path>>

notOffer == <<notAgent, toAgent, ctl, screen, frames, onOpen, bridge, chq>>

\* The VNC server is dialled first, for up to five seconds ...
OfferDial ==
  /\ offer = "dial" /\ offer' = "make"
  /\ vnc' = "open"
  /\ UNCHANGED <<notOffer, fromAgent, pc, pend, dch, reg>>

OfferDialFails ==
  /\ offer = "dial" /\ offer' = "done"
  /\ fromAgent' = Sent(fromAgent, "derr")
  /\ UNCHANGED <<notOffer, path>>

\* ... then the peer connection made and both stored.
OfferMake ==
  /\ offer = "make" /\ offer' = "describe"
  /\ pc' = "made"
  /\ UNCHANGED <<notOffer, fromAgent, vnc, pend, dch, reg>>

OfferMakeFails ==
  /\ offer = "make" /\ offer' = "done"
  /\ vnc' = "closed"
  /\ fromAgent' = Sent(fromAgent, "derr")
  /\ UNCHANGED <<notOffer, pc, pend, dch, reg>>

\* SetRemoteDescription; a closed peer connection refuses it.
OfferDescribe ==
  /\ offer = "describe"
  /\ IF HasPeer THEN pc' = "described" /\ offer' = "answer"
     ELSE offer' = "done" /\ UNCHANGED pc
  /\ UNCHANGED <<notOffer, fromAgent, vnc, pend, dch, reg>>

flushPendingCandidates == pend' = FALSE

\* Buffered candidates are flushed and the answer is sent, perhaps by a peer
\* connection that was closed after it had made it.
OfferAnswer ==
  /\ offer = "answer" /\ offer' = "done"
  /\ \/ /\ HasPeer /\ fromAgent' = Sent(fromAgent, "answer")
        /\ flushPendingCandidates /\ UNCHANGED <<pc, vnc, dch, reg>>
     \/ HasPeer /\ SendErr /\ FailDirect
     \/ /\ ~HasPeer /\ fromAgent' \in {fromAgent, Sent(fromAgent, "answer")}
        /\ flushPendingCandidates /\ UNCHANGED <<pc, vnc, dch, reg>>
  /\ UNCHANGED notOffer

\* The offer is refused, or the answer cannot be made.
OfferFails ==
  /\ offer \in {"describe", "answer"} /\ offer' = "done"
  /\ FailDirect
  /\ UNCHANGED notOffer

\* OnICEConnectionStateChange: failed, or a candidate that cannot be sent.  (The
\* candidates the device does send take the way of the answer and are left out.)
IceFails ==
  /\ HasPeer /\ offer = "done"
  /\ FailDirect
  /\ UNCHANGED <<notOffer, offer>>

\* ... because the browser has closed its end.
IceFailsAlone == b.peer = "closed" /\ IceFails

-----------------------------------------------------------------------------
(* The agent's data channel and bridgeBrowserDesktop.                      *)

notChannel == <<notAgent, toAgent, ctl, screen, offer>>

AgentChannelOpens ==
  /\ Connected /\ dch = "none"
  /\ dch' = "open" /\ onOpen' = "pending"
  /\ UNCHANGED <<notChannel, fromAgent, frames, bridge, pc, vnc, pend, reg, chq>>

Register ==
  /\ reg' = TRUE /\ fromAgent' = Sent(fromAgent, "ok")
  /\ UNCHANGED <<pc, vnc, pend, dch>>

\* Faulty variant: the stream flows as soon as the channel is open.
OnOpenBridges ==
  /\ onOpen = "pending" /\ onOpen' = "done"
  /\ Register
  /\ bridge' = IF dch = "open" THEN "read" ELSE bridge
  /\ UNCHANGED <<notChannel, frames, chq>>

\* OnOpen runs in a goroutine: the channel may be closed by now.  It is registered
\* and acknowledged; an acknowledgement that cannot be sent undoes it.
OnOpen ==
  /\ onOpen = "pending" /\ onOpen' = "done"
  /\ \/ Register
     \/ SendErr /\ HasPeer /\ FailDirect
  /\ UNCHANGED <<notChannel, frames, bridge, chq>>

\* OnClose.
AgentChannelCloses ==
  /\ dch = "open" /\ b.peer = "closed"
  /\ dch' = "closed" /\ reg' = FALSE
  /\ UNCHANGED <<notChannel, fromAgent, onOpen, frames, bridge, pc, vnc, pend, chq>>

\* A read of the VNC connection goes to the channel, or fails the direct path.
BridgeFrame ==
  /\ bridge = "read" /\ vnc = "open" /\ frames < MaxFrames
  /\ frames' = frames + 1
  /\ IF dch = "open"
     THEN chq' = chq + 1 /\ UNCHANGED <<fromAgent, path, bridge>>
     ELSE FailDirect /\ bridge' = "done" /\ UNCHANGED chq
  /\ UNCHANGED <<notChannel, onOpen>>

\* The VNC connection has been closed on this side.
BridgeClosed ==
  /\ bridge = "read" /\ vnc = "closed" /\ bridge' = "done"
  /\ IF reg THEN FailDirect ELSE UNCHANGED <<fromAgent, path>>
  /\ UNCHANGED <<notChannel, onOpen, frames, chq>>

\* The VNC server ends the connection: the bridge's read, or the write of a frame
\* that comes from the channel, fails.
VncFails ==
  /\ HasPeer /\ dch = "open"
  /\ FailDirect
  /\ bridge' = IF bridge = "read" THEN "done" ELSE bridge
  /\ UNCHANGED <<notChannel, onOpen, frames, chq>>

-----------------------------------------------------------------------------
Init ==
  /\ b = NewView
  /\ up = <<>> /\ down = <<>>
  /\ handler = "start" /\ endState = "closed" /\ transport = "negotiating" /\ listed = FALSE
  /\ wsOpen = TRUE /\ row = [state |-> "none", transport |-> "negotiating"] /\ router = "idle"
  /\ linker = "none" /\ linkSet = FALSE /\ link = "none" /\ lq = 0
  /\ conn = "up" /\ toAgent = <<>> /\ fromAgent = <<>> /\ dev = "up" /\ ctl = "idle"
  /\ screen = "none" /\ frames = 0 /\ offer = "none" /\ pc = "none" /\ vnc = "none"
  /\ pend = FALSE /\ dch = "none" /\ onOpen = "none" /\ reg = FALSE /\ bridge = "none"
  /\ chq = 0 /\ events = 0

View == \/ SocketOpen \/ NegotiateOffer \/ DirectDeadline \/ HandshakeDeadline \/ Receive
        \/ RelayFrame \/ SocketClosed \/ ChannelOpens \/ ChannelFrame \/ NoticeClosed
Handler == \/ StartScreen \/ HandleSignal \/ HandleFallback \/ RecordRelay \/ LinkReady
           \/ LinkTimeout \/ CopyUp \/ CopyDown \/ RelayEnds \/ HandlerReadError \/ Unlist
           \/ EndHandler
Linker == LinkLook \/ LinkEnd
Router == RouteRTC \/ WriteRTC
Control == \/ RTCOffer \/ RTCICE \/ BufferCandidate \/ RTCReady \/ RTCClose \/ ScreenStart
           \/ AgentNotices \/ CleanupSessions
Screen == LinkDial \/ VncDial \/ BridgeEndsCut
Offerer == OfferDial \/ OfferMake \/ OfferDescribe \/ OfferAnswer

\* What the device, the network and the peer connection do when they please.
Free == \/ PeerConnecting \/ Reconnect \/ AgentChannelOpens \/ AgentChannelCloses
        \/ LinkFrame \/ BridgeFrame

\* What the peer gathers and the user does, how the stream ends, what goes wrong.
Event == \/ SendCandidate \/ RfbSend \/ RfbDisconnect \/ SecurityFailure \/ Dispose
         \/ SocketFails \/ PathFails \/ LinkBreaks \/ CreateThrows \/ NegotiateFails
         \/ AnswerRejected \/ LinkDialFails \/ VncDialFails \/ BridgeEnds \/ OfferDialFails
         \/ OfferMakeFails \/ OfferFails \/ IceFails \/ VncFails

Step == \/ View \/ Handler \/ Linker \/ Router \/ Control \/ Screen \/ Offerer \/ OnOpen
        \/ BridgeClosed \/ ServerNotices \/ IceFailsAlone

Next == \/ (Step \/ Free) /\ UNCHANGED events
        \/ events < MaxEvents /\ events' = events + 1 /\ Event

Spec == Init /\ [][Next]_vars

\* Goroutines, timers and event loops run; a broken connection and a closed peer are
\* noticed in the end.  Users, devices and networks owe nothing.  No step can repeat
\* for ever, so one condition for all of them starves none.
Fairness == WF_vars(Step /\ UNCHANGED events)

FairSpec == Spec /\ Fairness

-----------------------------------------------------------------------------
(* Properties.                                                             *)

In(q) == {q[i] : i \in DOMAIN q}

\* Once the socket carries the framebuffer protocol it carries nothing else: no
\* message of the router or the handler follows rtc:relay to noVNC, and no message
\* of the console follows rtc:fallback into the device's VNC server, although an
\* offer may still be under way on one side and an answer on the other.
StreamsUnmixed ==
  /\ b.rfb = "relay" => In(down) \subseteq {"rfb", "close"}
  /\ handler = "relay" => In(up) \subseteq {"rfb", "bye"}
  /\ handler \in {"read", "record", "wait"} => "rfb" \notin In(up)

\* A desktop the user sees live is recorded on the path it really runs on, in the
\* session and in its row, whatever order direct-ok, fallback and handshake took.
PathRecorded == b.live => transport = b.rfb /\ row.transport = b.rfb

\* The device's stream begins with a greeting that is sent once: none of it reaches
\* the console's channel before noVNC listens there (startBrowserDesktop waits for
\* rtc:ready).
GreetingHeard == [][chq' < chq => b.rfb = "direct"]_vars

\* The session is over for the user, or live.
Settled == b.disposed \/ b.stage \in {"disconnected", "error"} \/ b.live

\* Whatever fails, the console does not wait for ever: it always comes (back) to a
\* live desktop or to an end it shows, even though a device that cannot open its
\* link or reach its VNC server tells nobody.
AlwaysSettles == []<>Settled

\* Nothing of the session is left on the server, and on the device nothing but, at
\* most, the entries of a closed channel in a.browserChannels and a.browserDirect.
Gone == /\ handler = "gone" /\ ~listed /\ row.state # "active" /\ linker \in {"none", "gone"}
        /\ link # "open" /\ screen \in {"none", "done"}
        /\ ~HasPeer /\ vnc # "open" /\ ~pend /\ bridge # "read" /\ (reg => dch = "closed")

\* A console that closes or loses its socket frees the session in the end: both
\* handlers, the row, the link, both VNC connections and the peer connection,
\* although an offer may be dialling and a link arriving while the rest goes.  What an
\* OnOpen callback that was pending when rtc:stop arrived registers, unlike the one of
\* a terminal without a look at the session, is not freed: the entries of a channel
\* that is closed, which startBrowserDesktop does not bridge.
Released == b.sock \in {"closing", "closed"} ~> Gone
=============================================================================
