------------------------------ MODULE Terminal ------------------------------
(***************************************************************************)
(* One terminal of the console: TerminalView in the browser                *)
(* (web/src/App.tsx; its stages are in SessionStage), the socket           *)
(* handler and the router of the server (internal/server/terminal.go,      *)
(* agentws.go) and the shell and the direct path of the agent              *)
(* (internal/agent/agent.go, browser_direct.go, session_unix.go).          *)
(*                                                                         *)
(* The terminal starts on the server's relay, tries a WebRTC data channel  *)
(* and falls back to the relay for good.  Bytes are abstracted to frames;  *)
(* what is typed on the data channel changes no state and is left out.     *)
(* The peer connection itself is a library: its two ends open when both    *)
(* descriptions are in place, it may fail at any time, and a closed end is *)
(* noticed by the other.                                                   *)
(***************************************************************************)
EXTENDS Integers, Sequences, SessionStage

CONSTANTS MaxOut,    \* bound: reads of the shell's output
          MaxEvents  \* bound: candidates, inputs, departures, exits and failures

ASSUME BoundAssumption == MaxOut \in Nat /\ MaxEvents \in Nat

VARIABLES
  b,          \* the variables of TerminalView, a record: see NewView
  up, down,   \* frames on the browser socket, to and from the server
  handler,    \* where handleTerminalWS is
  transport,  \* sess.transport
  listed,     \* the session is in s.terms
  wsOpen,     \* the server's end of the browser socket
  gaveUp,     \* history: the handler left its loop on a failed write of a signal
              \* or on the read deadline
  row,        \* the connections row: state and transport
  router,     \* what routeAgentMessage has left to do
  conn,       \* the handler's device connection: "up", "broken" (not noticed), "closed"
  toAgent, fromAgent, \* messages on it
  dev,        \* the agent: "up", "lost" (a.ws is nil), "down" (cleaned up), "back"
  ctl,        \* its control loop: "idle", or "buffer" inside handleBrowserICE
  sess,       \* the shell is in a.sessions
  shell,      \* "none", "running" or "closed"
  reader,     \* its readLoop: "none", "read", "send" (on the channel) or "done"
  outs,       \* reads of output so far
  offer,      \* handleBrowserOffer: "none", "look", "make", "describe", "answer", "done"
  pc,         \* its peer connection: "none", "made" or "described" (it is in
              \* a.peerConns), or "closed"
  pend,       \* a candidate is in a.pendingCandidates
  dch,        \* the agent's end of the data channel: "none", "open" or "closed"
  onOpen,     \* its OnOpen callback: "none", "pending" or "done"
  reg,        \* the channel is in a.browserChannels and a.browserDirect
  chq,        \* outputs in transit on the channel
  told,       \* history: the agent has handled rtc:relay
  events      \* candidates, inputs, departures, exits and failures so far

browser == <<b, up>>
session == <<transport, listed, gaveUp>>
link == <<conn, dev>>
sh == <<sess, shell, reader, outs>>
path == <<pc, pend, dch, reg>>
direct == <<offer, onOpen, path>>
agent == <<ctl, sh, direct, chq, told>>
server == <<handler, session, wsOpen, row, router>>
vars == <<browser, down, server, link, toAgent, fromAgent, agent, events>>

-----------------------------------------------------------------------------
(* TerminalView.                                                           *)

NewView ==
  [sock |-> "connecting", disposed |-> FALSE, requested |-> FALSE, acked |-> FALSE,
   directActive |-> FALSE, relayActive |-> FALSE, received |-> FALSE, live |-> FALSE,
   directTimer |-> FALSE, relayTimer |-> FALSE, \* the deadlines are armed
   stage |-> "setup", offer |-> "none",
   peer |-> "none", answered |-> FALSE,         \* the peer, and it has the answer
   chan |-> "none",                             \* channel.readyState
   failed |-> FALSE]                            \* history: terminal:error came

\* Faulty variant: any output proves the session live.
AnyOutputIsLive(directActive, relayActive) == TRUE

terminalOutputIsLive(directActive, relayActive) == directActive \/ relayActive

markLive(x) ==
  [x EXCEPT !.live = TRUE, !.directTimer = FALSE, !.relayTimer = FALSE,
            !.stage = markConnected(@)]

\* peer.close() of the console closes its end of the channel too.
ClosePeer(x) ==
  [x EXCEPT !.peer = IF @ = "open" THEN "closed" ELSE @,
            !.chan = IF @ = "open" THEN "closed" ELSE @]

\* socket.close(): no frame is handled any more, and the server reads an error
\* after the frames sent before.
CloseSocket(x) == [x EXCEPT !.sock = IF @ = "open" THEN "closing" ELSE @]

\* Frames sent to an end the server has closed vanish.
Sending(q, m) == IF wsOpen THEN Append(q, m) ELSE q
Send(x, m) == up' = IF x.sock = "open" THEN Sending(up, m) ELSE up

FellBack(x) ==
  [ClosePeer(x) EXCEPT
     !.live = FALSE, !.requested = TRUE, !.directActive = FALSE, !.directTimer = FALSE,
     !.relayTimer = @ \/ x.sock = "open",
     !.stage = LET s == applyStage(@, "switching")
               IN  IF x.sock = "open" THEN s ELSE markFailed(s)]

\* startFallback(failed) in state x of the view.
startFallback(x, failed) ==
  IF canFallback(x, failed)
  THEN /\ b' = FellBack(x)
       /\ Send(x, "fallback")
  ELSE b' = x /\ UNCHANGED up

activateDirect(x) ==
  IF x.acked /\ x.chan = "open" /\ ~x.requested
  THEN markLive([x EXCEPT !.directActive = TRUE])
  ELSE x

notBrowser == <<server, link, toAgent, fromAgent, ctl, sh, direct, told>>

\* socket.onopen: arm the budget and create the peer ...
Opened == [b EXCEPT !.sock = "open", !.directTimer = TRUE,
                    !.stage = startBudget(@)]

SocketOpen ==
  /\ b.sock = "connecting"
  /\ b' = [Opened EXCEPT !.peer = "open", !.offer = "making"]
  /\ UNCHANGED <<up, down, chq, notBrowser>>

\* ... or fall back if that throws.
CreateThrows ==
  /\ b.sock = "connecting"
  /\ startFallback(Opened, FALSE)
  /\ UNCHANGED <<down, chq, notBrowser>>

\* negotiateOffer: the offer is sent unless the peer has been closed meanwhile ...
NegotiateOffer ==
  /\ b.offer = "making"
  /\ LET x == [b EXCEPT !.offer = "made"]
     IN  \/ b.peer = "closed" /\ b' = x /\ UNCHANGED up
         \/ b.peer = "open" /\ b.sock = "open" /\ b' = x /\ Send(b, "offer")
         \/ b.peer = "open" /\ b.sock # "open" /\ startFallback(x, TRUE)
  /\ UNCHANGED <<down, chq, notBrowser>>

\* ... and the failure of an open peer is reported.
NegotiateFails ==
  /\ b.offer = "making" /\ b.peer = "open"
  /\ startFallback([b EXCEPT !.offer = "made"], TRUE)
  /\ UNCHANGED <<down, chq, notBrowser>>

\* peer.onicecandidate.
SendCandidate ==
  /\ b.offer = "made" /\ b.peer = "open" /\ b.sock = "open"
  /\ Send(b, "ice")
  /\ UNCHANGED <<b, down, chq, notBrowser>>

\* onStateChange of a peer that is connecting.
PeerConnecting ==
  /\ b.peer = "open" /\ ~b.disposed
  /\ b' = [b EXCEPT !.stage = applyStage(@, "checking")]
  /\ UNCHANGED <<up, down, chq, notBrowser>>

DirectDeadline ==
  /\ b.directTimer
  /\ startFallback([b EXCEPT !.directTimer = FALSE], FALSE)
  /\ UNCHANGED <<down, chq, notBrowser>>

RelayDeadline ==
  /\ b.relayTimer
  /\ b' = CloseSocket([b EXCEPT !.relayTimer = FALSE, !.stage = markFailed(@)])
  /\ Send(b, "bye") /\ down' = <<>>
  /\ UNCHANGED <<chq, notBrowser>>

\* socket.onmessage for the frames of the direct path ...
OnSignal(m) ==
  \/ /\ m = "answer" /\ UNCHANGED up
     /\ b' = IF b.peer = "none" \/ b.requested THEN b
             ELSE [b EXCEPT !.stage = applyStage(@, "negotiating"), !.answered = TRUE]
  \/ m = "ok" /\ b' = activateDirect([b EXCEPT !.acked = TRUE]) /\ UNCHANGED up
  \/ m = "derr" /\ startFallback(b, TRUE)

\* ... of the relay ...
OnRelay ==
  LET x == [ClosePeer(b) EXCEPT
              !.directActive = FALSE, !.relayActive = TRUE, !.requested = TRUE,
              !.directTimer = FALSE, !.stage = markRelaying(@)]
  IN  /\ b' = IF x.received THEN markLive(x) ELSE [x EXCEPT !.relayTimer = TRUE]
      /\ Send(b, "input")

OnOutput ==
  LET x == [b EXCEPT !.received = TRUE]
  IN  /\ b' = IF terminalOutputIsLive(x.directActive, x.relayActive) THEN markLive(x) ELSE x
      /\ UNCHANGED up

Received == b.sock = "open" /\ ~b.disposed /\ down # <<>> /\ Head(down) # "close"

Receive ==
  /\ Received
  /\ \/ OnSignal(Head(down))
     \/ Head(down) = "relay" /\ OnRelay
     \/ Head(down) = "output" /\ OnOutput
  /\ down' = Tail(down)
  /\ UNCHANGED <<chq, notBrowser>>

\* ... and of the shell's end, which closes the socket.
ReceiveEnd ==
  /\ Received /\ Head(down) \in {"exit", "error"}
  /\ b' = CloseSocket([b EXCEPT !.stage = markDisconnected(@),
                                !.failed = @ \/ Head(down) = "error"])
  /\ Send(b, "bye") /\ down' = <<>>
  /\ UNCHANGED <<chq, notBrowser>>

\* setRemoteDescription rejects the answer.
AnswerRejected ==
  /\ Received /\ Head(down) = "answer" /\ b.peer # "none" /\ ~b.requested
  /\ startFallback([b EXCEPT !.stage = applyStage(@, "negotiating")], FALSE)
  /\ down' = Tail(down)
  /\ UNCHANGED <<chq, notBrowser>>

\* socket.onclose in state x of the view.  What no handler reads any more is reset.
Closed(x) ==
  [NewView EXCEPT !.sock = "closed", !.requested = TRUE, !.peer = "closed", !.chan = "closed",
                  !.offer = x.offer, !.stage = markDisconnected(x.stage),
                  !.relayActive = x.relayActive, !.failed = x.failed]

\* The server has closed the socket, or the close of this side is complete.
SocketClosed ==
  /\ \/ b.sock = "closing"
     \/ b.sock = "open" /\ down # <<>> /\ Head(down) = "close"
  /\ b' = Closed(b)
  /\ down' = <<>>
  /\ UNCHANGED <<up, chq, notBrowser>>

\* The socket breaks, or never opens: onerror, then onclose; frames in transit are lost.
SocketFails ==
  /\ b.sock \in {"connecting", "open"} /\ ~b.disposed
  /\ b' = Closed([b EXCEPT !.stage = markFailed(@)])
  /\ \E n \in 0..Len(up) : up' = Sending(SubSeq(up, 1, n), "bye")
  /\ down' = <<>>
  /\ UNCHANGED <<chq, notBrowser>>

\* term.onData, and a resize, while the channel is not in use.
Type ==
  /\ b.sock = "open" /\ ~(b.directActive /\ b.chan = "open")
  /\ Send(b, "input")
  /\ UNCHANGED <<b, down, chq, notBrowser>>

\* The user leaves the page: every handler is off from now on.  Only an open socket
\* takes the terminal:stop.  (Leaving after the end of the socket changes nothing.)
Dispose ==
  /\ b.sock \in {"connecting", "open"}
  /\ b' = [Closed(b) EXCEPT !.disposed = TRUE]
  /\ up' = Sending(IF b.sock = "open" THEN Sending(up, "stop") ELSE up, "bye")
  /\ down' = <<>>
  /\ UNCHANGED <<chq, notBrowser>>

\* Both descriptions are in place and neither end is closed.
Connected == b.peer = "open" /\ b.answered /\ pc = "described"

ChannelOpens ==
  /\ Connected /\ b.chan = "none"
  /\ b' = activateDirect([b EXCEPT !.chan = "open"])
  /\ UNCHANGED <<up, down, chq, notBrowser>>

\* channel.onmessage.
ChannelMessage ==
  /\ chq > 0 /\ b.chan = "open"
  /\ chq' = chq - 1
  /\ b' = IF b.disposed \/ b.requested THEN b ELSE markLive(b)
  /\ UNCHANGED <<up, down, notBrowser>>

\* The peer fails or disconnects, or channel.onclose or onerror runs.
PathFails ==
  /\ b.peer = "open"
  /\ startFallback([b EXCEPT !.chan = IF @ = "open" THEN "closed" ELSE @], TRUE)
  /\ UNCHANGED <<down, chq, notBrowser>>

\* ... because the agent has closed its end.
NoticeClosed == b.chan = "open" /\ "closed" \in {pc, dch} /\ PathFails

-----------------------------------------------------------------------------
(* handleTerminalWS.  A write to a broken connection fails or vanishes.    *)

WriteOK == conn # "closed"
WriteErr == conn # "up"
ToAgent(m) == toAgent' = IF conn = "up" THEN Append(toAgent, m) ELSE toAgent
ToBrowser(m) ==
  down' = IF wsOpen /\ b.sock \in {"connecting", "open"} THEN Append(down, m) ELSE down

\* EndConnection, through trafficRecorder.Close: the first state stays.
EndRow(state) == [row EXCEPT !.state = IF @ = "active" THEN state ELSE @]

\* The router holds sessionsMu from the look-up to its write.
Locked == router \in {"answer", "ok", "derr"}

ReadFrame(ms) == handler = "read" /\ wsOpen /\ up # <<>> /\ Head(up) \in ms

\* The session is listed and the shell asked for.
StartTerminal ==
  /\ handler = "start" /\ ~Locked
  /\ listed' = TRUE
  /\ \/ /\ WriteOK /\ ToAgent("start") /\ handler' = "read"
        /\ row' = [row EXCEPT !.state = "active"]
     \/ /\ WriteErr /\ UNCHANGED toAgent /\ handler' = "unlist"
        /\ row' = [row EXCEPT !.state = "failed"]
  /\ UNCHANGED <<browser, down, transport, gaveUp, wsOpen, router, link, fromAgent, agent>>

\* rtc:offer and rtc:ice are dropped once the session relays.
HandleSignal ==
  /\ ReadFrame({"offer", "ice"}) /\ ~Locked
  /\ up' = Tail(up)
  /\ \/ transport = "relay" /\ UNCHANGED <<toAgent, handler, gaveUp>>
     \/ transport # "relay" /\ WriteOK /\ ToAgent(Head(up)) /\ UNCHANGED <<handler, gaveUp>>
     \/ /\ transport # "relay" /\ WriteErr /\ UNCHANGED toAgent
        /\ handler' = "unlist" /\ gaveUp' = TRUE
  /\ UNCHANGED <<b, down, transport, listed, wsOpen, row, router, link, fromAgent, agent>>

\* Faulty variant: rtc:fallback does not wait for sessionsMu.
HandleFallbackUnlocked ==
  /\ ReadFrame({"fallback"})
  /\ up' = Tail(up)
  /\ transport' = "relay"
  /\ handler' = IF transport = "relay" THEN "read" ELSE "record"
  /\ UNCHANGED <<b, down, listed, gaveUp, wsOpen, row, router, link, toAgent, fromAgent,
                 agent>>

HandleFallback ==
  /\ ReadFrame({"fallback"}) /\ ~Locked
  /\ up' = Tail(up)
  /\ transport' = "relay"
  /\ handler' = IF transport = "relay" THEN "read" ELSE "record"
  /\ UNCHANGED <<b, down, listed, gaveUp, wsOpen, row, router, link, toAgent, fromAgent,
                 agent>>

\* The row is written outside the mutex; then both ends are told.
RecordRelay ==
  /\ handler = "record" /\ handler' = "read"
  /\ row' = [row EXCEPT !.transport = "relay"]
  /\ ToAgent("relay") /\ ToBrowser("relay")
  /\ UNCHANGED <<browser, session, wsOpen, router, link, fromAgent, agent>>

\* terminal:input, resize and stop; a stop ends the handler.
HandleInput ==
  /\ ReadFrame({"input", "stop"})
  /\ up' = Tail(up)
  /\ \/ /\ WriteOK /\ ToAgent(Head(up)) /\ UNCHANGED row
        /\ handler' = IF Head(up) = "stop" THEN "unlist" ELSE "read"
     \/ WriteErr /\ row' = EndRow("failed") /\ handler' = "unlist" /\ UNCHANGED toAgent
  /\ UNCHANGED <<b, down, session, wsOpen, router, link, fromAgent, agent>>

\* Faulty variant: the agent is not told that the console is gone.
ReadErrorSilent ==
  /\ handler = "read"
  /\ ~wsOpen \/ (up # <<>> /\ Head(up) = "bye")
  /\ handler' = "unlist"
  /\ UNCHANGED <<browser, down, session, wsOpen, row, router, link, toAgent, fromAgent, agent>>

ReadError ==
  /\ handler = "read"
  /\ ~wsOpen \/ (up # <<>> /\ Head(up) = "bye")
  /\ ToAgent("stop") /\ handler' = "unlist"
  /\ UNCHANGED <<browser, down, session, wsOpen, row, router, link, fromAgent, agent>>

\* The read deadline passes: no pong has come for browserPongWait.
ReadTimesOut ==
  /\ handler = "read"
  /\ ToAgent("stop") /\ handler' = "unlist" /\ gaveUp' = TRUE
  /\ UNCHANGED <<browser, down, transport, listed, wsOpen, row, router, link, fromAgent, agent>>

\* The deferred calls, last registered first: the session is unlisted ...
Unlist ==
  /\ handler = "unlist" /\ ~Locked
  /\ listed' = FALSE /\ ToAgent("rtcstop") /\ handler' = "close"
  /\ UNCHANGED <<browser, down, transport, gaveUp, wsOpen, row, router, link, fromAgent, agent>>

CloseBrowser == wsOpen' = FALSE /\ ToBrowser("close") /\ up' = <<>>

\* ... the row is ended ...
EndHandler ==
  /\ handler = "close" /\ handler' = "hangup"
  /\ row' = EndRow("closed")
  /\ UNCHANGED <<browser, down, session, wsOpen, router, link, toAgent, fromAgent, agent>>

\* ... and the socket closed.
HangUp ==
  /\ handler = "hangup" /\ handler' = "gone"
  /\ CloseBrowser
  /\ UNCHANGED <<b, session, row, router, link, toAgent, fromAgent, agent>>

-----------------------------------------------------------------------------
(* routeAgentMessage and routeBrowserRTC.                                  *)

Routes(ms) == router = "idle" /\ fromAgent # <<>> /\ Head(fromAgent) \in ms

RouteOutput ==
  /\ Routes({"output"})
  /\ fromAgent' = Tail(fromAgent)
  /\ IF listed THEN ToBrowser("output") ELSE UNCHANGED down
  /\ UNCHANGED <<browser, server, link, toAgent, agent>>

\* terminal:exit and terminal:error: the session is looked up ...
RouteOutcome ==
  /\ Routes({"exit", "error"})
  /\ fromAgent' = Tail(fromAgent)
  /\ router' = IF listed THEN Head(fromAgent) ELSE "idle"
  /\ UNCHANGED <<browser, down, handler, session, wsOpen, row, link, toAgent, agent>>

\* ... its row is ended ...
RecordOutcome ==
  /\ \/ router = "exit" /\ row' = EndRow("closed") /\ router' = "exited"
     \/ router = "error" /\ row' = EndRow("failed") /\ router' = "errored"
  /\ UNCHANGED <<browser, down, handler, session, wsOpen, link, toAgent, fromAgent, agent>>

\* ... then the browser is told, the session unlisted and its socket closed.
EndSession ==
  /\ router \in {"exited", "errored"} /\ router' = "idle"
  /\ listed' = FALSE /\ wsOpen' = FALSE /\ up' = <<>>
  /\ down' = IF wsOpen /\ b.sock \in {"connecting", "open"}
             THEN down \o <<IF router = "errored" THEN "error" ELSE "exit", "close">>
             ELSE down
  /\ UNCHANGED <<b, handler, transport, gaveUp, row, link, toAgent, fromAgent, agent>>

\* routeBrowserRTC under sessionsMu: dropped once the session relays ...
RouteRTC ==
  /\ Routes({"answer", "ok", "derr"})
  /\ fromAgent' = Tail(fromAgent)
  /\ IF listed /\ transport # "relay"
     THEN /\ router' = Head(fromAgent)
          /\ transport' = IF Head(fromAgent) = "ok" THEN "direct" ELSE transport
     ELSE UNCHANGED <<router, transport>>
  /\ UNCHANGED <<browser, down, handler, listed, gaveUp, wsOpen, row, link, toAgent, agent>>

\* ... else recorded and written before the mutex is released.
WriteRTC ==
  /\ Locked
  /\ row' = [row EXCEPT !.transport = IF router = "ok" THEN "direct" ELSE @]
  /\ ToBrowser(router) /\ router' = "idle"
  /\ UNCHANGED <<browser, handler, session, wsOpen, link, toAgent, fromAgent, agent>>

-----------------------------------------------------------------------------
(* The device connection.                                                  *)

\* It breaks: each side still reads what had arrived.
LinkBreaks ==
  /\ conn = "up" /\ conn' = "broken"
  /\ \E n \in 0..Len(toAgent) : toAgent' = SubSeq(toAgent, 1, n)
  /\ \E n \in 0..Len(fromAgent) : fromAgent' = SubSeq(fromAgent, 1, n)
  /\ UNCHANGED <<browser, down, server, dev, agent>>

\* The end of handleAgentWS: forwards and screens are closed, terminals are not.
ServerNotices ==
  /\ conn = "broken" /\ router = "idle"
  /\ conn' = "closed" /\ fromAgent' = <<>>
  /\ UNCHANGED <<browser, down, server, dev, toAgent, agent>>

\* The read of connectOnce fails: a.ws is nil ...
AgentNotices ==
  /\ dev = "up" /\ conn # "up" /\ ctl = "idle"
  /\ dev' = "lost" /\ toAgent' = <<>>
  /\ UNCHANGED <<browser, down, server, conn, fromAgent, agent>>

HasPeer == pc \in {"made", "described"}

\* closeBrowserDirect.  A closed peer connection has no open channel.
CloseDirect ==
  /\ pc' = IF HasPeer THEN "closed" ELSE pc
  /\ dch' = IF HasPeer THEN "closed" ELSE dch
  /\ reg' = FALSE /\ pend' = FALSE

\* ... then every session of the connection is closed.
CleanupSessions ==
  /\ dev = "lost" /\ dev' = "down"
  /\ sess' = FALSE /\ shell' = IF sess THEN "closed" ELSE shell
  /\ CloseDirect
  /\ UNCHANGED <<browser, down, server, conn, toAgent, fromAgent, ctl, reader, outs, offer,
                 onOpen, chq, told>>

\* Run connects again; the server replaces the old connection.
Reconnect ==
  /\ dev = "down" /\ dev' = "back" /\ router = "idle"
  /\ conn' = "closed" /\ fromAgent' = IF conn = "broken" THEN <<>> ELSE fromAgent
  /\ UNCHANGED <<browser, down, server, toAgent, agent>>

\* Agent.send, on the connection of the moment.
Sends == dev = "back" \/ (dev = "up" /\ conn = "up")
SendErr == ~Sends
Sent(q, m) == IF Sends THEN Append(q, m) ELSE q

-----------------------------------------------------------------------------
(* The agent's control loop.                                               *)

Handles(m) == dev = "up" /\ ctl = "idle" /\ toAgent # <<>> /\ Head(toAgent) = m
notAgent == <<browser, down, server, link>>

TermStart ==
  /\ Handles("start") /\ toAgent' = Tail(toAgent)
  /\ sess' = TRUE /\ shell' = "running" /\ reader' = "read"
  /\ UNCHANGED <<notAgent, fromAgent, ctl, outs, direct, chq, told>>

TermStartFails ==
  /\ Handles("start") /\ toAgent' = Tail(toAgent)
  /\ fromAgent' = Sent(fromAgent, "error")
  /\ UNCHANGED <<notAgent, agent>>

\* Input and Resize act on the shell if it is there.
TermInput ==
  /\ Handles("input") /\ toAgent' = Tail(toAgent)
  /\ UNCHANGED <<notAgent, fromAgent, agent>>

TermStop ==
  /\ Handles("stop") /\ toAgent' = Tail(toAgent)
  /\ sess' = FALSE /\ shell' = IF sess THEN "closed" ELSE shell
  /\ UNCHANGED <<notAgent, fromAgent, ctl, reader, outs, direct, chq, told>>

RTCOffer ==
  /\ Handles("offer") /\ toAgent' = Tail(toAgent)
  /\ offer' = "look"
  /\ UNCHANGED <<notAgent, fromAgent, ctl, sh, onOpen, path, chq, told>>

\* handleBrowserICE: the check and the append are two critical sections.
RTCICE ==
  /\ Handles("ice") /\ toAgent' = Tail(toAgent)
  /\ ctl' = IF pc = "described" THEN "idle" ELSE "buffer"
  /\ UNCHANGED <<notAgent, fromAgent, sh, direct, chq, told>>

BufferCandidate ==
  /\ ctl = "buffer" /\ ctl' = "idle"
  /\ pend' = TRUE
  /\ UNCHANGED <<notAgent, toAgent, fromAgent, sh, offer, onOpen, pc, dch, reg,
                 chq, told>>

\* Faulty variant: rtc:relay leaves the direct path as it is.
RTCRelayIgnored ==
  /\ Handles("relay") /\ toAgent' = Tail(toAgent)
  /\ told' = TRUE
  /\ UNCHANGED <<notAgent, fromAgent, ctl, sh, direct, chq>>

RTCRelay ==
  /\ Handles("relay") /\ toAgent' = Tail(toAgent)
  /\ CloseDirect /\ told' = TRUE
  /\ UNCHANGED <<notAgent, fromAgent, ctl, sh, offer, onOpen, chq>>

RTCStop ==
  /\ Handles("rtcstop") /\ toAgent' = Tail(toAgent)
  /\ CloseDirect
  /\ UNCHANGED <<notAgent, fromAgent, ctl, sh, offer, onOpen, chq, told>>

-----------------------------------------------------------------------------
(* handleBrowserOffer, in a goroutine of its own.                          *)

\* failBrowserDirect: report and close, unless it is closed already.
FailDirect ==
  IF HasPeer
  THEN fromAgent' = Sent(fromAgent, "derr") /\ CloseDirect
  ELSE UNCHANGED <<fromAgent, path>>

notOffer == <<notAgent, toAgent, ctl, sh, onOpen, chq, told>>

\* The shell must be there, and the peer connection be made.
OfferLook ==
  /\ offer = "look"
  /\ \/ sess /\ offer' = "make" /\ UNCHANGED fromAgent
     \/ ~sess /\ offer' = "done" /\ fromAgent' = Sent(fromAgent, "derr")
  /\ UNCHANGED <<notOffer, path>>

OfferMake ==
  /\ offer = "make" /\ offer' = "describe"
  /\ pc' = "made"
  /\ UNCHANGED <<notOffer, fromAgent, pend, dch, reg>>

OfferMakeFails ==
  /\ offer = "make" /\ offer' = "done"
  /\ fromAgent' = Sent(fromAgent, "derr")
  /\ UNCHANGED <<notOffer, path>>

\* SetRemoteDescription; a closed peer connection refuses it.
OfferDescribe ==
  /\ offer = "describe"
  /\ IF HasPeer THEN pc' = "described" /\ offer' = "answer"
     ELSE offer' = "done" /\ UNCHANGED pc
  /\ UNCHANGED <<notOffer, fromAgent, pend, dch, reg>>

flushPendingCandidates == pend' = FALSE

\* Buffered candidates are flushed and the answer is sent.
OfferAnswer ==
  /\ offer = "answer" /\ offer' = "done"
  /\ \/ /\ HasPeer /\ fromAgent' = Sent(fromAgent, "answer")
        /\ flushPendingCandidates /\ UNCHANGED <<pc, dch, reg>>
     \/ HasPeer /\ SendErr /\ FailDirect
     \/ ~HasPeer /\ flushPendingCandidates /\ UNCHANGED <<fromAgent, pc, dch, reg>>
  /\ UNCHANGED notOffer

\* The offer is refused, or the answer cannot be made.
OfferFails ==
  /\ offer \in {"describe", "answer"} /\ offer' = "done"
  /\ FailDirect
  /\ UNCHANGED notOffer

\* OnICEConnectionStateChange: failed.
IceFails ==
  /\ HasPeer /\ offer = "done"
  /\ FailDirect
  /\ UNCHANGED <<notOffer, offer>>

\* ... because the browser has closed its end.
IceFailsAlone == b.peer = "closed" /\ IceFails

-----------------------------------------------------------------------------
(* The agent's data channel and the shell's output.                        *)

notChannel == <<notAgent, toAgent, ctl, offer, told>>

AgentChannelOpens ==
  /\ Connected /\ dch = "none"
  /\ dch' = "open" /\ onOpen' = "pending"
  /\ UNCHANGED <<notChannel, fromAgent, sh, pc, pend, reg, chq>>

Register ==
  /\ reg' = TRUE /\ fromAgent' = Sent(fromAgent, "ok")
  /\ UNCHANGED <<pc, pend, dch>>

\* OnOpen runs in a goroutine: the channel may be closed by now.  It is registered
\* and acknowledged; an acknowledgement that cannot be sent undoes it.
OnOpen ==
  /\ onOpen = "pending" /\ onOpen' = "done"
  /\ \/ sess /\ Register
     \/ sess /\ SendErr /\ HasPeer /\ FailDirect
     \/ ~sess /\ FailDirect
  /\ UNCHANGED <<notChannel, sh, chq>>

\* OnClose.
AgentChannelCloses ==
  /\ dch = "open" /\ b.peer = "closed"
  /\ dch' = "closed" /\ reg' = FALSE
  /\ UNCHANGED <<notChannel, fromAgent, onOpen, sh, pc, pend, chq>>

\* readLoop and sendTerminalOutput: the path is chosen ...
ReadOutput ==
  /\ reader = "read" /\ shell = "running" /\ outs < MaxOut
  /\ outs' = outs + 1
  /\ IF reg /\ dch = "open"
     THEN reader' = "send" /\ UNCHANGED fromAgent
     ELSE fromAgent' = Sent(fromAgent, "output") /\ UNCHANGED reader
  /\ UNCHANGED <<notChannel, onOpen, sess, shell, path, chq>>

\* ... and a channel that has closed since is given up for the relay.
SendOnChannel ==
  /\ reader = "send" /\ reader' = "read"
  /\ IF dch = "open"
     THEN chq' = chq + 1 /\ UNCHANGED <<fromAgent, path>>
     ELSE /\ fromAgent' = Sent(IF HasPeer THEN Sent(fromAgent, "derr") ELSE fromAgent,
                               "output")
          /\ IF HasPeer THEN CloseDirect ELSE UNCHANGED path
          /\ UNCHANGED chq
  /\ UNCHANGED <<notChannel, onOpen, sess, shell, outs>>

\* The shell exits, or has been closed: terminal:exit, then Close.
ReadEnds ==
  /\ reader = "read"
  /\ fromAgent' = Sent(fromAgent, "exit")
  /\ shell' = "closed" /\ reader' = "done"
  /\ UNCHANGED <<notChannel, onOpen, sess, outs, path, chq>>

ReadEndsClosed == shell = "closed" /\ ReadEnds

-----------------------------------------------------------------------------
Init ==
  /\ b = NewView
  /\ up = <<>> /\ down = <<>>
  /\ handler = "start" /\ transport = "negotiating" /\ listed = FALSE /\ wsOpen = TRUE
  /\ gaveUp = FALSE
  /\ row = [state |-> "none", transport |-> "negotiating"] /\ router = "idle"
  /\ conn = "up" /\ toAgent = <<>> /\ fromAgent = <<>> /\ dev = "up" /\ ctl = "idle"
  /\ sess = FALSE /\ shell = "none" /\ reader = "none" /\ outs = 0
  /\ offer = "none" /\ pc = "none" /\ pend = FALSE
  /\ dch = "none" /\ onOpen = "none" /\ reg = FALSE /\ chq = 0 /\ told = FALSE
  /\ events = 0

View == \/ SocketOpen \/ NegotiateOffer \/ DirectDeadline \/ RelayDeadline \/ Receive
        \/ ReceiveEnd \/ SocketClosed \/ ChannelOpens \/ ChannelMessage \/ NoticeClosed
Handler == \/ StartTerminal \/ HandleSignal \/ HandleFallback \/ RecordRelay
           \/ HandleInput \/ ReadError \/ Unlist \/ EndHandler \/ HangUp
Router == RouteOutput \/ RouteOutcome \/ RecordOutcome \/ EndSession \/ RouteRTC \/ WriteRTC
Control == \/ TermStart \/ TermInput \/ TermStop \/ RTCOffer \/ RTCICE \/ BufferCandidate
           \/ RTCRelay \/ RTCStop \/ AgentNotices \/ CleanupSessions
Offerer == OfferLook \/ OfferMake \/ OfferDescribe \/ OfferAnswer
Output == SendOnChannel \/ ReadEndsClosed

\* What the user, the shell and the peer connection do when they please.
Free == \/ PeerConnecting \/ Reconnect \/ AgentChannelOpens \/ AgentChannelCloses
        \/ ReadOutput

\* What the peer gathers and the user types, how the session ends, what goes wrong.
Event == \/ SendCandidate \/ Type \/ Dispose \/ ReadEnds \/ SocketFails \/ ReadTimesOut \/ PathFails
         \/ LinkBreaks \/ CreateThrows \/ NegotiateFails \/ AnswerRejected \/ TermStartFails
         \/ OfferMakeFails \/ OfferFails \/ IceFails

Step == \/ View \/ Handler \/ Router \/ Control \/ Offerer \/ OnOpen \/ Output
        \/ ServerNotices \/ IceFailsAlone

Next == \/ (Step \/ Free) /\ UNCHANGED events
        \/ events < MaxEvents /\ events' = events + 1 /\ Event

Spec == Init /\ [][Next]_vars

\* Goroutines, timers and event loops run; a broken connection, a closed peer and
\* a closed shell are noticed in the end.  Users and networks owe nothing.  No step
\* can repeat for ever, so one condition for all of them starves none.
Fairness == WF_vars(Step /\ UNCHANGED events)

FairSpec == Spec /\ Fairness

-----------------------------------------------------------------------------
(* Properties.                                                             *)

\* The row tells what the user has seen.  A console that shows the relay is recorded
\* as relayed: a direct-ok of the agent that races with the fallback never overwrites
\* the transport of the session or of its row, because routeBrowserRTC records it
\* under sessionsMu.  And a terminal error the user is told of is a failed row: the
\* router ends the row before it writes, so the handler it wakes cannot record
\* "closed" first.  The exception is a handler that leaves by itself between the
\* router's look-up and its record, because its write of an rtc:offer or rtc:ice
\* fails or the browser sent no pong: it records "closed", and as the socket is still
\* open for a moment the user may be told the error all the same.
OutcomeRecorded ==
  /\ b.relayActive => transport = "relay" /\ row.transport = "relay"
  /\ b.failed => row.state = "failed" \/ (gaveUp /\ row.state = "closed")

\* The waiting overlay never covers a live session, whatever the order of peer
\* events, output and fallback (the comment of shouldAdvanceStage).
WaitingNeverCoversLive == b.live => b.stage \notin Waiting

\* Once the agent has handled rtc:relay it puts no output on the data channel,
\* where the console would drop it; an OnOpen or a choice of path made before
\* does not matter.
NoDirectOutputAfterRelay == [][told => chq' <= chq]_vars

\* The session is over for the user, or live over a path the server has recorded.
Settled == \/ b.disposed \/ b.stage \in {"disconnected", "error"}
           \/ b.live /\ row.transport # "negotiating"

\* Whatever fails, the console does not wait for ever: it always comes (back) to
\* a live session or to an end it shows, and neither output before the direct
\* path nor a lost direct-ok keeps the session in negotiation.
AlwaysSettles == []<>Settled

\* Nothing of the session is left on the server or on the device.
Gone == /\ handler = "gone" /\ ~listed /\ row.state # "active"
        /\ ~sess /\ shell # "running" /\ ~HasPeer /\ ~reg /\ ~pend

\* A console that closes or loses its socket frees the session in the end: handler,
\* row, shell, peer connection, channel and buffered candidates, although an offer
\* and an OnOpen callback may still be running.
Released == b.sock \in {"closing", "closed"} ~> Gone
=============================================================================
