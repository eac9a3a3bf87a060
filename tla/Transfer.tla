------------------------------ MODULE Transfer ------------------------------
(***************************************************************************)
(* One upload, download or request of the file manager between the console *)
(* and a device: the promise of the browser (web/src/fileTransport.ts),    *)
(* the socket handler and the router of the server                         *)
(* (internal/server/file.go, filesmanager.go, agentws.go) and the control  *)
(* loop and the download goroutine of the agent (internal/agent/agent.go). *)
(*                                                                         *)
(* A file is its chunks 1..size.  A request of the file manager has size   *)
(* 1: a "change" creates, renames or deletes, a "list" is answered with    *)
(* entries or roots.  The browser socket delivers in order; a              *)
(* side that closes it ends it for the other.  The device connection may   *)
(* be lost and made anew: what was in transit is lost, and the agent goes  *)
(* on under a new connection number.  The writes of a lost connection fail *)
(* or vanish.                                                              *)
(***************************************************************************)
EXTENDS Integers, Sequences

CONSTANTS MaxSize,  \* bound: chunks of the file
          Limit,    \* chunks the browser buffers for a download
          MaxConns  \* bound: connections of the device

ASSUME SizeAssumption == MaxSize \in Nat /\ Limit \in Nat
ASSUME MaxConnsAssumption == MaxConns \in Nat \ {0}

\* A frame or message: a chunk of the file, or one of the other kinds.
Chunk(i) == [kind |-> "chunk", n |-> i]
Msg(kind) == [kind |-> kind, n |-> 0]

VARIABLES
  op,        \* "upload", "download", "change" or "list"
  size,      \* chunks of the file, 1 for a request
  browser,   \* the promise: "open", "ok" or "failed"; settling it closes the socket
  sent,      \* chunks the browser has sent, size + 1 with the end of the upload
  got,       \* chunks the browser has received
  up, down,  \* frames on the browser socket, to and from the server
  closed,    \* the server has closed the browser socket
  handler,   \* where handleFileWS is
  endState,  \* its variable of that name
  listed,    \* the session is in s.files or s.managers
  router,    \* what routeAgentMessage has left to do: "idle", "close" or "delete"
  routed,    \* the state it closes the row with
  row,       \* the connections row: "none", "active", "closed" or "failed"
  counted,   \* chunks the traffic recorder has counted
  conn,      \* the number of the device connection
  link,      \* "up", "lost" (not noticed by the agent yet) or "down"
  toAgent, fromAgent, \* messages on it
  file,      \* the upload file on the device: "none", "open" or "shut"
  content,   \* the chunks written to it, or the changes made
  stream,    \* the connection the download goroutine runs for, 0 for none
  pos        \* chunks it has read

console == <<browser, sent, got>>
socket == <<up, down, closed>>
server == <<handler, endState, listed, router, routed>>
record == <<row, counted>>
device == <<conn, link>>
agent == <<file, content, stream, pos>>
transfer == <<op, size>>
vars == <<transfer, console, socket, server, record, device, toAgent, fromAgent, agent>>

Whole == [i \in 1..size |-> i]

\* The file manager: a socket for one request, without a row.
Managed == op \in {"change", "list"}

-----------------------------------------------------------------------------
(* The browser.                                                            *)

Live == browser = "open" /\ ~closed

\* sendUploadChunks: the chunks, then the end.
SendUpload ==
  /\ op = "upload" /\ Live /\ sent <= size
  /\ sent' = sent + 1
  /\ up' = Append(up, IF sent = size THEN Msg("end") ELSE Chunk(sent + 1))
  /\ UNCHANGED <<transfer, browser, got, down, closed, server, record, device, toAgent,
                 fromAgent, agent>>

\* requestFiles: one request per socket.
SendRequest ==
  /\ Managed /\ Live /\ sent = 0
  /\ sent' = 1 /\ up' = Append(up, Msg(op))
  /\ UNCHANGED <<transfer, browser, got, down, closed, server, record, device, toAgent,
                 fromAgent, agent>>

\* onmessage.  A download that outgrows the buffer is rejected.
Receive ==
  /\ browser = "open" /\ down # <<>>
  /\ LET m == Head(down)
     IN \/ m.kind \in {"done", "result"} /\ browser' = "ok" /\ got' = got
        \/ m.kind = "error" /\ browser' = "failed" /\ got' = got
        \/ m.kind = "chunk" /\ Len(got) < Limit /\ browser' = browser /\ got' = Append(got, m.n)
        \/ m.kind = "chunk" /\ Len(got) >= Limit /\ browser' = "failed" /\ got' = got
  /\ down' = Tail(down)
  /\ UNCHANGED <<transfer, sent, up, closed, server, record, device, toAgent, fromAgent, agent>>

\* onclose; what the server sent before it closed may be lost with the socket.
SocketCloses ==
  /\ browser = "open" /\ closed
  /\ browser' = "failed"
  /\ UNCHANGED <<transfer, sent, got, socket, server, record, device, toAgent, fromAgent, agent>>

\* The idle timeout, or the user cancels.
GiveUp ==
  /\ browser = "open"
  /\ browser' = "failed"
  /\ UNCHANGED <<transfer, sent, got, socket, server, record, device, toAgent, fromAgent, agent>>

\* The socket breaks.
SocketBreaks ==
  /\ ~closed
  /\ closed' = TRUE
  /\ UNCHANGED <<transfer, console, up, down, server, record, device, toAgent, fromAgent,
                 agent>>

-----------------------------------------------------------------------------
(* The socket handler of the server.                                       *)

\* agent.write on the connection the handler found, the first: delivered while
\* that connection is up.  Once it is not, the write fails or goes nowhere.
WriteAgent(m, ok) ==
  \/ /\ ok /\ conn = 1 /\ link = "up" /\ toAgent' = Append(toAgent, m)
  \/ /\ conn > 1 \/ link # "up"
     /\ UNCHANGED toAgent

\* The session is listed, and the operation is sent to the device.
Start ==
  /\ handler = "start" /\ ~Managed
  /\ listed' = TRUE
  /\ \E ok \in BOOLEAN :
       WriteAgent(Msg(op), ok) /\ handler' = IF ok THEN "read" ELSE "delete"
  /\ UNCHANGED <<transfer, console, socket, endState, router, routed, record, device,
                 fromAgent, agent>>

\* The recorder ignores what comes after its Close.
Add == counted' = IF row = "active" THEN counted + 1 ELSE counted

\* A chunk or the end of an upload goes to the device.  (The console sends no file:error
\* of its own and nothing after the end; the branches for such frames are left out.)
ReadFrame ==
  /\ handler = "read" /\ op = "upload" /\ up # <<>>
  /\ up' = Tail(up)
  /\ \E ok \in BOOLEAN :
       /\ WriteAgent(Head(up), ok)
       /\ IF ok THEN UNCHANGED <<handler, endState>>
                ELSE handler' = "delete" /\ endState' = "failed"
       /\ IF ok /\ Head(up).kind = "chunk" THEN Add ELSE UNCHANGED counted
  /\ UNCHANGED <<transfer, console, down, closed, listed, router, routed, row, device,
                 fromAgent, agent>>

ReadFails == handler = "read" /\ (closed \/ (browser # "open" /\ up = <<>>))

\* What the router and the handler write reaches a browser that still listens; a
\* write to one that does not may fail, and then the socket is closed.
ToBrowser(m) ==
  \/ browser = "open" /\ ~closed /\ down' = Append(down, m) /\ UNCHANGED closed
  \/ (browser # "open" \/ closed) /\ UNCHANGED down /\ closed' \in {closed, TRUE}

\* A request without a name or a path is refused once it is listed.
Refuse ==
  /\ handler = "start" /\ ~Managed
  /\ listed' = TRUE /\ handler' = "delete"
  /\ ToBrowser(Msg("error"))
  /\ UNCHANGED <<transfer, console, up, endState, router, routed, record, device, toAgent,
                 fromAgent, agent>>

\* Faulty variant: the device is not told that the browser has gone.
ReadErrorSilent ==
  /\ ReadFails /\ ~Managed
  /\ handler' = "delete"
  /\ UNCHANGED <<transfer, console, socket, endState, listed, router, routed, record, device,
                 toAgent, fromAgent, agent>>

\* Faulty variant: a read error ends every transfer as failed.
ReadErrorFailed ==
  /\ ReadFails /\ ~Managed
  /\ \E ok \in BOOLEAN : WriteAgent(Msg("error"), ok)
  /\ handler' = "delete" /\ endState' = "failed"
  /\ UNCHANGED <<transfer, console, socket, listed, router, routed, record, device, fromAgent,
                 agent>>

\* The browser has gone, or the router has closed the socket.
ReadError ==
  /\ ReadFails /\ ~Managed
  /\ \E ok \in BOOLEAN : WriteAgent(Msg("error"), ok)
  /\ handler' = "delete"
  /\ UNCHANGED <<transfer, console, socket, endState, listed, router, routed, record, device,
                 fromAgent, agent>>

CloseRow(state) == row' = IF row = "active" THEN state ELSE row

\* The deferred calls, in their order: the session leaves s.files, ...
Delete ==
  /\ handler = "delete"
  /\ handler' = (IF Managed THEN "hangup" ELSE "close") /\ listed' = FALSE
  /\ UNCHANGED <<transfer, console, socket, endState, router, routed, record, device, toAgent,
                 fromAgent, agent>>

\* ... the recorder, which a file manager has not, is closed, ...
CloseTraffic ==
  /\ handler = "close"
  /\ handler' = "hangup"
  /\ CloseRow(endState)
  /\ UNCHANGED <<transfer, console, socket, endState, listed, router, routed, counted, device,
                 toAgent, fromAgent, agent>>

\* ... and the socket.
HangUp ==
  /\ handler = "hangup"
  /\ handler' = "gone" /\ closed' = TRUE
  /\ UNCHANGED <<transfer, console, up, down, endState, listed, router, routed, record, device,
                 toAgent, fromAgent, agent>>

\* handleFilesWS: the session is listed before anything is read; ...
StartManager ==
  /\ handler = "start" /\ Managed
  /\ handler' = "read" /\ listed' = TRUE
  /\ UNCHANGED <<transfer, console, socket, endState, router, routed, record, device, toAgent,
                 fromAgent, agent>>

\* ... a request goes to the device (the console asks for the types of
\* managerAllowedTypes only, so the refusal of others is left out); ...
ReadRequest ==
  /\ handler = "read" /\ Managed /\ up # <<>>
  /\ up' = Tail(up)
  /\ \E ok \in BOOLEAN :
       WriteAgent(Head(up), ok) /\ handler' = IF ok THEN "read" ELSE "delete"
  /\ UNCHANGED <<transfer, console, down, closed, endState, listed, router, routed, record,
                 device, fromAgent, agent>>

\* ... and the end of the socket ends the handler, without a word to the device.
ManagerLeaves ==
  /\ ReadFails /\ Managed
  /\ handler' = "delete"
  /\ UNCHANGED <<transfer, console, socket, endState, listed, router, routed, record, device,
                 toAgent, fromAgent, agent>>

-----------------------------------------------------------------------------
(* The router of the server, in the read loop of the device connection.    *)

\* A message of a session that has ended is dropped; a chunk is counted and sent
\* on; a final message is sent on, ...
Route ==
  /\ router = "idle" /\ fromAgent # <<>> /\ ~Managed
  /\ fromAgent' = Tail(fromAgent)
  /\ LET m == Head(fromAgent)
     IN \/ ~listed /\ UNCHANGED <<down, closed, counted, router, routed>>
        \/ listed /\ m.kind = "chunk" /\ Add /\ ToBrowser(m) /\ UNCHANGED <<router, routed>>
        \/ /\ listed /\ m.kind \in {"done", "error"} /\ ToBrowser(m)
           /\ router' = "close" /\ routed' = IF m.kind = "done" THEN "closed" ELSE "failed"
           /\ UNCHANGED counted
  /\ UNCHANGED <<transfer, console, up, handler, endState, listed, row, device, toAgent,
                 agent>>

\* ... then closes the recorder, ...
RouteClose ==
  /\ router = "close"
  /\ router' = "delete"
  /\ CloseRow(routed)
  /\ UNCHANGED <<transfer, console, socket, handler, endState, listed, routed, counted, device,
                 toAgent, fromAgent, agent>>

\* ... the session and the socket.
RouteDelete ==
  /\ router = "delete"
  /\ router' = "idle" /\ listed' = FALSE /\ closed' = TRUE
  /\ UNCHANGED <<transfer, console, up, down, handler, endState, routed, record, device, toAgent,
                 fromAgent, agent>>

\* An answer for the file manager: a failed write is not looked at, entries leave
\* the session as it is, and any other answer ends it.
RouteManager ==
  /\ router = "idle" /\ fromAgent # <<>> /\ Managed
  /\ fromAgent' = Tail(fromAgent)
  /\ \/ ~listed /\ UNCHANGED <<down, router>>
     \/ /\ listed
        /\ down' = IF browser = "open" /\ ~closed THEN Append(down, Head(fromAgent)) ELSE down
        /\ router' = IF Head(fromAgent).kind = "result" THEN "idle" ELSE "delete"
  /\ UNCHANGED <<transfer, console, up, closed, handler, endState, listed, routed, record,
                 device, toAgent, agent>>

-----------------------------------------------------------------------------
(* The agent.                                                              *)

\* Faulty variant: what a connection has started goes on over the next one.
SendOnCurrent(c, m, ok) ==
  \/ ok /\ link = "up" /\ fromAgent' = Append(fromAgent, m)
  \/ link = "lost" /\ UNCHANGED fromAgent
  \/ ~ok /\ link = "down" /\ UNCHANGED fromAgent

\* sendOn, for work that belongs to connection c.
SendOn(c, m, ok) ==
  \/ ok /\ conn = c /\ link = "up" /\ fromAgent' = Append(fromAgent, m)
  \/ conn = c /\ link = "lost" /\ UNCHANGED fromAgent
  \/ ~ok /\ (conn # c \/ link = "down") /\ UNCHANGED fromAgent

Reply(kind) == SendOn(conn, Msg(kind), TRUE)

\* handleMessage takes the next message of a kind.
Handle(kind) ==
  /\ toAgent # <<>> /\ Head(toAgent).kind = kind
  /\ toAgent' = Tail(toAgent)
  /\ UNCHANGED <<transfer, console, socket, server, record, device>>

OpenUpload ==
  /\ Handle("upload")
  /\ \/ file' = "open" /\ UNCHANGED fromAgent
     \/ Reply("error") /\ UNCHANGED file
  /\ UNCHANGED <<content, stream, pos>>

\* Faulty variant: a failed write is only logged.
WriteChunkLogged ==
  /\ Handle("chunk")
  /\ \/ file = "open" /\ content' = Append(content, Head(toAgent).n)
     \/ UNCHANGED content
  /\ UNCHANGED <<file, fromAgent, stream, pos>>

\* A failed write closes the file and gives the upload up.
WriteChunk ==
  /\ Handle("chunk")
  /\ \/ file # "open" /\ UNCHANGED <<file, content, fromAgent>>
     \/ /\ file = "open" /\ content' = Append(content, Head(toAgent).n)
        /\ UNCHANGED <<file, fromAgent>>
     \/ file = "open" /\ file' = "shut" /\ Reply("error") /\ UNCHANGED content
  /\ UNCHANGED <<stream, pos>>

\* The end of an upload: done when there is a file and it closes without error.
EndUpload ==
  /\ Handle("end")
  /\ \/ file = "open" /\ Reply("done") /\ file' = "shut"
     \/ file = "open" /\ Reply("error") /\ file' = "shut"
     \/ file # "open" /\ Reply("error") /\ UNCHANGED file
  /\ UNCHANGED <<content, stream, pos>>

\* The server aborts; a download is not stopped by it.
AbortUpload ==
  /\ Handle("error")
  /\ file' = IF file = "open" THEN "shut" ELSE file
  /\ UNCHANGED <<fromAgent, content, stream, pos>>

\* The goroutine of a download is tied to the connection that asked.
StartDownload ==
  /\ Handle("download")
  /\ stream' = conn /\ pos' = 0
  /\ UNCHANGED <<fromAgent, file, content>>

\* handleFileMkdir, handleFileRename, handleFileDelete.
Change ==
  /\ Handle("change")
  /\ \/ Reply("done") /\ content' = Append(content, 1)
     \/ Reply("error") /\ UNCHANGED content
  /\ UNCHANGED <<file, stream, pos>>

\* handleFileList, handleFileRoots.
List ==
  /\ Handle("list")
  /\ Reply("result") \/ Reply("error")
  /\ UNCHANGED <<file, content, stream, pos>>

\* streamFileOn: the next chunk, the end of the file, or an error of the file; a
\* write that fails ends it.
Stream ==
  /\ stream # 0
  /\ \E ok \in BOOLEAN :
       \/ /\ pos < size /\ SendOn(stream, Chunk(pos + 1), ok)
          /\ pos' = pos + 1 /\ stream' = IF ok THEN stream ELSE 0
       \/ /\ pos = size /\ SendOn(stream, Msg("done"), ok)
          /\ stream' = 0 /\ UNCHANGED pos
       \/ SendOn(stream, Msg("error"), ok) /\ stream' = 0 /\ UNCHANGED pos
  /\ UNCHANGED <<transfer, console, socket, server, record, device, toAgent, file, content>>

\* The connection breaks; a part of what was under way to the server still arrives.
LinkLost ==
  /\ link = "up" /\ conn < MaxConns
  /\ link' = "lost" /\ toAgent' = <<>>
  /\ \E k \in 0..Len(fromAgent) : fromAgent' = SubSeq(fromAgent, 1, k)
  /\ UNCHANGED <<transfer, console, socket, server, record, conn, agent>>

\* The agent notices: connectOnce returns and cleanupSessions closes the uploads.
Cleanup ==
  /\ link = "lost"
  /\ link' = "down"
  /\ file' = IF file = "open" THEN "shut" ELSE file
  /\ UNCHANGED <<transfer, console, socket, server, record, conn, toAgent, fromAgent, content,
                 stream, pos>>

\* Run connects again; the server stops reading the connection it replaces.
Reconnect ==
  /\ link = "down"
  /\ conn' = conn + 1 /\ link' = "up" /\ fromAgent' = <<>>
  /\ UNCHANGED <<transfer, console, socket, server, record, toAgent, agent>>

-----------------------------------------------------------------------------
Init ==
  /\ op \in {"upload", "download", "change", "list"}
  /\ size \in IF Managed THEN {1} ELSE 0..MaxSize
  /\ browser = "open" /\ sent = 0 /\ got = <<>>
  /\ up = <<>> /\ down = <<>> /\ closed = FALSE
  /\ handler = "start" /\ endState = "closed" /\ listed = FALSE
  /\ router = "idle" /\ routed = "closed"
  /\ row = (IF Managed THEN "none" ELSE "active") /\ counted = 0
  /\ conn = 1 /\ link = "up" /\ toAgent = <<>> /\ fromAgent = <<>>
  /\ file = "none" /\ content = <<>> /\ stream = 0 /\ pos = 0

Browser == SendUpload \/ SendRequest \/ Receive \/ SocketCloses \/ GiveUp
Handler == Refuse \/ Start \/ ReadFrame \/ ReadError \/ Delete \/ CloseTraffic \/ HangUp
           \/ StartManager \/ ReadRequest \/ ManagerLeaves
Router == Route \/ RouteManager \/ RouteClose \/ RouteDelete
Control == OpenUpload \/ WriteChunk \/ EndUpload \/ AbortUpload \/ StartDownload
           \/ Change \/ List

Done == handler = "gone" /\ browser # "open" /\ UNCHANGED vars

Next == Browser \/ SocketBreaks \/ Handler \/ Router \/ Control \/ Stream
        \/ LinkLost \/ Cleanup \/ Reconnect \/ Done

Spec == Init /\ [][Next]_vars

\* Every thread runs on, the timer of the browser included, and the agent notices
\* a lost connection; no connection has to break, and none has to be made again.
FairSpec ==
  /\ Spec
  /\ WF_vars(Browser) /\ WF_vars(Handler) /\ WF_vars(Router) /\ WF_vars(Control)
  /\ WF_vars(Stream) /\ WF_vars(Cleanup)

-----------------------------------------------------------------------------
\* uploadFile resolves only when the device holds every chunk, in order, in a file
\* it has closed, whatever writes fail and whenever the device connection breaks
\* (file:done of handleMessage, relayed by routeAgentMessage); and a request to
\* change something succeeds only when the device has done it, once.
UploadDelivered ==
  browser = "ok" => /\ op = "upload" => content = Whole /\ file = "shut"
                    /\ op = "change" => content = Whole

\* downloadFile resolves only with the whole file: "Background work belongs to its
\* original control connection, not a reconnect" (agent.go:1040), so chunks lost
\* with one connection are never followed by the rest over the next.
DownloadIntact == op = "download" /\ browser = "ok" => got = Whole

\* The row of a transfer that the browser saw succeed is closed as "closed" with
\* every chunk counted, whichever of the router and the handler closes it first.
SuccessRecorded ==
  browser = "ok" /\ row \notin {"none", "active"} => row = "closed" /\ counted = size

\* Every transfer ends for everyone: the promise settles ("Every socket promise
\* settles exactly once", fileTransport.ts:16), the session leaves its map, its row
\* is closed, the goroutine stops and the device has no file open.
Released ==
  <>[](/\ browser # "open" /\ handler = "gone" /\ ~listed /\ row # "active"
       /\ file # "open" /\ stream = 0)
=============================================================================
