------------------------------ MODULE Presence ------------------------------
(***************************************************************************)
(* The control connections of one device (internal/server/agentws.go and   *)
(* server.go): handleAgentWS registers a connection in s.agents, replaces  *)
(* the one before it and keeps devices.online up to date, while an older   *)
(* handler of the same device may still be unwinding.  The server may be   *)
(* shut down meanwhile (cmd/server/main.go, Server.Close): listeners stop, *)
(* live sockets are closed, and the handlers get five seconds to finish    *)
(* before the database is closed.                                          *)
(*                                                                         *)
(* Each connection has its handler goroutine.  One step is one critical    *)
(* section of agentsMu or sessionsMu or one registry statement.            *)
(***************************************************************************)
EXTENDS Naturals

CONSTANTS Conns,   \* the connections the device makes
          NoConn   \* no entry in s.agents

ASSUME ConnsAssumption == NoConn \notin Conns

VARIABLES
  serving,   \* where the handler of each connection is
  sock,      \* connections whose socket is open
  entry,     \* s.agents[deviceID]
  row,       \* the devices row: "absent", "offline" or "online"
  tunnels,   \* connections whose messages opened a session still in s.forwards
  phase,     \* the process: "up", "stopped" (no listener), "closing" (sockets
             \* closed), and with the database closed "drained" or "expired"
  missed     \* history: connections upgraded but not in wsWG when it was drained

stop == <<phase, missed>>
presenceVars == <<serving, sock, entry, row, tunnels, stop>>

Goto(c, label) == serving' = [serving EXCEPT ![c] = label]

\* A statement on a closed database fails; the handlers only log that.
Write(state) == row' = IF phase \in {"drained", "expired"} THEN row ELSE state

\* Faulty variant: connections are accepted whatever the phase.
UpgradeAlways(c) ==
  /\ serving[c] = "new"
  /\ sock' = sock \cup {c}
  /\ Goto(c, "upgraded")
  /\ UNCHANGED <<entry, row, tunnels, stop>>

\* A listener accepts the connection, and Upgrade takes it out of the sight of
\* http.Server.Shutdown ...
Upgrade(c) ==
  /\ phase = "up"
  /\ serving[c] = "new"
  /\ sock' = sock \cup {c}
  /\ Goto(c, "upgraded")
  /\ UNCHANGED <<entry, row, tunnels, stop>>

\* ... before wsWG counts it.
Count(c) ==
  /\ serving[c] = "upgraded"
  /\ Goto(c, "hello")
  /\ UNCHANGED <<sock, entry, row, tunnels, stop>>

\* The hello message is authorized and Upsert writes the row, as online.
HelloAccepted(c) ==
  /\ serving[c] = "hello"
  /\ Write("online")
  /\ Goto(c, "upserted")
  /\ UNCHANGED <<sock, entry, tunnels, stop>>

\* No hello comes, or it is refused.
HelloFails(c) ==
  /\ serving[c] = "hello"
  /\ sock' = sock \ {c}
  /\ Goto(c, "done")
  /\ UNCHANGED <<entry, row, tunnels, stop>>

\* The connection becomes the device's entry; the one before it is closed.
Register(c) ==
  /\ serving[c] = "upserted"
  /\ entry' = c
  /\ sock' = sock \ {entry}
  /\ Goto(c, "live")
  /\ UNCHANGED <<row, tunnels, stop>>

\* A frame of the current connection for which touchAgent finds the refresh due.
\* Frames before that change nothing.
FrameDue(c) ==
  /\ serving[c] = "live" /\ c \in sock /\ entry = c
  /\ Goto(c, "touch")
  /\ UNCHANGED <<sock, entry, row, tunnels, stop>>

\* Registry.SetOnline: updates the row if there is one.
SetOnline(state) == Write(IF row = "absent" THEN row ELSE state)

\* Faulty variant: last_seen is refreshed, online is not.
TouchLastSeen(c) ==
  /\ serving[c] = "touch"
  /\ Goto(c, "live")
  /\ UNCHANGED <<sock, entry, row, tunnels, stop>>

\* The frame is routed next, which matters if it is a forward:connect.
Touch(c) ==
  /\ serving[c] = "touch"
  /\ SetOnline("online")
  /\ Goto(c, "live") \/ Goto(c, "route")
  /\ UNCHANGED <<sock, entry, tunnels, stop>>

\* A forward:connect of the current connection, the refresh not being due (a second
\* session of the same connection would add nothing to the set) ...
FrameConnect(c) ==
  /\ serving[c] = "live" /\ c \in sock /\ entry = c /\ c \notin tunnels
  /\ Goto(c, "route")
  /\ UNCHANGED <<sock, entry, row, tunnels, stop>>

\* ... and, when it is granted, the insertion of its session, whatever connection is
\* registered by then.  (A request that is refused changes nothing.)
OpenTunnel(c) ==
  /\ serving[c] = "route"
  /\ tunnels' = tunnels \cup {c}
  /\ Goto(c, "live")
  /\ UNCHANGED <<sock, entry, row, stop>>

\* The peer goes away, the read deadline passes or a ping cannot be written.
Drop(c) ==
  /\ c \in sock
  /\ sock' = sock \ {c}
  /\ UNCHANGED <<serving, entry, row, tunnels, stop>>

\* The read loop ends with the socket, or at the first frame that finds another
\* connection registered.
LoopEnds(c) ==
  /\ serving[c] = "live" /\ (c \notin sock \/ entry # c)
  /\ Goto(c, "ended")
  /\ UNCHANGED <<sock, entry, row, tunnels, stop>>

\* Faulty variant: the entry is deleted whoever owns it.
RemoveAgentAlways(c) ==
  /\ serving[c] = "ended"
  /\ entry' = NoConn
  /\ Goto(c, "removed")
  /\ UNCHANGED <<sock, row, tunnels, stop>>

\* Faulty variant: a connection dropped by its peer leaves its entry behind.
RemoveAgentNever(c) ==
  /\ serving[c] = "ended"
  /\ sock' = sock \ {c}
  /\ Goto(c, "done")
  /\ UNCHANGED <<entry, row, tunnels, stop>>

\* removeAgent deletes the entry only if it is still this connection; a replaced
\* handler returns, and its deferred call closes the socket ...
RemoveAgent(c) ==
  /\ serving[c] = "ended"
  /\ IF entry = c THEN entry' = NoConn /\ Goto(c, "removed") /\ UNCHANGED sock
                  ELSE Goto(c, "done") /\ sock' = sock \ {c} /\ UNCHANGED entry
  /\ UNCHANGED <<row, tunnels, stop>>

\* ... and then, with agentsMu released, marks the device offline.
SetOffline(c) ==
  /\ serving[c] = "removed"
  /\ SetOnline("offline")
  /\ Goto(c, "teardown")
  /\ UNCHANGED <<sock, entry, tunnels, stop>>

\* Faulty variant: the sessions of its own connection are left.
TeardownOthers(c) ==
  /\ serving[c] = "teardown"
  /\ tunnels' = tunnels \cap {c}
  /\ sock' = sock \ {c}
  /\ Goto(c, "done")
  /\ UNCHANGED <<entry, row, stop>>

\* closeAgentForwards ends the sessions of the device, and the handler returns.
Teardown(c) ==
  /\ serving[c] = "teardown"
  /\ tunnels' = {}
  /\ sock' = sock \ {c}
  /\ Goto(c, "done")
  /\ UNCHANGED <<entry, row, stop>>

\* DELETE /api/devices/{id} removes the row; the connection stays.
DeleteRow ==
  /\ phase = "up" /\ row # "absent"
  /\ row' = "absent"
  /\ UNCHANGED <<serving, sock, entry, tunnels, stop>>

-----------------------------------------------------------------------------
(* Shutdown.                                                               *)

\* A signal, or a listener that failed: shutdownServers.
StopListening ==
  /\ phase = "up" /\ phase' = "stopped"
  /\ UNCHANGED <<serving, sock, entry, row, tunnels, missed>>

\* Faulty variant: only the browsers are closed.
CloseBrowsersOnly ==
  /\ phase = "stopped" /\ phase' = "closing"
  /\ UNCHANGED <<serving, sock, entry, row, tunnels, missed>>

\* closeWebSockets closes the connections that are registered by now.
closeWebSockets ==
  /\ phase = "stopped" /\ phase' = "closing"
  /\ sock' = sock \ {entry}
  /\ UNCHANGED <<serving, entry, row, tunnels, missed>>

Counted == {c \in Conns : serving[c] \notin {"new", "upgraded", "done"}}

\* waitForHandlers: every handler in wsWG has returned ...
Drained ==
  /\ phase = "closing" /\ Counted = {}
  /\ phase' = "drained" /\ missed' = {c \in Conns : serving[c] = "upgraded"}
  /\ UNCHANGED <<serving, sock, entry, row, tunnels>>

\* ... or handlerDrainTimeout has passed.
DrainTimeout ==
  /\ phase = "closing" /\ phase' = "expired"
  /\ UNCHANGED <<serving, sock, entry, row, tunnels, missed>>

\* The process ends, at any time or after Close, and starts again: NewRegistry marks
\* every device offline.
ServerRestart ==
  /\ phase # "up" \/ \E c \in Conns : serving[c] \notin {"new", "done"}
  /\ phase' = "up" /\ missed' = {}
  /\ serving' = [c \in Conns |-> IF serving[c] = "new" THEN "new" ELSE "done"]
  /\ sock' = {} /\ entry' = NoConn /\ tunnels' = {}
  /\ row' = IF row = "absent" THEN row ELSE "offline"

-----------------------------------------------------------------------------

PresenceInit ==
  /\ serving = [c \in Conns |-> "new"]
  /\ sock = {} /\ entry = NoConn /\ row = "absent" /\ tunnels = {}
  /\ phase = "up" /\ missed = {}

\* What a handler does without waiting for its peer.
Unwind(c) == \/ Touch(c) \/ OpenTunnel(c) \/ LoopEnds(c) \/ RemoveAgent(c) \/ SetOffline(c)
             \/ Teardown(c)

\* What Server.Close does in turn, up to the end of the process.
Close == closeWebSockets \/ Drained \/ DrainTimeout

PresenceNext ==
  \/ \E c \in Conns :
       \/ Upgrade(c) \/ Count(c) \/ HelloAccepted(c) \/ HelloFails(c) \/ Register(c)
       \/ FrameDue(c) \/ FrameConnect(c) \/ Drop(c) \/ Unwind(c)
  \/ DeleteRow \/ StopListening \/ Close \/ ServerRestart

PresenceSpec == PresenceInit /\ [][PresenceNext]_presenceVars

\* Handlers run, and a connected agent keeps sending: its status message every
\* 15 seconds exceeds the 10 second throttle of touchAgent.  Close runs to its end.
PresenceFairness ==
  /\ \A c \in Conns : /\ WF_presenceVars(Register(c)) /\ WF_presenceVars(Unwind(c))
                       /\ WF_presenceVars(FrameDue(c))
  /\ WF_presenceVars(Close)

PresenceFairSpec == PresenceSpec /\ PresenceFairness

-----------------------------------------------------------------------------
(* Properties.                                                             *)

Idle == {c \in Conns : serving[c] \in {"new", "done"}}

\* The variables keep their types, and a handler that returned has closed its
\* socket.
PresenceTypeOK ==
  /\ serving \in [Conns -> {"new", "upgraded", "hello", "upserted", "live", "touch", "route",
                            "ended", "removed", "teardown", "done"}]
  /\ sock \subseteq Conns \ Idle
  /\ entry \in Conns \cup {NoConn}
  /\ row \in {"absent", "offline", "online"}
  /\ tunnels \subseteq Conns
  /\ phase \in {"up", "stopped", "closing", "drained", "expired"}
  /\ missed \subseteq Conns

\* Messages for the device are never routed to a connection whose handler has
\* unwound: the entry's handler is in its read loop or about to remove it.
EntryHasHandler == entry # NoConn => serving[entry] \in {"live", "touch", "route", "ended"}

\* "An unconditional delete would evict the fresh, healthy connection": a
\* registered connection whose socket is open loses its entry only to a newer
\* connection or a restart, however late the handlers it replaced unwind.
HealthyEntryKept ==
  [][(entry \in sock) => entry' # NoConn \/ Idle' = Conns]_presenceVars

\* A device that stays connected to a running server is not shown offline for ever,
\* even when the SetOnline(false) of an older handler lands after its hello.
LiveShownOnline ==
  \A c \in Conns : <>[](phase = "up" /\ entry = c /\ c \in sock) => []<>(row # "offline")

\* A handler has still to run closeAgentForwards for the device.
TeardownDue == entry # NoConn \/ \E c \in Conns : serving[c] \in {"removed", "teardown"}

\* A session that is listed while the device is registered, or not yet torn down, ends
\* with the handler of the device's last connection at the latest, over whichever
\* connection it was opened.  One that a replaced handler inserts after the last
\* teardown (it passed the check of its frame before it was replaced) is not found by
\* any: it is left to the fallback timer (LostDeviceEndsSession of ForwardSession).
TunnelsEnd ==
  <>[](\A c \in Conns : serving[c] = "done") =>
    (tunnels # {} /\ TeardownDue ~> tunnels = {})

\* "Close() waits on this so registry writes in the teardown below cannot outlive the
\* database handle": once the handlers have been waited for in full, no handler is
\* left to write, except one that had upgraded its connection and not yet been
\* counted.
NoLateWrite ==
  phase = "drained" => \A c \in Conns : c \in Idle \cup missed

\* Close unblocks every handler that has registered by then: it finishes by itself,
\* however its last frames, its replacement and closeWebSockets interleave.
Registered(c) == serving[c] \notin {"new", "upgraded", "hello", "upserted", "done"}
CloseUnblocks ==
  \A c \in Conns : phase = "stopped" /\ Registered(c) ~> serving[c] = "done"

\* "connection lost -> device marked offline": a device whose connections are all
\* gone is not shown online for ever.
LostShownOffline ==
  <>[](phase = "up" /\ \A c \in Conns : serving[c] = "done") => []<>(row # "online")
=============================================================================
