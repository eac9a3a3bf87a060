--------------------------- MODULE ForwardSession ---------------------------
(***************************************************************************)
(* One forwardSession of the relay server (internal/server/forward.go,     *)
(* traffic.go): from forward:connect through the direct attempt or the     *)
(* relay fallback to its end, with its row in connection_sessions.         *)
(*                                                                         *)
(* Its threads are the read loops of the agents' control connections       *)
(* (src1 and tgt1 were current when the tunnel was requested, src2 and     *)
(* tgt2 are connections made by the same devices later) and the callback   *)
(* of the direct-attempt timer.  One step is one critical section of       *)
(* sessionsMu, agentsMu, a session's mu or a recorder's mu, or one write.  *)
(*                                                                         *)
(* src and tgt are the two agents' own view of the tunnel, as far as it    *)
(* decides which messages they send; ForwardConn has the detail.           *)
(***************************************************************************)
EXTENDS Integers

CONSTANTS MaxData,    \* bound on the forward:data messages of a behaviour
          Returning   \* the devices that may connect a second time

Devices == {"source", "target"}

ASSUME MaxDataAssumption == MaxData \in Nat
ASSUME ReturningAssumption == Returning \subseteq Devices

Handlers == {"src1", "src2", "tgt1", "tgt2"}
Threads == Handlers \cup {"timer"}

Device(h) == IF h \in {"src1", "src2"} THEN "source" ELSE "target"
Epoch(h) == IF h \in {"src1", "tgt1"} THEN 1 ELSE 2
Other(d) == IF d = "source" THEN "target" ELSE "source"

VARIABLES
  agents,     \* s.agents[d]: the epoch of the current connection, 0 for none
  mapped,     \* s.forwards[id] = sess
  direct, transport,   \* fields of sess
  timer,      \* sess.timer # nil
  row,        \* the connection_sessions row: state ("none" until it exists),
              \* transport and bytes
  pend,       \* bytes the trafficRecorder has not flushed
  recClosed,  \* the trafficRecorder is closed
  at,         \* where each thread is
  arg,        \* the message a thread routes, or the state it closes with
  src, tgt,   \* the agents: "none", "wait"/"asked", "relay"/"open", "direct", "ended"
  offered,    \* the target received the source's forward:offer
  sent,       \* forward:data messages so far
  counted,    \* chunks the server counted as relayed
  relayed     \* the target was asked to dial: the relay carries the tunnel

sess == <<mapped, direct, transport, timer>>
record == <<row, pend, recClosed>>
ends == <<src, tgt, offered, sent>>
sessionVars == <<agents, sess, record, at, arg, ends, counted, relayed>>

Goto(t, label) == at' = [at EXCEPT ![t] = label]
GotoWith(t, label, a) == Goto(t, label) /\ arg' = [arg EXCEPT ![t] = a]

\* Where a thread continues when its work on the session is done.
Back(t) == IF t = "timer" THEN "gone" ELSE "idle"

\* The read loop takes a message only while its connection is the current one.
Reads(h) == at[h] = "idle" /\ agents[Device(h)] = Epoch(h)

-----------------------------------------------------------------------------
(* The traffic recorder.                                                   *)

AddConnectionTraffic(r, n) == [r EXCEPT !.bytes = @ + n]

\* Add: counts a chunk unless closed, and flushes at times.
RecorderAdd ==
  IF recClosed
  THEN UNCHANGED <<pend, row, counted>>
  ELSE /\ counted' = counted + 1
       /\ \/ pend' = pend + 1 /\ UNCHANGED row
          \/ pend' = 0 /\ row' = AddConnectionTraffic(row, pend + 1)

\* Faulty variant: the last batch is not flushed.
RecorderCloseUnflushed(state) ==
  IF recClosed
  THEN UNCHANGED record
  ELSE /\ recClosed' = TRUE /\ pend' = 0
       /\ row' = [row EXCEPT !.state = state]

\* Close: the first call flushes and ends the row.
RecorderClose(state) ==
  IF recClosed
  THEN UNCHANGED record
  ELSE /\ recClosed' = TRUE /\ pend' = 0
       /\ row' = AddConnectionTraffic([row EXCEPT !.state = state], pend)

SetTransport(t) == row' = [row EXCEPT !.transport = t]

-----------------------------------------------------------------------------
(* handleForwardConnect and the fallback timer.                            *)

\* The source asks for a tunnel.  An offline target or a denied request is
\* answered with forward:error.
ConnectRefused ==
  /\ Reads("src1") /\ src = "none"
  /\ src' = "ended"
  /\ UNCHANGED <<agents, sess, record, at, arg, tgt, offered, sent, counted, relayed>>

\* Otherwise StartConnection inserts the row.
ConnectAccepted ==
  /\ Reads("src1") /\ src = "none" /\ agents["target"] # 0
  /\ src' = "wait"
  /\ row' = [row EXCEPT !.state = "active"]
  /\ Goto("src1", "insert")
  /\ UNCHANGED <<agents, sess, pend, recClosed, arg, tgt, offered, sent, counted, relayed>>

InsertForward ==
  /\ at["src1"] = "insert"
  /\ mapped' = TRUE
  /\ Goto("src1", "arm")
  /\ UNCHANGED <<agents, direct, transport, timer, record, arg, ends, counted, relayed>>

\* Faulty variant: the timer runs but is not published in the session.
ArmTimerUnpublished ==
  /\ at["src1"] = "arm"
  /\ at' = [at EXCEPT !["src1"] = "idle", !["timer"] = "armed"]
  /\ UNCHANGED <<agents, sess, record, arg, ends, counted, relayed>>

\* AfterFunc and setTimer.  The callback runs five seconds later, so the two
\* count as one step.
ArmTimer ==
  /\ at["src1"] = "arm"
  /\ timer' = TRUE
  /\ at' = [at EXCEPT !["src1"] = "idle", !["timer"] = "armed"]
  /\ UNCHANGED <<agents, mapped, direct, transport, record, arg, ends, counted, relayed>>

\* The callback looks the session up ...
TimerFires ==
  /\ at["timer"] = "armed"
  /\ Goto("timer", IF mapped THEN "markRelay" ELSE "gone")
  /\ UNCHANGED <<agents, sess, record, arg, ends, counted, relayed>>

\* Faulty variant: a direct path established meanwhile is not noticed.
MarkRelayAnyway ==
  /\ at["timer"] = "markRelay"
  /\ timer' = FALSE /\ transport' = "relay" /\ Goto("timer", "setRelay")
  /\ UNCHANGED <<agents, mapped, direct, record, arg, ends, counted, relayed>>

\* ... switches it to the relay unless it is direct or its timer was stopped ...
MarkRelay ==
  /\ at["timer"] = "markRelay"
  /\ IF direct \/ ~timer
     THEN Goto("timer", "gone") /\ UNCHANGED <<timer, transport>>
     ELSE timer' = FALSE /\ transport' = "relay" /\ Goto("timer", "setRelay")
  /\ UNCHANGED <<agents, mapped, direct, record, arg, ends, counted, relayed>>

\* ... updates the row ...
SetRelay ==
  /\ at["timer"] = "setRelay"
  /\ SetTransport("relay")
  /\ Goto("timer", "fallback")
  /\ UNCHANGED <<agents, sess, pend, recClosed, arg, ends, counted, relayed>>

\* ... and asks the target to dial.  startRelayFallback closes the session if
\* the target is offline or the write fails.
StartRelayFallback(ok) ==
  /\ at["timer"] = "fallback"
  /\ IF agents["target"] # 0 /\ ok
     THEN tgt' = "asked" /\ relayed' = TRUE /\ Goto("timer", "gone") /\ UNCHANGED arg
     ELSE GotoWith("timer", "close", "failed") /\ UNCHANGED <<tgt, relayed>>
  /\ UNCHANGED <<agents, sess, record, src, offered, sent, counted>>

-----------------------------------------------------------------------------
(* handleDirectOK.                                                         *)

\* Each agent reports an open data channel, at any time after the offer was
\* relayed.  Only the first report of a session still in the map has an effect.
DirectOK(h) ==
  /\ Reads(h) /\ offered /\ mapped /\ ~direct
  /\ direct' = TRUE /\ transport' = "direct" /\ timer' = FALSE
  /\ at' = [at EXCEPT ![h] = "setDirect",
                      !["timer"] = IF timer /\ @ = "armed" THEN "gone" ELSE @]
  /\ UNCHANGED <<agents, mapped, record, arg, ends, counted, relayed>>

SetDirect(h) ==
  /\ at[h] = "setDirect"
  /\ SetTransport("direct")
  /\ Goto(h, "idle")
  /\ UNCHANGED <<agents, sess, pend, recClosed, arg, ends, counted, relayed>>

-----------------------------------------------------------------------------
(* relayForward.                                                           *)

\* What an agent may send.  "signal" stands for forward:offer, answer and ice.
\* Relay messages go to the connection the agent's session belongs to, those of
\* the direct path to whichever is current.
Sends(d, m) ==
  CASE m = "signal" -> src # "none"
    [] m = "data"   -> sent < MaxData /\ IF d = "source" THEN src = "relay" ELSE tgt = "open"
    [] m = "open"   -> d = "target" /\ tgt = "asked"
    [] m = "error"  -> d = "target" /\ tgt \in {"none", "asked"} /\ (offered \/ tgt = "asked")
    [] m = "close"  -> IF d = "source" THEN src \in {"relay", "direct"}
                       ELSE tgt = "open" \/ offered

\* A message is read and its session and receiver are looked up.
RelayLookup(h, m) ==
  /\ Reads(h) /\ Sends(Device(h), m)
  /\ sent' = IF m = "data" THEN sent + 1 ELSE sent
  /\ src' = IF Device(h) = "source" /\ m = "close" THEN "ended" ELSE src
  /\ tgt' = IF Device(h) = "target"
            THEN CASE m = "open" -> "open" [] m \in {"close", "error"} -> "ended" [] OTHER -> tgt
            ELSE tgt
  /\ IF ~mapped THEN UNCHANGED <<at, arg>>
     ELSE IF agents[Other(Device(h))] = 0 THEN GotoWith(h, "close", "interrupted")
     ELSE GotoWith(h, IF m = "data" THEN "count" ELSE "write", m)
  /\ UNCHANGED <<agents, sess, record, offered, counted, relayed>>

CountData(h) ==
  /\ at[h] = "count"
  /\ IF transport = "relay" THEN RecorderAdd ELSE UNCHANGED <<pend, row, counted>>
  /\ Goto(h, "write")
  /\ UNCHANGED <<agents, sess, recClosed, arg, ends, relayed>>

\* The message reaches the other agent ...
Routed(h) ==
  /\ at[h] = "write" /\ agents[Other(Device(h))] # 0
  /\ LET m == arg[h]
         told == m \in {"close", "error"}
     IN  /\ src' = IF Device(h) = "target" /\ src = "wait" /\ m = "open" THEN "relay"
                   ELSE IF Device(h) = "target" /\ told THEN "ended" ELSE src
         /\ tgt' = IF Device(h) = "source" /\ told THEN "ended" ELSE tgt
         /\ IF told
            THEN GotoWith(h, "close", IF m = "error" THEN "failed" ELSE "closed")
            ELSE GotoWith(h, "idle", "none")
         /\ offered' = (offered \/ (Device(h) = "source" /\ m = "signal"))
  /\ UNCHANGED <<agents, sess, record, sent, counted, relayed>>

\* ... or the write fails.
RouteFails(h) ==
  /\ at[h] = "write"
  /\ GotoWith(h, "close", "interrupted")
  /\ UNCHANGED <<agents, sess, record, ends, counted, relayed>>

-----------------------------------------------------------------------------
(* closeForward.                                                           *)

CloseForward(t) ==
  /\ at[t] = "close"
  /\ mapped' = FALSE
  /\ IF mapped THEN Goto(t, "finish") /\ UNCHANGED arg ELSE GotoWith(t, Back(t), "none")
  /\ UNCHANGED <<agents, direct, transport, timer, record, ends, counted, relayed>>

\* stopTimer, and Close of the recorder.
FinishClose(t) ==
  /\ at[t] = "finish"
  /\ timer' = FALSE
  /\ at' = [x \in Threads |-> IF x = t THEN Back(t)
                              ELSE IF x = "timer" /\ timer /\ at[x] = "armed" THEN "gone"
                              ELSE at[x]]
  /\ RecorderClose(arg[t])
  /\ arg' = [arg EXCEPT ![t] = "none"]
  /\ UNCHANGED <<agents, mapped, direct, transport, ends, counted, relayed>>

-----------------------------------------------------------------------------
(* The agents' connections come and go.                                    *)

\* An agent that lost its connection has closed its end of the tunnel
\* (cleanupSessions); a direct copy loop still reports its end later.
LoseEnd(d) ==
  /\ src' = IF d = "source" /\ src \in {"wait", "relay"} THEN "ended" ELSE src
  /\ tgt' = IF d = "target" /\ tgt \in {"asked", "open"} THEN "ended" ELSE tgt

\* The device connects again.  The new entry replaces the old connection, which
\* is closed.
Reconnect(h) ==
  /\ Epoch(h) = 2 /\ Device(h) \in Returning /\ at[h] = "off"
  /\ agents' = [agents EXCEPT ![Device(h)] = 2]
  /\ Goto(h, "idle")
  /\ LoseEnd(Device(h))
  /\ UNCHANGED <<sess, record, arg, offered, sent, counted, relayed>>

\* The read loop ends; removeAgent deletes the entry if it is still its own.
LoopEnds(h) ==
  /\ at[h] = "idle"
  /\ IF agents[Device(h)] = Epoch(h)
     THEN /\ agents' = [agents EXCEPT ![Device(h)] = 0]
          /\ Goto(h, "teardown") /\ LoseEnd(Device(h))
     ELSE Goto(h, "gone") /\ UNCHANGED <<agents, src, tgt>>
  /\ UNCHANGED <<sess, record, arg, offered, sent, counted, relayed>>

\* Faulty variant: only sessions the device opened itself are found.
TeardownSourceOnly(h) ==
  /\ at[h] = "teardown"
  /\ mapped' = (mapped /\ Device(h) = "target")
  /\ Goto(h, IF mapped /\ Device(h) = "source" THEN "tearRecord" ELSE "gone")
  /\ UNCHANGED <<agents, direct, transport, timer, record, arg, ends, counted, relayed>>

\* closeAgentForwards: the sessions of the device leave the map ...
Teardown(h) ==
  /\ at[h] = "teardown"
  /\ mapped' = FALSE
  /\ Goto(h, IF mapped THEN "tearRecord" ELSE "gone")
  /\ UNCHANGED <<agents, direct, transport, timer, record, arg, ends, counted, relayed>>

\* ... their rows end as interrupted ...
TeardownRecord(h) ==
  /\ at[h] = "tearRecord"
  /\ RecorderClose("interrupted")
  /\ Goto(h, "tearNotify")
  /\ UNCHANGED <<agents, sess, arg, ends, counted, relayed>>

\* ... and the other side gets forward:close if it is online.
TeardownNotify(h) ==
  /\ at[h] = "tearNotify"
  /\ LET told == IF agents[Other(Device(h))] = 0 THEN "nobody" ELSE Other(Device(h))
     IN  /\ src' = IF told = "source" THEN "ended" ELSE src
         /\ tgt' = IF told = "target" /\ tgt # "none" THEN "ended" ELSE tgt
  /\ Goto(h, "gone")
  /\ UNCHANGED <<agents, sess, record, arg, offered, sent, counted, relayed>>

\* The two decisions of the source agent: the data channel opens while it waits,
\* or ten seconds pass.
SourceDirect ==
  /\ src = "wait" /\ offered
  /\ src' = "direct"
  /\ UNCHANGED <<agents, sess, record, at, arg, tgt, offered, sent, counted, relayed>>

SourceGivesUp ==
  /\ src = "wait"
  /\ src' = "ended"
  /\ UNCHANGED <<agents, sess, record, at, arg, tgt, offered, sent, counted, relayed>>

\* The process stops and starts again: NewRegistry ends the rows left active.
Restart ==
  /\ at["src1"] # "gone" \/ at["timer"] # "gone"
  /\ agents' = [d \in Devices |-> 0]
  /\ mapped' = FALSE /\ timer' = FALSE /\ pend' = 0
  /\ row' = IF row.state = "active" THEN [row EXCEPT !.state = "interrupted"] ELSE row
  /\ at' = [t \in Threads |-> "gone"] /\ arg' = [t \in Threads |-> "none"]
  /\ src' = "ended" /\ tgt' = "ended"
  /\ UNCHANGED <<direct, transport, recClosed, offered, sent, counted, relayed>>

-----------------------------------------------------------------------------
(* The specification.                                                      *)

Messages == {"signal", "data", "open", "error", "close"}

SessionInit ==
  /\ agents = [d \in Devices |-> 1]
  /\ mapped = FALSE /\ direct = FALSE /\ transport = "negotiating" /\ timer = FALSE
  /\ row = [state |-> "none", transport |-> "negotiating", bytes |-> 0]
  /\ pend = 0 /\ recClosed = FALSE
  /\ at = [t \in Threads |->
             IF t \in {"src1", "tgt1"} THEN "idle" ELSE "off"]
  /\ arg = [t \in Threads |-> "none"]
  /\ src = "none" /\ tgt = "none" /\ offered = FALSE
  /\ sent = 0 /\ counted = 0 /\ relayed = FALSE

Timer == TimerFires \/ MarkRelay \/ SetRelay \/ (\E ok \in BOOLEAN : StartRelayFallback(ok))

Closing(t) == CloseForward(t) \/ FinishClose(t)

\* The steps of a read loop between two messages.
Working(h) ==
  \/ SetDirect(h) \/ CountData(h) \/ Routed(h) \/ RouteFails(h)
  \/ Teardown(h) \/ TeardownRecord(h) \/ TeardownNotify(h)

Receiving(h) == DirectOK(h) \/ \E m \in Messages : RelayLookup(h, m)

SessionNext ==
  \/ ConnectRefused \/ ConnectAccepted
  \/ InsertForward \/ ArmTimer \/ Timer
  \/ \E t \in Threads : Closing(t)
  \/ \E h \in Handlers : Receiving(h) \/ Working(h) \/ Reconnect(h) \/ LoopEnds(h)
  \/ SourceDirect \/ SourceGivesUp \/ Restart

SessionSpec == SessionInit /\ [][SessionNext]_sessionVars

\* A thread that has work does it, the timer fires, a replaced connection's read
\* loop ends, and the target answers forward:connect or loses its connection.
\* Nothing else need ever arrive.
SessionFairness ==
  /\ WF_sessionVars(InsertForward \/ ArmTimer)
  /\ WF_sessionVars(Timer \/ Closing("timer"))
  /\ \A h \in Handlers :
       WF_sessionVars(Closing(h) \/ Working(h) \/ (agents[Device(h)] # Epoch(h) /\ LoopEnds(h)))
  /\ WF_sessionVars(\E h \in Handlers : tgt = "asked" /\ RelayLookup(h, "open"))

SessionFairSpec == SessionSpec /\ SessionFairness

-----------------------------------------------------------------------------
(* Properties.                                                             *)

EndStates == {"closed", "failed", "interrupted"}

\* The bytes of a closed row are exactly those counted, although read loops of
\* both agents, closeForward, closeAgentForwards and late chunks interleave: the
\* last batch is not lost and nothing is added afterwards.
ClosedRowComplete == recClosed => row.bytes = counted /\ row.state \in EndStates

\* A direct path reported before the timer callback switched to the relay
\* suppresses the fallback: the target is never asked to dial a second stream.
DirectSuppressesRelay ==
  [](direct /\ ~relayed /\ at["timer"] \notin {"setRelay", "fallback"} => []~relayed)

\* A tunnel does not negotiate for ever: it becomes direct or relayed, or ends; and
\* its row does not stay active once it left the map, even over a crash.
SessionSettles ==
  /\ []<>(~mapped \/ transport # "negotiating")
  /\ []<>(mapped \/ row.state # "active")

\* A session does not outlive its devices.  If the target stays offline it leaves
\* the map, also when it was inserted after the target's teardown had run; and so
\* it does if a source that was online after the insertion stays offline.
LostDeviceEndsSession ==
  /\ <>[](agents["target"] = 0) => <>[](~mapped)
  /\ [](mapped /\ agents["source"] # 0 => (<>[](agents["source"] = 0) => <>(~mapped)))

\* "closeAgentForwards tears down relay sessions when one side goes offline": if
\* the source stays offline, the target's end does not stay open.
OfflineSourceFreesTarget ==
  <>[](agents["source"] = 0) => []<>(tgt \notin {"asked", "open"})
=============================================================================
