---------------------------- MODULE ForwardConn ----------------------------
(***************************************************************************)
(* One forwardConn of the agent (internal/agent/agent.go): the local TCP   *)
(* end of a relayed tunnel, with the goroutines that share it.             *)
(*                                                                         *)
(*   ctl      the control loop (handleMessage, and connectOnce's cleanup)  *)
(*   owner    handleForwardClient or the goroutine of handleForwardTarget, *)
(*            then readForward and finishForward                           *)
(*   writer1, writer2   the writeLoop goroutines of the two startWriter    *)
(*            calls a session can make                                     *)
(*   timer    the drain timer that gracefulClose arms                      *)
(*                                                                         *)
(* One step is one critical section of f.mu or a.mu, one channel operation *)
(* or one call that can block.  Chunks are numbered in order of arrival;   *)
(* their bytes play no part.                                               *)
(***************************************************************************)
EXTENDS Integers, Sequences, FiniteSets

CONSTANTS Cap,        \* capacity of the writes channel (65 in the code)
          MaxChunks   \* bound on the forward:data messages of a behaviour

ASSUME CapAssumption == Cap \in Nat /\ Cap >= 2
ASSUME MaxChunksAssumption == MaxChunks \in Nat

EOF == 0                              \* forwardWrite{close: true}
NoEnd == -1
Writers == {"writer1", "writer2"}
Actors == {"ctl", "owner", "timer"} \cup Writers

VARIABLES
  role,        \* "source" (accepted a client) or "target" (dials a service)
  conn,        \* f.conn: "nil", "open" or "shut"
  closed,      \* f.closed
  cause,       \* which Close call closed f ("none" while open)
  cancelled,   \* f.ctx is done
  writes,      \* the buffered channel f.writes
  writing,     \* f.writing
  draining,    \* f.draining
  owed,        \* value of arrived when gracefulClose queued its marker
  registered,  \* a.forwards[sessionID] = f: "yes", or who deleted it:
               \* "finished" (finishForward) or "removed" (control loop)
  current,     \* a.ws is still the connection f.ws of this session
  opened,      \* forward:open sent (target) or waiting in relayReady (source)
  notified,    \* the relay was told by forward:close or forward:error
  item,        \* the item each writer took from the channel
  arrived,     \* forward:data messages so far
  written,     \* chunks the local socket accepted, in order
  pc           \* where each goroutine is

sock == <<conn, closed, cause, cancelled>>
queue == <<writes, writing, draining, owed>>
session == <<role, registered, current, opened, notified>>
data == <<item, arrived, written>>
vars == <<sock, queue, session, data, pc>>

-----------------------------------------------------------------------------
(* Close: the first caller marks f closed under f.mu, and then, outside    *)
(* the lock, stops the timer, cancels ctx and shuts the socket.            *)

\* Where a goroutine continues once its Close call returns.
Resume(a) == IF a = "ctl" THEN "idle" ELSE "done"

CallClose(a, c) ==
  /\ closed' = TRUE
  /\ cause' = IF closed THEN cause ELSE c
  /\ pc' = [pc EXCEPT ![a] = IF closed THEN Resume(a) ELSE "release"]
  /\ UNCHANGED <<conn, cancelled, queue, session, data>>

Release(a) ==
  /\ pc[a] = "release"
  /\ cancelled' = TRUE
  /\ conn' = IF conn = "nil" THEN "nil" ELSE "shut"
  /\ pc' = [x \in Actors |->
              IF x = a THEN Resume(a)
              ELSE IF x = "timer" /\ pc[x] = "armed" THEN "done" ELSE pc[x]]
  /\ UNCHANGED <<closed, cause, queue, session, data>>

-----------------------------------------------------------------------------
(* The control loop.                                                       *)

CtlGoto(label) == pc' = [pc EXCEPT !["ctl"] = label]
CtlIdle == pc["ctl"] = "idle" /\ current

\* forward:data looks the session up under a.mu.  A peer sends data only once
\* the tunnel is open: to the target after it sent forward:open, to the source
\* after it received it.
RecvData ==
  /\ CtlIdle /\ opened /\ arrived < MaxChunks
  /\ arrived' = arrived + 1
  /\ CtlGoto(IF registered = "yes" THEN "enqueue" ELSE "idle")
  /\ UNCHANGED <<sock, queue, session, item, written>>

\* The critical section of enqueue, given the backlog it accepts.
EnqueueUpTo(backlog) ==
  /\ pc["ctl"] = "enqueue"
  /\ LET drops == closed \/ draining
         full == Len(writes) >= backlog
     IN  /\ writes' = IF drops \/ full THEN writes ELSE Append(writes, arrived)
         /\ CtlGoto(IF ~drops /\ full THEN "overflow" ELSE "idle")
  /\ UNCHANGED <<sock, writing, draining, owed, session, data>>

\* Faulty variant: no slot is kept for the marker.
EnqueueFillsChannel == EnqueueUpTo(Cap)

\* enqueue keeps the last slot of the channel free for the end marker, and
\* closes the session when the backlog is full.
Enqueue == EnqueueUpTo(Cap - 1)

\* forward:close looks the session up under a.mu.
RecvClose ==
  /\ CtlIdle /\ registered = "yes"
  /\ CtlGoto("gracefulClose")
  /\ UNCHANGED <<sock, queue, session, data>>

\* The critical section of gracefulClose, given the state of the drain timer it
\* leaves.  Without a running writer it closes at once.
GracefulCloseWith(timer) ==
  /\ pc["ctl"] = "gracefulClose"
  /\ \/ /\ closed \/ draining \/ ~writing \/ conn = "nil"
        /\ CtlGoto(IF closed \/ draining THEN "idle" ELSE "early")
        /\ UNCHANGED queue
     \/ /\ ~closed /\ ~draining /\ writing /\ conn # "nil"
        /\ Len(writes) < Cap
        /\ draining' = TRUE /\ writes' = Append(writes, EOF) /\ owed' = arrived
        /\ pc' = [pc EXCEPT !["ctl"] = "idle", !["timer"] = timer]
        /\ UNCHANGED writing
  /\ UNCHANGED <<sock, session, data>>

\* Faulty variant: the timer is not armed.
GracefulCloseNoTimer == GracefulCloseWith("off")

\* The end marker goes behind the queued data; the send waits for a free slot
\* with f.mu held.
GracefulClose == GracefulCloseWith("armed")

\* forward:error deletes the registration and then closes.
RecvError ==
  /\ CtlIdle /\ registered = "yes"
  /\ registered' = "removed"
  /\ CtlGoto("forced")
  /\ UNCHANGED <<sock, queue, role, current, opened, notified, data>>

\* forward:open is put in relayReady while the client goroutine still waits.
RecvOpen ==
  /\ CtlIdle /\ role = "source" /\ pc["owner"] = "wait" /\ ~opened
  /\ opened' = TRUE
  /\ UNCHANGED <<sock, queue, role, registered, current, notified, data, pc>>

\* The control connection ends: a.ws is cleared first ...
LoseConn ==
  /\ CtlIdle
  /\ current' = FALSE
  /\ CtlGoto("cleanup")
  /\ UNCHANGED <<sock, queue, role, registered, opened, notified, data>>

\* ... then cleanupSessions empties the maps and closes what they held.
CleanupSessions ==
  /\ pc["ctl"] = "cleanup"
  /\ registered' = IF registered = "yes" THEN "removed" ELSE registered
  /\ CtlGoto(IF registered = "yes" THEN "forced" ELSE "idle")
  /\ UNCHANGED <<sock, queue, role, current, opened, notified, data>>

CtlClose == pc["ctl"] \in {"overflow", "early", "forced"} /\ CallClose("ctl", pc["ctl"])

DrainTimeout == pc["timer"] = "armed" /\ CallClose("timer", "timeout")

-----------------------------------------------------------------------------
(* The writers: writeLoop and the Write calls it makes.                    *)

WriterGoto(w, label) == pc' = [pc EXCEPT ![w] = label]

Take(w) ==
  /\ pc[w] = "loop" /\ writes # <<>>
  /\ item' = [item EXCEPT ![w] = Head(writes)]
  /\ writes' = Tail(writes)
  /\ WriterGoto(w, IF Head(writes) = EOF THEN "eof" ELSE "write")
  /\ UNCHANGED <<sock, writing, draining, owed, session, arrived, written>>

\* The other arm of writeLoop's select.
WriterExit(w) ==
  /\ pc[w] = "loop" /\ cancelled
  /\ WriterGoto(w, "done")
  /\ UNCHANGED <<sock, queue, session, data>>

\* The socket takes the chunk.  A Write that fetched the socket before f was
\* marked closed may still succeed until Release shuts the socket.
WriteOK(w) ==
  /\ pc[w] = "write" /\ conn = "open"
  /\ written' = Append(written, item[w])
  /\ WriterGoto(w, "loop")
  /\ UNCHANGED <<sock, queue, session, item, arrived>>

\* Write fails: the local peer reset the connection, the write deadline passed,
\* f is closed or the socket was shut under the call.
WriteErr(w) ==
  /\ pc[w] = "write"
  /\ WriterGoto(w, "writeErr")
  /\ UNCHANGED <<sock, queue, session, data>>

WriterClose(w) == pc[w] \in {"eof", "writeErr"} /\ CallClose(w, pc[w])

-----------------------------------------------------------------------------
(* The owner goroutine.                                                    *)

OwnerGoto(label) == pc' = [pc EXCEPT !["owner"] = label]

\* A step that only decides where to continue.
OwnerMove(from, label) ==
  pc["owner"] = from /\ OwnerGoto(label) /\ UNCHANGED <<sock, queue, session, data>>

\* startWriter, as the call that would start goroutine w if starts holds.
StartWriterIf(starts, w, label) ==
  /\ writing' = (writing \/ starts)
  /\ pc' = [pc EXCEPT !["owner"] = label, ![w] = IF starts THEN "loop" ELSE @]
  /\ UNCHANGED <<sock, writes, draining, owed, session, data>>

\* Faulty variant: every call starts a goroutine.
StartWriterAgain(w, label) == StartWriterIf(~closed, w, label)

StartWriter(w, label) == StartWriterIf(~closed /\ ~writing, w, label)

\* handleForwardClient: the client is accepted and registered, its writer is
\* started and forward:connect is sent; a failed send shuts the socket.
ClientStart == role = "source" /\ pc["owner"] = "init" /\ StartWriter("writer1", "connect")

ClientConnect ==
  /\ pc["owner"] = "connect"
  /\ conn' = IF current THEN conn ELSE "shut"
  /\ OwnerGoto(IF current THEN "wait" ELSE "finish")
  /\ UNCHANGED <<closed, cause, cancelled, queue, session, data>>

\* The select of handleForwardClient: ctx.Done, relayReady with forward:open,
\* directReady (unless the session is gone), and the ten second timeout, which
\* shuts the client socket.
ClientCancelled == cancelled /\ OwnerMove("wait", "finish")
ClientRelay == opened /\ OwnerMove("wait", "start")
ClientDirect ==
  OwnerMove("wait", IF cancelled \/ registered # "yes" THEN "finish" ELSE "direct")
ClientTimeout ==
  /\ pc["owner"] = "wait"
  /\ conn' = "shut"
  /\ OwnerGoto("finish")
  /\ UNCHANGED <<closed, cause, cancelled, queue, session, data>>

\* copyLocalToChannel returns when the socket or the data channel fails, and
\* tells the server.
DirectEnds ==
  /\ pc["owner"] = "direct"
  /\ notified' = (notified \/ current)
  /\ OwnerGoto("finish")
  /\ UNCHANGED <<sock, queue, role, registered, current, opened, data>>

\* handleForwardTarget's goroutine dials the service; a failed dial is reported
\* unless the session was cancelled.
Dial(ok) ==
  /\ role = "target" /\ pc["owner"] = "init"
  /\ notified' = (notified \/ (~ok /\ ~cancelled /\ current))
  /\ OwnerGoto(IF ok THEN "attach" ELSE "finish")
  /\ UNCHANGED <<sock, queue, role, registered, current, opened, data>>

\* attach closes the new socket itself if f was closed meanwhile.
Attach ==
  /\ pc["owner"] = "attach"
  /\ conn' = IF closed THEN conn ELSE "open"
  /\ OwnerGoto(IF closed THEN "finish" ELSE "start")
  /\ UNCHANGED <<closed, cause, cancelled, queue, session, data>>

\* startWriter before readForward: the only call on the target, the second one
\* on the source.
OwnerStart ==
  /\ pc["owner"] = "start"
  /\ IF role = "target" THEN StartWriter("writer1", "open") ELSE StartWriter("writer2", "read")

TargetOpen ==
  /\ pc["owner"] = "open"
  /\ opened' = current
  /\ OwnerGoto(IF current THEN "read" ELSE "finish")
  /\ UNCHANGED <<sock, queue, role, registered, current, notified, data>>

\* readForward leaves its loop: end of file or an error from the local socket,
\* f closed, or a send on a control connection that is gone.  Chunks it reads
\* and relays before that change nothing here.
ReadEnds == OwnerMove("read", "ended")

\* Faulty variant: any session that is already closed ends silently.
AfterReadSilent == OwnerMove("ended", IF draining \/ closed THEN "await" ELSE "notify")

\* isDraining is read once more after the loop.
AfterRead == OwnerMove("ended", IF draining THEN "await" ELSE "notify")

AwaitDrained == cancelled /\ OwnerMove("await", "finish")

\* forward:close goes to the relay unless the control loop removed the session.
NotifyRelay ==
  /\ pc["owner"] = "notify"
  /\ notified' = (notified \/ (registered = "yes" /\ current))
  /\ OwnerGoto("finish")
  /\ UNCHANGED <<sock, queue, role, registered, current, opened, data>>

\* finishForward deletes the registration if it is still its own, then closes.
FinishForward ==
  /\ pc["owner"] = "finish"
  /\ registered' = IF registered = "yes" THEN "finished" ELSE registered
  /\ OwnerGoto("close")
  /\ UNCHANGED <<sock, queue, role, current, opened, notified, data>>

OwnerClose == pc["owner"] = "close" /\ CallClose("owner", "finish")

-----------------------------------------------------------------------------
(* The specification.                                                      *)

\* A source session starts with an accepted client socket, a target session
\* with a reservation that has no socket yet.  Both are registered under a.mu
\* with the control connection of that moment.
Init ==
  /\ role \in {"source", "target"}
  /\ conn = IF role = "source" THEN "open" ELSE "nil"
  /\ closed = FALSE /\ cause = "none" /\ cancelled = FALSE
  /\ writes = <<>> /\ writing = FALSE /\ draining = FALSE /\ owed = NoEnd
  /\ registered = "yes" /\ current = TRUE /\ opened = FALSE /\ notified = FALSE
  /\ item = [w \in Writers |-> EOF] /\ arrived = 0 /\ written = <<>>
  /\ pc = [a \in Actors |->
             IF a = "ctl" THEN "idle" ELSE IF a = "owner" THEN "init" ELSE "off"]

Ctl ==
  \/ RecvData \/ Enqueue \/ RecvClose \/ GracefulClose \/ RecvError \/ RecvOpen
  \/ LoseConn \/ CleanupSessions \/ CtlClose

Owner ==
  \/ ClientStart \/ ClientConnect \/ ClientCancelled \/ ClientRelay \/ ClientDirect
  \/ ClientTimeout \/ DirectEnds \/ (\E ok \in BOOLEAN : Dial(ok)) \/ Attach
  \/ OwnerStart \/ TargetOpen \/ ReadEnds \/ AfterRead \/ AwaitDrained
  \/ NotifyRelay \/ FinishForward \/ OwnerClose

Writer(w) == Take(w) \/ WriterExit(w) \/ WriteOK(w) \/ WriteErr(w) \/ WriterClose(w)

Next ==
  \/ Ctl
  \/ Owner
  \/ \E w \in Writers : Writer(w)
  \/ DrainTimeout
  \/ \E a \in Actors : Release(a)

Spec == Init /\ [][Next]_vars

\* Every goroutine that can run does run, timers fire, and a dial, a select with
\* a timeout or a call on a closed socket returns.  Nothing is assumed of the
\* peers: a socket may block writes and stay silent for ever, and no message
\* need arrive.
Fairness ==
  /\ WF_vars(Enqueue \/ GracefulClose \/ CleanupSessions \/ CtlClose)
  /\ WF_vars(DrainTimeout)
  /\ \A a \in Actors : WF_vars(Release(a))
  /\ \A w \in Writers :
       /\ WF_vars(Take(w) \/ WriterExit(w) \/ WriterClose(w))
       /\ WF_vars((closed \/ conn # "open") /\ WriteErr(w))
  /\ WF_vars(\/ ClientStart \/ ClientConnect \/ ClientCancelled \/ ClientTimeout
             \/ (\E ok \in BOOLEAN : Dial(ok)) \/ Attach \/ OwnerStart \/ TargetOpen
             \/ AfterRead \/ AwaitDrained \/ NotifyRelay \/ FinishForward \/ OwnerClose)
  /\ WF_vars((closed \/ conn # "open") /\ (ReadEnds \/ DirectEnds))

FairSpec == Spec /\ Fairness

-----------------------------------------------------------------------------
(* Properties.                                                             *)

CtlLabels == {"idle", "enqueue", "gracefulClose", "overflow", "early", "forced",
              "cleanup", "release"}
OwnerLabels == {"init", "connect", "wait", "direct", "attach", "start", "open", "read",
                "ended", "await", "notify", "finish", "close", "release", "done"}
WriterLabels == {"off", "loop", "write", "eof", "writeErr", "release", "done"}
TimerLabels == {"off", "armed", "release", "done"}
Causes == {"none", "overflow", "early", "forced", "timeout", "eof", "writeErr", "finish"}

\* The variables keep their types, and the channel never holds more items than
\* its capacity.
TypeOK ==
  /\ role \in {"source", "target"}
  /\ conn \in {"nil", "open", "shut"}
  /\ closed \in BOOLEAN /\ cause \in Causes /\ cancelled \in BOOLEAN
  /\ writes \in Seq(Nat) /\ Len(writes) <= Cap
  /\ writing \in BOOLEAN /\ draining \in BOOLEAN /\ owed \in Nat \cup {NoEnd}
  /\ registered \in {"yes", "finished", "removed"}
  /\ current \in BOOLEAN /\ opened \in BOOLEAN /\ notified \in BOOLEAN
  /\ item \in [Writers -> Nat] /\ arrived \in Nat /\ written \in Seq(Nat)
  /\ pc \in [Actors -> CtlLabels \cup OwnerLabels \cup WriterLabels \cup TimerLabels]
  /\ pc["ctl"] \in CtlLabels /\ pc["owner"] \in OwnerLabels /\ pc["timer"] \in TimerLabels
  /\ \A w \in Writers : pc[w] \in WriterLabels

\* "Preserve frame order": whatever reached the local socket is a gapless
\* prefix of the data that arrived, although a session calls startWriter twice
\* and enqueue, both kinds of close and the writers interleave freely.
InOrder == Len(written) <= arrived /\ \A i \in 1..Len(written) : written[i] = i

\* "Relay EOF is ordered behind all preceding data": when the end marker is what
\* closes the session, the socket has taken every chunk that arrived before
\* forward:close.
CleanCloseDeliversAll == cause = "eof" => Len(written) = owed

\* gracefulClose sends its marker while holding f.mu, so it must never find the
\* channel full: Close, and with it every way to end the session, would wait for
\* f.mu behind a peer that does not read.
MarkerSlotFree == ~closed /\ ~draining => Len(writes) < Cap

\* When the owner goroutine is gone the session is unregistered and closed, and
\* a socket still open is about to be shut by the goroutine inside Close.
NoSocketLeak ==
  pc["owner"] = "done" =>
    /\ registered # "yes" /\ closed
    /\ conn = "open" => \E a \in Actors : pc[a] = "release"

\* What one direction of the tunnel promises, see ByteStream.
Stream == INSTANCE ByteStream
            WITH offered <- arrived, out <- written,
                 phase <- IF ~closed THEN "open"
                          ELSE IF cause = "eof" THEN "finished" ELSE "aborted"

ImplementsByteStream == Stream!Spec

Terminated ==
  /\ conn # "open" /\ registered # "yes"
  /\ pc["owner"] = "done" /\ pc["timer"] \in {"off", "done"}
  /\ \A w \in Writers : pc[w] \in {"off", "done"}

\* Graceful or forced, a shutdown once begun completes even if the local peer
\* never reads another byte: goroutines end, the socket is shut and the session
\* is unregistered.
ShutdownCompletes == (draining \/ closed \/ registered # "yes") ~> Terminated

LocalFailure == closed /\ cause \in {"overflow", "writeErr"} /\ ~draining
RelayKnows == notified \/ registered = "removed" \/ ~current

\* readForward: "Local IO errors/backlog overflow still need to notify the
\* relay".  A session that fails locally tells the relay, unless the relay or a
\* reconnect removed it first.  This holds for the side that dials the service,
\* whose owner always goes through readForward once data can arrive; on the other
\* side a failure while handleForwardClient still waits for the path ends it by
\* ctx.Done, without forward:close.
TargetFailureNotifiesRelay == (LocalFailure /\ role = "target") ~> RelayKnows
=============================================================================
