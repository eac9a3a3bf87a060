--------------------------- MODULE TerminalProofs ---------------------------
(***************************************************************************)
(* Proofs about Terminal, for any amount of output and any number of       *)
(* events: the row tells what the user has seen, the waiting overlay never *)
(* covers a live session, and an agent that was told to relay puts no more *)
(* output on the data channel.                                             *)
(*                                                                         *)
(* All rest on the life of one fallback: the console asks for it once and  *)
(* closes its peer, the server grants it once, under sessionsMu, and       *)
(* records it before it tells the console and the agent.                   *)
(***************************************************************************)
EXTENDS Terminal, TLAPS

Stages == Waiting \cup TerminalStages

ViewType ==
  [sock : {"connecting", "open", "closing", "closed"}, disposed : BOOLEAN,
   requested : BOOLEAN, acked : BOOLEAN, directActive : BOOLEAN, relayActive : BOOLEAN,
   received : BOOLEAN, live : BOOLEAN, directTimer : BOOLEAN, relayTimer : BOOLEAN,
   stage : Stages, offer : {"none", "making", "made"}, peer : {"none", "open", "closed"},
   answered : BOOLEAN, chan : {"none", "open", "closed"}, failed : BOOLEAN]

Ups == {"offer", "ice", "fallback", "input", "stop", "bye"}
Downs == {"answer", "ok", "derr", "relay", "output", "exit", "error", "close"}

Handlers == {"start", "read", "record", "unlist", "close", "hangup", "gone"}
Routers == {"idle", "exit", "error", "exited", "errored", "answer", "ok", "derr"}
Alive == {"connecting", "open"}  \* the states of a socket that may still bring frames

\* The types of the state that the browser and the server share.
TInv ==
  /\ b \in ViewType /\ up \in Seq(Ups) /\ down \in Seq(Downs)
  /\ handler \in Handlers
  /\ transport \in {"negotiating", "direct", "relay"} /\ listed \in BOOLEAN
  /\ wsOpen \in BOOLEAN /\ gaveUp \in BOOLEAN
  /\ row \in [state : {"none", "active", "failed", "closed"},
              transport : {"negotiating", "direct", "relay"}]
  /\ router \in Routers

Has(q, m) == \E i \in 1..Len(q) : q[i] = m
Once(q, m) == \A i, j \in 1..Len(q) : q[i] = m /\ q[j] = m => i = j

\* What the view x shows as live is live over the path in use, and is shown.
ViewInv(x) ==
  /\ x.live => x.stage \in TerminalStages
  /\ x.live => ~x.requested \/ x.relayActive
  /\ x.directActive => ~x.requested
  /\ x.relayActive => x.requested

\* The fallback: asked for, granted, recorded, and announced once.
RelayInv ==
  /\ Has(up, "fallback") => b.requested
  /\ transport = "relay" => b.requested /\ ~Locked
  /\ handler = "record" => transport = "relay" /\ ~Has(down, "relay") /\ ~b.relayActive
  /\ transport = "relay" /\ handler # "record" => row.transport = "relay"
  /\ Has(down, "relay") => transport = "relay" /\ handler # "record" /\ ~b.relayActive
  /\ Once(down, "relay")
  /\ b.relayActive => transport = "relay"

\* The console has said that it leaves.
Leaving(q) == Has(q, "stop") \/ Has(q, "bye")

\* What the server writes reaches the console.
Reaches == wsOpen /\ b.sock \in Alive

ErrorKept == row.state = "failed" \/ (gaveUp /\ row.state = "closed")

\* The end: a row that is closed while the console can still be told of an error was
\* closed by the router for an exit, or by a handler that gave up.
RowInv ==
  /\ handler = "start" => /\ row.state = "none" /\ ~listed /\ ~Has(down, "error") /\ ~b.failed
                          /\ router \notin {"exit", "error", "exited", "errored"}
  /\ handler # "start" => row.state # "none"
  /\ Leaving(up) => b.sock \notin Alive
  /\ handler \in {"unlist", "close"} /\ row.state = "active" /\ Reaches => gaveUp
  /\ row.state = "closed" /\ Reaches => gaveUp \/ router = "exited"
  /\ router = "errored" /\ Reaches => ErrorKept
  /\ Has(down, "error") \/ b.failed => ErrorKept

IInv == TInv /\ ViewInv(b) /\ RelayInv /\ RowInv

-----------------------------------------------------------------------------
(* Queues.                                                                 *)

\* What an appended frame adds.
LEMMA HasAppend ==
  ASSUME NEW S, NEW q \in Seq(S), NEW m \in S
  PROVE  /\ Append(q, m) \in Seq(S)
         /\ \A x : Has(Append(q, m), x) <=> Has(q, x) \/ m = x
         /\ \A x : Once(q, x) /\ (m # x \/ ~Has(q, x)) => Once(Append(q, m), x)
<1>1. /\ Append(q, m) \in Seq(S) /\ Len(q) \in Nat /\ Len(Append(q, m)) = Len(q) + 1
      /\ \A i \in 1..Len(q) : Append(q, m)[i] = q[i]
      /\ Append(q, m)[Len(q) + 1] = m
  OBVIOUS
<1>2. \A i \in 1..(Len(q) + 1) : i \in 1..Len(q) \/ i = Len(q) + 1
  BY <1>1
<1>3. Len(q) + 1 \in 1..(Len(q) + 1) /\ 1..Len(q) \subseteq 1..(Len(q) + 1)
  BY <1>1
<1>4. ASSUME NEW x PROVE Has(Append(q, m), x) <=> Has(q, x) \/ m = x
  BY <1>1, <1>2, <1>3, Zenon DEF Has
<1>5. ASSUME NEW x, Once(q, x), m # x \/ ~Has(q, x) PROVE Once(Append(q, m), x)
  BY <1>1, <1>2, <1>3, <1>5, Zenon DEF Has, Once
<1> QED
  BY <1>1, <1>4, <1>5

\* What the first frame leaves.
LEMMA HasTail ==
  ASSUME NEW S, NEW q \in Seq(S), q # <<>>
  PROVE  /\ Tail(q) \in Seq(S) /\ Head(q) \in S /\ Has(q, Head(q))
         /\ \A x : Has(Tail(q), x) => Has(q, x)
         /\ \A x : Once(q, x) => Once(Tail(q), x)
         /\ \A x : Once(q, x) /\ Head(q) = x => ~Has(Tail(q), x)
<1>1. /\ Tail(q) \in Seq(S) /\ Head(q) \in S /\ Head(q) = q[1] /\ Len(q) \in Nat /\ Len(q) >= 1
      /\ Len(Tail(q)) = Len(q) - 1
      /\ \A i \in 1..Len(Tail(q)) : Tail(q)[i] = q[i + 1]
  OBVIOUS
<1>2. /\ 1 \in 1..Len(q)
      /\ \A i \in 1..Len(Tail(q)) : i + 1 \in 1..Len(q) /\ i + 1 # 1
      /\ \A i, j \in 1..Len(Tail(q)) : i + 1 = j + 1 => i = j
  BY <1>1
<1>3. Has(q, Head(q))
  BY <1>1, <1>2, Zenon DEF Has
<1>4. ASSUME NEW x PROVE Has(Tail(q), x) => Has(q, x)
  BY <1>1, <1>2, Zenon DEF Has
<1>5. ASSUME NEW x, Once(q, x) PROVE Once(Tail(q), x)
  BY <1>1, <1>2, <1>5, Zenon DEF Once
<1>6. ASSUME NEW x, Once(q, x), Head(q) = x PROVE ~Has(Tail(q), x)
  BY <1>1, <1>2, <1>6, Zenon DEF Has, Once
<1> QED
  BY <1>1, <1>3, <1>4, <1>5, <1>6

\* A prefix has no other frames.
LEMMA HasPrefix ==
  ASSUME NEW S, NEW q \in Seq(S), NEW n \in 0..Len(q)
  PROVE  SubSeq(q, 1, n) \in Seq(S) /\ \A x : Has(SubSeq(q, 1, n), x) => Has(q, x)
<1>1. /\ Len(q) \in Nat /\ SubSeq(q, 1, n) \in Seq(S) /\ Len(SubSeq(q, 1, n)) = n
      /\ \A i \in 1..n : SubSeq(q, 1, n)[i] = q[i] /\ i \in 1..Len(q)
  OBVIOUS
<1> QED
  BY <1>1, Zenon DEF Has

\* An empty queue has none.
LEMMA HasNone ==
  /\ \A S : <<>> \in Seq(S)
  /\ \A x : ~Has(<<>>, x) /\ Once(<<>>, x)
BY DEF Has, Once

-----------------------------------------------------------------------------
(* The view.                                                               *)

\* How a stage advances.
LEMMA StageFacts ==
  ASSUME NEW s \in Stages
  PROVE  /\ \A n \in Stages :
              /\ applyStage(s, n) \in Stages
              /\ s \in TerminalStages /\ n \notin {"switching", "relaying"}
                 => applyStage(s, n) \in TerminalStages
         /\ markConnected(s) = "connected" /\ markFailed(s) = "error"
         /\ markDisconnected(s) \in TerminalStages
         /\ markRelaying(s) \in Stages /\ startBudget(s) \in Stages
         /\ s \in TerminalStages => startBudget(s) \in TerminalStages
<1> USE DEF Stages, Waiting, TerminalStages
<1>1. ASSUME NEW n \in Stages
      PROVE  /\ applyStage(s, n) \in Stages
             /\ s \in TerminalStages /\ n \notin {"switching", "relaying"}
                => applyStage(s, n) \in TerminalStages
  BY DEF applyStage, shouldAdvanceStage
<1>2. \A n \in {"connected", "error", "disconnected"} : applyStage(s, n) = n
  BY DEF applyStage, shouldAdvanceStage, stageRank
<1>3. markConnected(s) = "connected" /\ markFailed(s) = "error"
  BY <1>2 DEF markConnected, markFailed
<1>4. markDisconnected(s) \in TerminalStages
  BY <1>2 DEF markDisconnected
<1>5. /\ markRelaying(s) \in Stages /\ startBudget(s) \in Stages
      /\ s \in TerminalStages => startBudget(s) \in TerminalStages
  BY <1>1 DEF markRelaying, startBudget
<1> QED
  BY <1>1, <1>3, <1>4, <1>5

\* A step of the view that neither learns of the relay nor of a failure.
Moves(x, y) ==
  /\ y \in ViewType /\ ViewInv(y)
  /\ x.requested => y.requested
  /\ y.relayActive = x.relayActive /\ y.failed = x.failed
  /\ y.sock \in Alive => x.sock \in Alive

\* A live view is shown as connected.
LEMMA MarkLive ==
  ASSUME NEW x \in ViewType
  PROVE  /\ markLive(x) \in ViewType
         /\ markLive(x).live = TRUE /\ markLive(x).stage = "connected"
         /\ markLive(x).requested = x.requested /\ markLive(x).relayActive = x.relayActive
         /\ markLive(x).directActive = x.directActive /\ markLive(x).failed = x.failed
         /\ markLive(x).sock = x.sock
<1>1. x.stage \in Stages
  BY DEF ViewType
<1>2. markConnected(x.stage) = "connected" /\ "connected" \in Stages
  BY <1>1, StageFacts DEF Stages, TerminalStages
<1> QED
  BY <1>2 DEF ViewType, markLive

\* Closing the peer changes the peer and the channel only.
LEMMA PeerClosed ==
  ASSUME NEW x \in ViewType
  PROVE  /\ ClosePeer(x) \in ViewType
         /\ ClosePeer(x).live = x.live /\ ClosePeer(x).stage = x.stage
         /\ ClosePeer(x).requested = x.requested /\ ClosePeer(x).relayActive = x.relayActive
         /\ ClosePeer(x).directActive = x.directActive /\ ClosePeer(x).failed = x.failed
         /\ ClosePeer(x).sock = x.sock /\ ClosePeer(x).relayTimer = x.relayTimer
         /\ ClosePeer(x).received = x.received
BY DEF ViewType, ClosePeer

\* The view after a fallback is not live.
LEMMA FallbackView ==
  ASSUME NEW x \in ViewType, ~x.relayActive
  PROVE  Moves(x, FellBack(x)) /\ FellBack(x).requested
<1>1. x.stage \in Stages /\ x.relayTimer \in BOOLEAN
  BY DEF ViewType
<1>2. applyStage(x.stage, "switching") \in Stages
  BY <1>1, StageFacts DEF Stages, Waiting
<1>3. markFailed(applyStage(x.stage, "switching")) \in Stages
  BY <1>2, StageFacts DEF Stages, TerminalStages
<1>4. /\ FellBack(x) \in ViewType
      /\ FellBack(x).live = FALSE /\ FellBack(x).requested = TRUE
      /\ FellBack(x).directActive = FALSE /\ FellBack(x).relayActive = x.relayActive
      /\ FellBack(x).failed = x.failed /\ FellBack(x).sock = x.sock
  <2> DEFINE y == ClosePeer(x)
             timer == x.relayTimer \/ x.sock = "open"
             to == IF x.sock = "open" THEN applyStage(x.stage, "switching")
                   ELSE markFailed(applyStage(x.stage, "switching"))
  <2>1. /\ y \in ViewType /\ y.relayActive = x.relayActive /\ y.failed = x.failed
        /\ y.sock = x.sock /\ timer \in BOOLEAN /\ to \in Stages
    BY <1>1, <1>2, <1>3, PeerClosed
  <2>2. FellBack(x) = [y EXCEPT !.live = FALSE, !.requested = TRUE, !.directActive = FALSE,
                                !.directTimer = FALSE, !.relayTimer = timer, !.stage = to]
    <3>1. y.stage = x.stage /\ y.relayTimer = x.relayTimer
      BY PeerClosed
    <3> QED
      BY <2>1, <3>1 DEF FellBack, ViewType
  <2> HIDE DEF y, timer, to
  <2>3. [y EXCEPT !.live = FALSE, !.requested = TRUE, !.directActive = FALSE,
                  !.directTimer = FALSE, !.relayTimer = timer, !.stage = to] \in ViewType
    BY <2>1 DEF ViewType
  <2>4. /\ FellBack(x).live = FALSE /\ FellBack(x).requested = TRUE
        /\ FellBack(x).directActive = FALSE /\ FellBack(x).relayActive = y.relayActive
        /\ FellBack(x).failed = y.failed /\ FellBack(x).sock = y.sock
    BY <2>1, <2>2 DEF ViewType
  <2> QED
    BY <2>1, <2>2, <2>3, <2>4
<1> QED
  BY <1>4 DEF Moves, ViewInv

\* startFallback asks for the relay at most once, and says so in the view.
LEMMA FallbackMoves ==
  ASSUME NEW x \in ViewType, ViewInv(x), NEW f \in BOOLEAN, startFallback(x, f), up \in Seq(Ups)
  PROVE  /\ Moves(x, b') /\ up' \in Seq(Ups)
         /\ Has(up', "fallback") => Has(up, "fallback") \/ b'.requested
         /\ Leaving(up') => Leaving(up)
<1>1. CASE canFallback(x, f)
  <2>1. b' = FellBack(x) /\ ~x.requested
    BY <1>1 DEF startFallback, canFallback
  <2>2. Moves(x, b') /\ b'.requested
    BY <2>1, FallbackView DEF ViewInv
  <2>3. up' = up \/ up' = Append(up, "fallback")
    BY <1>1 DEF startFallback, Send, Sending
  <2>4. Append(up, "fallback") \in Seq(Ups) /\ (Leaving(Append(up, "fallback")) => Leaving(up))
    BY HasAppend DEF Ups, Leaving
  <2> QED
    BY <2>2, <2>3, <2>4, Zenon
<1>2. CASE ~canFallback(x, f)
  BY <1>2 DEF startFallback, Moves
<1> QED
  BY <1>1, <1>2

\* The direct path is used only before a fallback.
LEMMA DirectView ==
  ASSUME NEW x \in ViewType, ViewInv(x)
  PROVE  Moves(x, activateDirect(x))
<1>1. CASE x.acked /\ x.chan = "open" /\ ~x.requested
  <2> DEFINE y == [x EXCEPT !.directActive = TRUE]
  <2>1. /\ y \in ViewType /\ y.requested = x.requested /\ y.relayActive = x.relayActive
        /\ y.failed = x.failed /\ y.sock = x.sock
    BY DEF ViewType
  <2>2. activateDirect(x) = markLive(y)
    BY <1>1 DEF activateDirect
  <2> HIDE DEF y
  <2> QED
    BY <1>1, <2>1, <2>2, MarkLive DEF Moves, ViewInv, TerminalStages
<1>2. CASE ~(x.acked /\ x.chan = "open" /\ ~x.requested)
  BY <1>2 DEF activateDirect, Moves
<1> QED
  BY <1>1, <1>2

\* The view after socket.onclose.
LEMMA ClosedView ==
  ASSUME NEW x \in ViewType
  PROVE  /\ Moves(x, Closed(x)) /\ Moves(x, [Closed(x) EXCEPT !.disposed = TRUE])
         /\ Closed(x).sock = "closed" /\ [Closed(x) EXCEPT !.disposed = TRUE].sock = "closed"
<1>1. markDisconnected(x.stage) \in TerminalStages
  BY StageFacts DEF ViewType
<1>2. /\ Closed(x) \in ViewType
      /\ Closed(x).live = FALSE /\ Closed(x).requested = TRUE /\ Closed(x).directActive = FALSE
      /\ Closed(x).relayActive = x.relayActive /\ Closed(x).failed = x.failed
      /\ Closed(x).sock = "closed"
  <2> DEFINE v == NewView
             to == markDisconnected(x.stage)
  <2>1. v \in ViewType /\ v.live = FALSE /\ v.directActive = FALSE /\ to \in Stages
    BY <1>1 DEF ViewType, NewView, Stages, Waiting
  <2>2. Closed(x) = [v EXCEPT !.sock = "closed", !.requested = TRUE, !.peer = "closed",
                              !.chan = "closed", !.offer = x.offer, !.stage = to,
                              !.relayActive = x.relayActive, !.failed = x.failed]
    BY DEF Closed
  <2> HIDE DEF v, to
  <2>3. x.offer \in {"none", "making", "made"} /\ x.relayActive \in BOOLEAN /\ x.failed \in BOOLEAN
    BY DEF ViewType
  <2>4. [v EXCEPT !.sock = "closed", !.requested = TRUE, !.peer = "closed",
                  !.chan = "closed", !.offer = x.offer, !.stage = to,
                  !.relayActive = x.relayActive, !.failed = x.failed] \in ViewType
    BY <2>1, <2>3 DEF ViewType
  <2>5. /\ Closed(x).live = v.live /\ Closed(x).requested = TRUE
        /\ Closed(x).directActive = v.directActive
        /\ Closed(x).relayActive = x.relayActive /\ Closed(x).failed = x.failed
        /\ Closed(x).sock = "closed"
    BY <2>1, <2>2, <2>3 DEF ViewType
  <2> QED
    BY <2>1, <2>2, <2>4, <2>5
<1>3. Moves(x, Closed(x))
  BY <1>2 DEF Moves, ViewInv, Alive
<1> DEFINE y == Closed(x)
           z == [y EXCEPT !.disposed = TRUE]
<1>4. y \in ViewType
  BY <1>2
<1> HIDE DEF y
<1>5. /\ z \in ViewType /\ z.live = y.live /\ z.requested = y.requested
      /\ z.directActive = y.directActive /\ z.relayActive = y.relayActive
      /\ z.failed = y.failed /\ z.sock = y.sock
  BY <1>4 DEF ViewType
<1>6. Moves(x, z)
  BY <1>2, <1>5 DEF Moves, ViewInv, Alive, y
<1> QED
  BY <1>2, <1>3, <1>5, <1>6 DEF y

\* The same view, but for what the invariants leave open.
Alike(x, y) ==
  /\ y \in ViewType
  /\ y.live = x.live /\ y.requested = x.requested /\ y.directActive = x.directActive
  /\ y.relayActive = x.relayActive /\ y.failed = x.failed
  /\ x.stage \in TerminalStages => y.stage \in TerminalStages
  /\ y.sock \in Alive => x.sock \in Alive

\* Such views satisfy the same invariants.
LEMMA AlikeMoves ==
  ASSUME NEW x \in ViewType, ViewInv(x), NEW y, Alike(x, y)
  PROVE  Moves(x, y)
BY Zenon DEF Alike, Moves, ViewInv

\* One step after another.
LEMMA MovesOn == ASSUME NEW x, NEW y, NEW z, Moves(x, y), Moves(y, z) PROVE Moves(x, z)
BY Zenon DEF Moves

-----------------------------------------------------------------------------
(* The steps of the browser.                                               *)

shared == <<handler, transport, listed, gaveUp, wsOpen, row, router>>

\* The console asks for a fallback, and leaves, only when its view says so, and takes
\* frames.
QuietUp ==
  /\ up' \in Seq(Ups)
  /\ Has(up', "fallback") => Has(up, "fallback") \/ b'.requested
  /\ Leaving(up') => Leaving(up) \/ b'.sock \notin Alive
QuietDown ==
  /\ down' \in Seq(Downs) /\ Once(down', "relay")
  /\ Has(down', "relay") => Has(down, "relay")
  /\ Has(down', "error") => Has(down, "error")

\* The types, the view and the queues, for every step.
LEMMA Current ==
  ASSUME IInv
  PROVE  /\ b \in ViewType /\ ViewInv(b) /\ Moves(b, b) /\ Alike(b, b)
         /\ up \in Seq(Ups) /\ down \in Seq(Downs) /\ Once(down, "relay")
BY Zenon DEF IInv, TInv, RelayInv, Moves, Alike

\* What the server knows is unchanged, and the view learns neither of the relay nor
\* of a failure.
LEMMA BrowserMoves ==
  ASSUME IInv, Moves(b, b'), UNCHANGED shared, QuietUp, QuietDown
  PROVE  IInv'
<1>1. TInv'
  BY DEF IInv, TInv, Moves, shared, QuietUp, QuietDown
<1>2. ViewInv(b)'
  BY DEF Moves, ViewInv
<1>3. RelayInv'
  <2>1. /\ Has(up, "fallback")' => Has(up, "fallback") \/ b'.requested
        /\ Has(down, "relay")' => Has(down, "relay")
        /\ Once(down, "relay")' /\ Locked' = Locked
        /\ b'.relayActive = b.relayActive /\ (b.requested => b'.requested)
    BY DEF Has, Once, Moves, shared, Locked, QuietUp, QuietDown
  <2> QED
    BY <2>1 DEF IInv, RelayInv, shared
<1>4. RowInv'
  <2>1. /\ Has(down, "error")' => Has(down, "error")
        /\ b'.failed = b.failed /\ (Reaches' => Reaches)
        /\ Leaving(up)' => b'.sock \notin Alive
    <3>1. b'.sock \in Alive => b.sock \in Alive
      BY DEF Moves
    <3>2. Leaving(up') => Leaving(up) \/ b'.sock \notin Alive
      BY DEF QuietUp
    <3>3. Leaving(up) => b.sock \notin Alive
      BY DEF IInv, RowInv
    <3>4. Leaving(up)' <=> Leaving(up')
      BY DEF Leaving, Has
    <3> QED
      BY <3>1, <3>2, <3>3, <3>4 DEF Has, Moves, QuietDown, Reaches, shared
  <2> QED
    BY <2>1 DEF IInv, RowInv, ErrorKept, shared
<1> QED
  BY <1>1, <1>2, <1>3, <1>4 DEF IInv

\* A step of the browser leaves the server alone.
LEMMA NotBrowser == ASSUME UNCHANGED notBrowser PROVE UNCHANGED shared
BY DEF notBrowser, server, session, shared

\* Queues that do not change, or are emptied.
LEMMA SameUp == ASSUME IInv, UNCHANGED up PROVE QuietUp
BY Current, Zenon DEF QuietUp
LEMMA SameDown == ASSUME IInv, UNCHANGED down PROVE QuietDown
BY Current, Zenon DEF QuietDown
LEMMA NoDown == ASSUME IInv, down' = <<>> PROVE QuietDown
BY HasNone DEF QuietDown
LEMMA NextDown == ASSUME IInv, down # <<>>, down' = Tail(down) PROVE QuietDown
BY Current, HasTail DEF QuietDown

\* A frame that neither asks for a fallback nor leaves.
LEMMA SendQuiet ==
  ASSUME IInv, NEW x, NEW m \in {"offer", "ice", "input"}, Send(x, m)
  PROVE  QuietUp
<1>1. up' = up \/ up' = Append(up, m)
  BY DEF Send, Sending
<1> QED
  <2>1. up \in Seq(Ups) /\ m \in Ups /\ m \notin {"fallback", "stop", "bye"}
    BY Current DEF Ups
  <2>2. /\ Append(up, m) \in Seq(Ups)
        /\ \A y : Has(Append(up, m), y) <=> Has(up, y) \/ m = y
    BY <2>1, HasAppend, Zenon
  <2> QED
    BY <1>1, <2>1, <2>2 DEF QuietUp, Leaving

\* The last frame of a console that leaves.
LEMMA SendBye ==
  ASSUME IInv, NEW q \in Seq(Ups), Has(q, "fallback") => Has(up, "fallback"),
         Leaving(q) => Leaving(up) \/ b'.sock \notin Alive, up' = q \/ up' = Append(q, "bye"),
         up' = Append(q, "bye") => b'.sock \notin Alive
  PROVE  QuietUp
<1>1. Append(q, "bye") \in Seq(Ups) /\ (Has(Append(q, "bye"), "fallback") => Has(q, "fallback"))
  BY HasAppend DEF Ups
<1> QED
  BY <1>1, Zenon DEF QuietUp

\* A fallback in a view that is like the one before.
LEMMA FallbackStep ==
  ASSUME IInv, NEW x, Alike(b, x), NEW f \in BOOLEAN, startFallback(x, f),
         UNCHANGED notBrowser, QuietDown
  PROVE  IInv'
<1>1. Moves(b, x) /\ x \in ViewType /\ ViewInv(x)
  BY Current, AlikeMoves DEF Moves
<1>2. Moves(x, b') /\ QuietUp
  BY <1>1, Current, FallbackMoves DEF QuietUp
<1> QED
  BY <1>1, <1>2, MovesOn, BrowserMoves, NotBrowser

\* A step to a view that is like the one before.
LEMMA AlikeStep ==
  ASSUME IInv, Alike(b, b'), UNCHANGED notBrowser, QuietUp, QuietDown
  PROVE  IInv'
BY Current, AlikeMoves, BrowserMoves, NotBrowser

\* Stages of an advanced view.
LEMMA Advanced ==
  ASSUME IInv, NEW n \in Stages \ {"switching", "relaying"}
  PROVE  /\ b.stage \in Stages /\ applyStage(b.stage, n) \in Stages
         /\ b.stage \in TerminalStages => applyStage(b.stage, n) \in TerminalStages
<1>1. b.stage \in Stages
  BY Current DEF ViewType
<1> QED
  BY <1>1, StageFacts

\* The view opens its socket, negotiates, and waits.
LEMMA ViewNegotiates ==
  ASSUME IInv, \/ SocketOpen \/ CreateThrows \/ NegotiateOffer \/ NegotiateFails
               \/ SendCandidate \/ PeerConnecting \/ DirectDeadline
  PROVE  IInv'
<1>0. b \in ViewType /\ b.stage \in Stages
  BY Current DEF ViewType
<1>1. ASSUME b.sock = "connecting" PROVE Alike(b, Opened)
  <2>1. /\ startBudget(b.stage) \in Stages
        /\ b.stage \in TerminalStages => startBudget(b.stage) \in TerminalStages
    BY <1>0, StageFacts
  <2> QED
    BY <1>0, <1>1, <2>1 DEF Opened, Alike, ViewType, Alive
<1>2. CASE SocketOpen
  <2>1. Alike(b, b')
    <3> DEFINE y == Opened
    <3>1. Alike(b, y) /\ b' = [y EXCEPT !.peer = "open", !.offer = "making"]
      BY <1>1, <1>2 DEF SocketOpen
    <3> HIDE DEF y
    <3> QED
      BY <3>1 DEF Alike, ViewType
  <2> QED
    BY <1>2, <2>1, AlikeStep, SameUp, SameDown DEF SocketOpen
<1>3. CASE CreateThrows
  BY <1>1, <1>3, FallbackStep, SameDown DEF CreateThrows
<1>4. Alike(b, [b EXCEPT !.offer = "made"])
  BY <1>0 DEF Alike, ViewType
<1>5. CASE NegotiateOffer
  <2>1. UNCHANGED notBrowser /\ QuietDown
    BY <1>5, SameDown DEF NegotiateOffer
  <2>2. CASE b' = [b EXCEPT !.offer = "made"] /\ UNCHANGED up
    BY <1>4, <2>1, <2>2, AlikeStep, SameUp
  <2>3. CASE b' = [b EXCEPT !.offer = "made"] /\ Send(b, "offer")
    BY <1>4, <2>1, <2>3, AlikeStep, SendQuiet DEF Ups
  <2>4. CASE startFallback([b EXCEPT !.offer = "made"], TRUE)
    BY <1>4, <2>1, <2>4, FallbackStep
  <2> QED
    BY <1>5, <2>2, <2>3, <2>4 DEF NegotiateOffer
<1>6. CASE NegotiateFails
  BY <1>4, <1>6, FallbackStep, SameDown DEF NegotiateFails
<1>7. CASE SendCandidate
  <2>1. QuietUp
    BY <1>7, SendQuiet DEF SendCandidate, Ups
  <2>2. Alike(b, b')
    BY <1>7, Current DEF SendCandidate
  <2> QED
    BY <1>7, <2>1, <2>2, AlikeStep, SameDown DEF SendCandidate
<1>8. CASE PeerConnecting
  <2>1. Alike(b, b')
    BY <1>0, <1>8, Advanced DEF PeerConnecting, Alike, ViewType, Stages, Waiting
  <2> QED
    BY <1>8, <2>1, AlikeStep, SameUp, SameDown DEF PeerConnecting
<1>9. CASE DirectDeadline
  <2>1. Alike(b, [b EXCEPT !.directTimer = FALSE])
    BY <1>0 DEF Alike, ViewType
  <2> QED
    BY <1>9, <2>1, FallbackStep, SameDown DEF DirectDeadline
<1> QED
  BY <1>2, <1>3, <1>5, <1>6, <1>7, <1>8, <1>9

\* Closing the socket is no news to the view.
LEMMA SocketAlike ==
  ASSUME IInv, NEW x, Alike(b, x)
  PROVE  Alike(b, CloseSocket(x))
<1>1. /\ x \in ViewType /\ CloseSocket(x) = [x EXCEPT !.sock = CloseSocket(x).sock]
      /\ CloseSocket(x).sock \in {x.sock, "closing"}
  BY DEF Alike, CloseSocket, ViewType
<1> QED
  BY <1>1 DEF Alike, Alive, ViewType

\* The view ends.
LEMMA ViewEnds ==
  ASSUME IInv, RelayDeadline \/ SocketClosed \/ SocketFails \/ Dispose \/ Type
  PROVE  IInv'
<1>0. b \in ViewType /\ b.stage \in Stages /\ up \in Seq(Ups)
  BY Current DEF ViewType
<1>1. CASE RelayDeadline
  <2> DEFINE x == [b EXCEPT !.relayTimer = FALSE, !.stage = markFailed(@)]
  <2>1. Alike(b, x)
    <3>1. markFailed(b.stage) = "error"
      BY <1>0, StageFacts
    <3> QED
      BY <1>0, <3>1 DEF Alike, ViewType, Stages, TerminalStages
  <2>2. Alike(b, b')
    BY <1>1, <2>1, SocketAlike DEF RelayDeadline
  <2>3. QuietUp
    <3>1. up' = up \/ (b.sock = "open" /\ up' = Append(up, "bye"))
      BY <1>1 DEF RelayDeadline, Send, Sending
    <3>2. b.sock = "open" => b'.sock = "closing"
      BY <1>0, <1>1 DEF RelayDeadline, CloseSocket, ViewType
    <3> QED
      BY <1>0, <3>1, <3>2, SendBye, SameUp DEF Alive
  <2> QED
    BY <1>1, <2>2, <2>3, AlikeStep, NoDown DEF RelayDeadline
<1>2. CASE SocketClosed
  <2>1. Moves(b, b') /\ UNCHANGED <<up, notBrowser>> /\ down' = <<>>
    BY <1>0, <1>2, ClosedView DEF SocketClosed
  <2> QED
    BY <2>1, BrowserMoves, NotBrowser, SameUp, NoDown
<1>3. CASE SocketFails
  <2> DEFINE x == [b EXCEPT !.stage = markFailed(@)]
  <2>1. Alike(b, x)
    <3>1. markFailed(b.stage) = "error"
      BY <1>0, StageFacts
    <3> QED
      BY <1>0, <3>1 DEF Alike, ViewType, Stages, TerminalStages
  <2>2. Moves(b, x) /\ x \in ViewType
    BY <2>1, Current, AlikeMoves DEF Alike
  <2> HIDE DEF x
  <2>3. b' = Closed(x) /\ down' = <<>> /\ UNCHANGED notBrowser
    BY <1>3 DEF SocketFails, x
  <2>4. Moves(b, b')
    BY <2>2, <2>3, ClosedView, MovesOn
  <2>5. QuietUp
    <3>1. PICK n \in 0..Len(up) : up' = Sending(SubSeq(up, 1, n), "bye")
      BY <1>3 DEF SocketFails
    <3> DEFINE q == SubSeq(up, 1, n)
    <3>2. q \in Seq(Ups) /\ (Has(q, "fallback") => Has(up, "fallback"))
      BY <1>0, HasPrefix
    <3> HIDE DEF q
    <3>3. up' = q \/ up' = Append(q, "bye")
      BY <3>1 DEF Sending, q
    <3>4. b'.sock \notin Alive
      BY <2>2, <2>3, ClosedView DEF Alive
    <3> QED
      BY <3>2, <3>3, <3>4, SendBye
  <2> QED
    BY <2>3, <2>4, <2>5, BrowserMoves, NotBrowser, NoDown
<1>4. CASE Dispose
  <2>1. Moves(b, b') /\ b'.sock \notin Alive
    BY <1>0, <1>4, ClosedView DEF Dispose, Alive
  <2>2. QuietUp
    <3> DEFINE q == IF b.sock = "open" THEN Sending(up, "stop") ELSE up
    <3>1. q = up \/ q = Append(up, "stop")
      BY DEF Sending
    <3>2. /\ Append(up, "stop") \in Seq(Ups)
          /\ Has(Append(up, "stop"), "fallback") <=> Has(up, "fallback")
      BY <1>0, HasAppend DEF Ups
    <3>3. q \in Seq(Ups) /\ (Has(q, "fallback") => Has(up, "fallback"))
      BY <1>0, <3>1, <3>2, Zenon
    <3>4. up' = q \/ up' = Append(q, "bye")
      BY <1>4 DEF Dispose, Sending
    <3> HIDE DEF q
    <3> QED
      BY <2>1, <3>3, <3>4, SendBye
  <2> QED
    BY <1>4, <2>1, <2>2, BrowserMoves, NotBrowser, NoDown DEF Dispose
<1>5. CASE Type
  <2>1. Alike(b, b') /\ QuietUp
    BY <1>5, Current, SendQuiet DEF Type
  <2> QED
    BY <1>5, <2>1, AlikeStep, SameDown DEF Type
<1> QED
  BY <1>1, <1>2, <1>3, <1>4, <1>5

\* The data channel opens, carries output and fails.
LEMMA ViewChannel ==
  ASSUME IInv, ChannelOpens \/ ChannelMessage \/ PathFails \/ NoticeClosed
  PROVE  IInv'
<1>0. b \in ViewType /\ ViewInv(b)
  BY Current
<1>1. CASE ChannelOpens
  <2> DEFINE x == [b EXCEPT !.chan = "open"]
  <2>1. Alike(b, x)
    BY <1>0 DEF Alike, ViewType
  <2> HIDE DEF x
  <2>2. b' = activateDirect(x) /\ UNCHANGED <<up, down, notBrowser>>
    BY <1>1 DEF ChannelOpens, x
  <2>3. Moves(b, x) /\ x \in ViewType /\ ViewInv(x)
    BY <1>0, <2>1, AlikeMoves DEF Moves
  <2>4. Moves(b, b')
    BY <2>2, <2>3, DirectView, MovesOn
  <2> QED
    BY <2>2, <2>4, BrowserMoves, NotBrowser, SameUp, SameDown
<1>2. CASE ChannelMessage
  <2>1. Moves(b, b')
    <3>1. CASE b' = b
      BY <3>1, Current
    <3>2. CASE b' = markLive(b) /\ ~b.requested
      BY <1>0, <3>2, MarkLive, Zenon DEF Moves, ViewInv, TerminalStages
    <3> QED
      BY <1>2, <3>1, <3>2 DEF ChannelMessage
  <2> QED
    BY <1>2, <2>1, BrowserMoves, NotBrowser, SameUp, SameDown DEF ChannelMessage
<1>3. CASE PathFails \/ NoticeClosed
  <2> DEFINE x == [b EXCEPT !.chan = IF @ = "open" THEN "closed" ELSE @]
  <2>1. Alike(b, x)
    BY <1>0 DEF Alike, ViewType
  <2>2. startFallback(x, TRUE) /\ UNCHANGED <<down, notBrowser>>
    BY <1>3 DEF NoticeClosed, PathFails
  <2> QED
    BY <2>1, <2>2, FallbackStep, SameDown
<1> QED
  BY <1>1, <1>2, <1>3

\* The frames of the direct path and the output.
LEMMA ViewReceives ==
  ASSUME IInv, Receive, Head(down) # "relay"
  PROVE  IInv'
<1>0. b \in ViewType /\ ViewInv(b) /\ UNCHANGED notBrowser /\ QuietDown
  BY Current, NextDown DEF Receive, Received
<1>1. CASE OnSignal(Head(down))
  <2>1. CASE UNCHANGED up /\ b' = b
    BY <1>0, <2>1, Current, AlikeStep, SameUp
  <2>2. CASE /\ UNCHANGED up
             /\ b' = [b EXCEPT !.stage = applyStage(@, "negotiating"), !.answered = TRUE]
    <3>1. Alike(b, b')
      BY <1>0, <2>2, Advanced DEF Alike, ViewType, Stages, Waiting
    <3> QED
      BY <1>0, <2>2, <3>1, AlikeStep, SameUp
  <2>3. CASE UNCHANGED up /\ b' = activateDirect([b EXCEPT !.acked = TRUE])
    <3> DEFINE x == [b EXCEPT !.acked = TRUE]
    <3>1. Alike(b, x)
      BY <1>0 DEF Alike, ViewType
    <3> HIDE DEF x
    <3>2. Moves(b, x) /\ x \in ViewType /\ ViewInv(x)
      BY <1>0, <3>1, AlikeMoves DEF Moves
    <3>3. Moves(b, b')
      BY <2>3, <3>2, DirectView, MovesOn DEF x
    <3> QED
      BY <1>0, <2>3, <3>3, BrowserMoves, NotBrowser, SameUp
  <2>4. CASE startFallback(b, TRUE)
    BY <1>0, <2>4, Current, FallbackStep
  <2> QED
    BY <1>1, <2>1, <2>2, <2>3, <2>4 DEF OnSignal
<1>2. CASE OnOutput
  <2> DEFINE x == [b EXCEPT !.received = TRUE]
  <2>1. Alike(b, x)
    BY <1>0 DEF Alike, ViewType
  <2> HIDE DEF x
  <2>2. Moves(b, x) /\ x \in ViewType /\ ViewInv(x)
    BY <1>0, <2>1, AlikeMoves DEF Moves
  <2>3. \/ b' = x
        \/ b' = markLive(x) /\ (x.directActive \/ x.relayActive)
    BY <1>2 DEF OnOutput, terminalOutputIsLive, x
  <2>4. Moves(x, b')
    <3>1. CASE b' = x
      BY <2>2, <3>1, Zenon DEF Moves
    <3>2. CASE b' = markLive(x) /\ (x.directActive \/ x.relayActive)
      BY <2>2, <3>2, MarkLive, Zenon DEF Moves, ViewInv, TerminalStages
    <3> QED
      BY <2>3, <3>1, <3>2
  <2> QED
    BY <1>0, <1>2, <2>2, <2>4, MovesOn, BrowserMoves, NotBrowser, SameUp DEF OnOutput
<1> QED
  BY <1>1, <1>2 DEF Receive

\* The answer is refused.
LEMMA ViewRejects == ASSUME IInv, AnswerRejected PROVE IInv'
<1>1. Alike(b, [b EXCEPT !.stage = applyStage(@, "negotiating")])
  BY Current, Advanced DEF Alike, ViewType, Stages, Waiting
<1>2. QuietDown
  BY NextDown DEF AnswerRejected, Received
<1> QED
  BY <1>1, <1>2, FallbackStep DEF AnswerRejected

\* The view learns of the relay, which it has asked for and not yet been told of.
LEMMA ViewRelays == ASSUME IInv, Receive, Head(down) = "relay" PROVE IInv'
<1>0. /\ b \in ViewType /\ b.stage \in Stages /\ down \in Seq(Downs) /\ down # <<>>
      /\ OnRelay /\ down' = Tail(down) /\ UNCHANGED notBrowser
  BY Current DEF Receive, OnSignal, Received, ViewType
<1>1. Has(down, "relay") /\ ~Has(down', "relay")
  BY <1>0, HasTail, Current
<1>2. transport = "relay" /\ handler # "record" /\ ~b.relayActive /\ b.requested /\ ~b.live
  BY <1>1, Zenon DEF IInv, RelayInv, ViewInv
<1>3. /\ b' \in ViewType /\ b'.requested /\ b'.relayActive /\ ~b'.directActive
      /\ b'.failed = b.failed /\ (b'.live => b'.stage \in TerminalStages) /\ b'.sock = b.sock
  <2> DEFINE y == ClosePeer(b)
             to == markRelaying(b.stage)
             x == [y EXCEPT !.directActive = FALSE, !.relayActive = TRUE, !.requested = TRUE,
                            !.directTimer = FALSE, !.stage = to]
  <2>1. /\ y \in ViewType /\ y.failed = b.failed /\ y.live = b.live /\ y.stage = b.stage
        /\ y.sock = b.sock
    BY <1>0, PeerClosed
  <2>2. to \in Stages
    BY <1>0, StageFacts
  <2>3. b' = IF x.received THEN markLive(x) ELSE [x EXCEPT !.relayTimer = TRUE]
    BY <1>0, <2>1 DEF OnRelay
  <2> HIDE DEF y, to
  <2>4. x \in ViewType
    BY <2>1, <2>2 DEF ViewType
  <2>5. /\ x.requested = TRUE /\ x.relayActive = TRUE /\ x.directActive = FALSE
        /\ x.failed = y.failed /\ x.live = y.live /\ x.sock = y.sock
    BY <2>1 DEF ViewType
  <2> HIDE DEF x
  <2>6. CASE b' = markLive(x)
    BY <2>1, <2>4, <2>5, <2>6, MarkLive, Zenon DEF TerminalStages
  <2>7. CASE b' = [x EXCEPT !.relayTimer = TRUE]
    <3>1. /\ b' \in ViewType /\ b'.requested = x.requested /\ b'.relayActive = x.relayActive
          /\ b'.directActive = x.directActive /\ b'.failed = x.failed /\ b'.live = x.live
          /\ b'.sock = x.sock
      BY <2>4, <2>7 DEF ViewType
    <3> QED
      BY <1>2, <2>1, <2>5, <3>1, Zenon
  <2> QED
    BY <2>3, <2>6, <2>7
<1>4. QuietDown /\ QuietUp /\ UNCHANGED shared
  BY <1>0, NextDown, SendQuiet, NotBrowser DEF OnRelay
<1>5. TInv'
  BY <1>3, <1>4 DEF IInv, TInv, QuietUp, QuietDown, shared
<1>6. ViewInv(b)'
  BY <1>3, Zenon DEF ViewInv
<1>7. RelayInv'
  <2>1. /\ ~Has(down, "relay")' /\ Once(down, "relay")' /\ Locked' = Locked
    BY <1>1, <1>4 DEF QuietDown, Has, Once, Locked, shared
  <2> QED
    BY <1>2, <1>3, <1>4, <2>1 DEF IInv, RelayInv, shared
<1>8. RowInv'
  <2>1. Has(down, "error")' => Has(down, "error")
    BY <1>4 DEF QuietDown, Has
  <2>2. Leaving(up)' => b'.sock \notin Alive
    <3>1. Leaving(up)' <=> Leaving(up')
      BY DEF Leaving, Has
    <3> QED
      BY <1>3, <1>4, <3>1 DEF QuietUp, IInv, RowInv
  <2>3. UNCHANGED <<handler, listed, gaveUp, wsOpen, row, router>>
    BY <1>4 DEF shared
  <2>4. Reaches' = Reaches /\ ErrorKept' = ErrorKept
    BY <1>3, <2>3 DEF Reaches, ErrorKept
  <2> QED
    BY <1>3, <2>1, <2>2, <2>3, <2>4 DEF IInv, RowInv
<1> QED
  BY <1>5, <1>6, <1>7, <1>8 DEF IInv

\* The view learns of the end, which is recorded.
LEMMA ViewLearnsEnd == ASSUME IInv, ReceiveEnd PROVE IInv'
<1>0. /\ b \in ViewType /\ b.stage \in Stages /\ down \in Seq(Downs) /\ down # <<>>
      /\ down' = <<>> /\ UNCHANGED shared
  BY Current, NotBrowser DEF ReceiveEnd, Received, ViewType
<1>1. /\ b' \in ViewType /\ b'.live = b.live /\ b'.requested = b.requested
      /\ b'.directActive = b.directActive /\ b'.relayActive = b.relayActive
      /\ b'.stage \in TerminalStages /\ (b'.failed => b.failed \/ Head(down) = "error")
  <2> DEFINE to == markDisconnected(b.stage)
             bad == b.failed \/ Head(down) = "error"
             x == [b EXCEPT !.stage = to, !.failed = bad]
  <2>1. to \in TerminalStages /\ bad \in BOOLEAN
    BY <1>0, StageFacts DEF ViewType
  <2>2. b' = CloseSocket(x)
    BY DEF ReceiveEnd
  <2> HIDE DEF to
  <2>3. /\ x \in ViewType /\ x.live = b.live /\ x.requested = b.requested
        /\ x.directActive = b.directActive /\ x.relayActive = b.relayActive
        /\ x.stage = to /\ x.failed = bad
    BY <1>0, <2>1 DEF ViewType, Stages
  <2> HIDE DEF x
  <2>4. /\ b' \in ViewType /\ b'.live = x.live /\ b'.requested = x.requested
        /\ b'.directActive = x.directActive /\ b'.relayActive = x.relayActive
        /\ b'.stage = x.stage /\ b'.failed = x.failed
    BY <2>2, <2>3 DEF CloseSocket, ViewType
  <2> QED
    BY <2>1, <2>3, <2>4, Zenon
<1>2. Has(down, Head(down))
  BY <1>0, HasTail
<1>3. QuietUp /\ QuietDown
  <2>1. up' = up \/ (b.sock = "open" /\ up' = Append(up, "bye"))
    BY DEF ReceiveEnd, Send, Sending
  <2>2. b.sock = "open" /\ b'.sock = "closing"
    BY <1>0 DEF ReceiveEnd, Received, CloseSocket, ViewType
  <2> QED
    BY <1>0, <2>1, <2>2, Current, SendBye, SameUp, NoDown DEF Alive
<1>9. b'.sock \notin Alive
  BY <1>0 DEF ReceiveEnd, Received, CloseSocket, ViewType, Alive
<1>4. TInv'
  BY <1>0, <1>1, <1>3 DEF IInv, TInv, QuietUp, QuietDown, shared
<1>5. ViewInv(b)'
  BY <1>1, Zenon DEF IInv, ViewInv
<1>6. ~Has(down, "relay")' /\ ~Has(down, "error")' /\ Once(down, "relay")'
  BY <1>0, HasNone DEF Has, Once
<1>7. RelayInv'
  <2>1. Locked' = Locked /\ (Has(up, "fallback")' => Has(up, "fallback") \/ b'.requested)
    BY <1>0, <1>3 DEF QuietUp, Has, Locked, shared
  <2> QED
    BY <1>0, <1>1, <1>6, <2>1 DEF IInv, RelayInv, shared
<1>8. RowInv'
  <2>1. b'.failed => ErrorKept
    BY <1>1, <1>2 DEF IInv, RowInv
  <2>2. handler = "start" => Head(down) # "error"
    BY <1>2 DEF IInv, RowInv
  <2> QED
    BY <1>0, <1>1, <1>6, <1>9, <2>1, <2>2 DEF IInv, RowInv, ErrorKept, Reaches, shared
<1> QED
  BY <1>4, <1>5, <1>7, <1>8 DEF IInv

-----------------------------------------------------------------------------
(* The steps of the server.                                                *)

\* Types of what the server keeps.
ServerTypes ==
  /\ handler' \in Handlers
  /\ transport' \in {"negotiating", "direct", "relay"} /\ listed' \in BOOLEAN
  /\ wsOpen' \in BOOLEAN /\ gaveUp' \in BOOLEAN
  /\ row' \in [state : {"none", "active", "failed", "closed"},
               transport : {"negotiating", "direct", "relay"}]
  /\ router' \in Routers

\* The parts of the invariant that a step of the server has to keep.
LEMMA ServerKeeps ==
  ASSUME IInv, UNCHANGED b, ServerTypes, QuietUp, down' \in Seq(Downs), RelayInv', RowInv'
  PROVE  IInv'
<1>1. TInv'
  BY DEF IInv, TInv, ServerTypes, QuietUp
<1>2. ViewInv(b)'
  BY DEF IInv, ViewInv
<1> QED
  BY <1>1, <1>2 DEF IInv

\* The fallback and its record do not change.
Steady ==
  /\ transport' = transport /\ row'.transport = row.transport
  /\ handler' = "record" <=> handler = "record"
  /\ Locked' => Locked

\* Then neither does what is known of it.
LEMMA SteadyRelay ==
  ASSUME IInv, UNCHANGED b, Steady, QuietUp, QuietDown
  PROVE  RelayInv'
<1>1. /\ Has(up, "fallback")' => Has(up, "fallback") \/ b.requested
      /\ Has(down, "relay")' => Has(down, "relay")
      /\ Once(down, "relay")'
  BY DEF Has, Once, QuietUp, QuietDown
<1> QED
  BY <1>1 DEF IInv, RelayInv, Steady

\* The handler takes a frame, or the queue is emptied.
LEMMA NextUp == ASSUME IInv, up # <<>>, up' = Tail(up) PROVE QuietUp
BY Current, HasTail DEF QuietUp, Leaving
LEMMA NoUp == ASSUME IInv, up' = <<>> PROVE QuietUp
BY HasNone DEF QuietUp, Leaving

\* A frame to the browser.
LEMMA ToBrowserAdds ==
  ASSUME IInv, NEW m \in Downs, ToBrowser(m)
  PROVE  /\ down' \in Seq(Downs)
         /\ \A x : Has(down', x) => Has(down, x) \/ m = x
         /\ m # "relay" \/ ~Has(down, "relay") => Once(down', "relay")
<1>1. down \in Seq(Downs) /\ Once(down, "relay")
  BY Current
<1>2. down' = down \/ down' = Append(down, m)
  BY DEF ToBrowser
<1>3. /\ Append(down, m) \in Seq(Downs)
      /\ \A x : Has(Append(down, m), x) <=> Has(down, x) \/ m = x
      /\ m # "relay" \/ ~Has(down, "relay") => Once(Append(down, m), "relay")
  BY <1>1, HasAppend, Zenon
<1> QED
  BY <1>1, <1>2, <1>3, Zenon

\* A frame that is neither the relay's nor an error.
LEMMA ToBrowserQuiet ==
  ASSUME IInv, NEW m \in Downs \ {"relay", "error"}, ToBrowser(m)
  PROVE  QuietDown
<1>1. m \in Downs /\ m # "relay" /\ m # "error"
  OBVIOUS
<1> QED
  BY <1>1, ToBrowserAdds, Zenon DEF QuietDown

\* The facts of TInv about the server, for its steps.
LEMMA ServerNow ==
  ASSUME IInv
  PROVE  /\ handler \in Handlers
         /\ transport \in {"negotiating", "direct", "relay"} /\ listed \in BOOLEAN
         /\ wsOpen \in BOOLEAN /\ gaveUp \in BOOLEAN
         /\ row \in [state : {"none", "active", "failed", "closed"},
                     transport : {"negotiating", "direct", "relay"}]
         /\ router \in Routers
BY DEF IInv, TInv

\* What EndRow does: the first end stays.
LEMMA EndRowFacts ==
  ASSUME IInv, NEW to \in {"failed", "closed"}
  PROVE  /\ EndRow(to) \in [state : {"none", "active", "failed", "closed"},
                            transport : {"negotiating", "direct", "relay"}]
         /\ EndRow(to).transport = row.transport
         /\ EndRow(to).state = IF row.state = "active" THEN to ELSE row.state
BY ServerNow DEF EndRow

\* A console that has said it leaves is out of reach.
LEMMA ToldToLeave ==
  ASSUME IInv, up # <<>>, Head(up) \in {"stop", "bye"}
  PROVE  ~Reaches
<1>1. Has(up, Head(up))
  BY Current, HasTail
<1> QED
  BY <1>1 DEF IInv, RowInv, Leaving, Reaches

\* A console that has said it leaves has left.
LEMMA StillLeaving == ASSUME IInv, UNCHANGED b, QuietUp PROVE Leaving(up)' => b'.sock \notin Alive
<1>1. Leaving(up)' <=> Leaving(up')
  BY DEF Leaving, Has
<1> QED
  BY <1>1 DEF QuietUp, IInv, RowInv

\* A step of the handler or of the router after the start that ends the row at most,
\* and records "closed" only when the console is out of reach, after an exit, or when
\* the handler has given up.
LEMMA RowKept ==
  ASSUME IInv, UNCHANGED b, QuietUp, Has(down', "error") => Has(down, "error") \/ ErrorKept,
         handler # "start", handler' # "start", wsOpen' => wsOpen, gaveUp => gaveUp',
         row'.state = row.state \/ (row.state = "active" /\ row'.state \in {"failed", "closed"}),
         handler' \in {"unlist", "close"} /\ row'.state = "active" /\ Reaches => gaveUp',
         row'.state = "closed" /\ Reaches' => gaveUp' \/ router' = "exited",
         router' = "errored" /\ Reaches' => ErrorKept'
  PROVE  RowInv'
<1>1. row.state # "none" /\ (Has(down, "error") \/ b.failed => ErrorKept)
  BY DEF IInv, RowInv
<1>2. row'.state # "none" /\ (ErrorKept => ErrorKept') /\ (Reaches' => Reaches)
  BY <1>1 DEF ErrorKept, Reaches
<1>3. Has(down, "error")' => Has(down, "error") \/ ErrorKept
  BY DEF Has
<1>4. Leaving(up)' => b'.sock \notin Alive
  BY StillLeaving
<1> QED
  BY <1>1, <1>2, <1>3, <1>4 DEF RowInv

\* A step of the router that has nothing to do with the end.
LEMMA RowAside ==
  ASSUME IInv, UNCHANGED <<b, handler, listed, gaveUp, wsOpen>>, row'.state = row.state,
         QuietUp, QuietDown, router \in {"idle", "answer", "ok", "derr"},
         router' \in {"idle", "answer", "ok", "derr"}
  PROVE  RowInv'
<1>1. Has(down, "error")' => Has(down, "error")
  BY DEF QuietDown, Has
<1>2. (Leaving(up)' => b'.sock \notin Alive) /\ Reaches' = Reaches /\ ErrorKept' = ErrorKept
  BY StillLeaving DEF Reaches, ErrorKept
<1> QED
  BY <1>1, <1>2 DEF IInv, RowInv

\* The handler before and after the fallback.
LEMMA HandlerSteady ==
  ASSUME IInv, \/ StartTerminal \/ HandleSignal \/ HandleInput \/ ReadError \/ ReadTimesOut
               \/ Unlist \/ EndHandler \/ HangUp
  PROVE  IInv'
<1>1. CASE StartTerminal
  <2>1. /\ handler = "start" /\ ~Locked /\ listed' = TRUE /\ handler' \in {"read", "unlist"}
        /\ \/ handler' = "read" /\ row' = [row EXCEPT !.state = "active"]
           \/ handler' = "unlist" /\ row' = [row EXCEPT !.state = "failed"]
        /\ UNCHANGED <<b, up, down, transport, gaveUp, wsOpen, router>>
    BY <1>1 DEF StartTerminal, browser
  <2>2. /\ row'.state = (IF handler' = "read" THEN "active" ELSE "failed")
        /\ row'.transport = row.transport /\ ServerTypes
    BY <2>1, ServerNow DEF ServerTypes, Handlers
  <2>3. QuietUp /\ QuietDown
    BY <2>1, SameUp, SameDown
  <2>4. RelayInv'
    BY <2>1, <2>2, <2>3, SteadyRelay DEF Steady, Locked
  <2>5. RowInv'
    <3>1. router # "errored" /\ ~Has(down, "error") /\ ~b.failed
      BY <2>1 DEF IInv, RowInv
    <3>2. ~Has(down, "error")' /\ (Leaving(up)' => b'.sock \notin Alive)
      BY <2>1, <3>1 DEF Has, Leaving, IInv, RowInv
    <3> QED
      BY <2>1, <2>2, <3>1, <3>2 DEF RowInv
  <2> QED
    BY <2>1, <2>2, <2>3, <2>4, <2>5, ServerKeeps DEF QuietDown
<1>2. ASSUME UNCHANGED <<b, transport, listed, wsOpen, router>>, QuietUp, QuietDown,
             row' \in {row, EndRow("failed")}, handler = "read", handler' \in {"read", "unlist"},
             gaveUp' \in BOOLEAN, gaveUp => gaveUp',
             handler' = "unlist" /\ Reaches => gaveUp' \/ row' = EndRow("failed")
      PROVE  IInv'
  <2>1. /\ row'.transport = row.transport /\ ServerTypes
        /\ row'.state = row.state \/ (row.state = "active" /\ row'.state = "failed")
        /\ row' = EndRow("failed") => row'.state # "active"
    BY <1>2, ServerNow, EndRowFacts DEF ServerTypes, Handlers
  <2>2. RelayInv'
    BY <1>2, <2>1, SteadyRelay DEF Steady, Locked
  <2>3. RowInv'
    BY <1>2, <2>1, RowKept DEF QuietDown, IInv, RowInv, Reaches, ErrorKept
  <2> QED
    BY <1>2, <2>1, <2>2, <2>3, ServerKeeps DEF QuietDown
<1>3. CASE HandleSignal
  <2>1. /\ up # <<>> /\ up' = Tail(up) /\ handler = "read"
        /\ UNCHANGED <<b, down, transport, listed, wsOpen, router, row>>
        /\ \/ handler' = "read" /\ gaveUp' = gaveUp
           \/ handler' = "unlist" /\ gaveUp' = TRUE
    BY <1>3 DEF HandleSignal, ReadFrame
  <2>2. gaveUp' \in BOOLEAN /\ (gaveUp => gaveUp')
    <3>1. gaveUp \in BOOLEAN
      BY ServerNow
    <3>2. gaveUp' = gaveUp \/ gaveUp' = TRUE
      BY <2>1
    <3> QED
      BY <3>1, <3>2, Zenon
  <2>3. handler' \in {"read", "unlist"} /\ (handler' = "unlist" => gaveUp')
    BY <2>1
  <2>4. QuietUp /\ QuietDown
    BY <2>1, NextUp, SameDown
  <2> QED
    BY <1>2, <2>1, <2>2, <2>3, <2>4
<1>4. CASE HandleInput
  <2>1. /\ up # <<>> /\ up' = Tail(up) /\ handler = "read" /\ handler' \in {"read", "unlist"}
        /\ UNCHANGED <<b, down, transport, listed, gaveUp, wsOpen, router>>
        /\ \/ row' = row /\ (handler' = "unlist" => Head(up) = "stop")
           \/ row' = EndRow("failed")
    BY <1>4 DEF HandleInput, ReadFrame, session
  <2>2. Head(up) = "stop" => ~Reaches
    BY <2>1, ToldToLeave
  <2> QED
    BY <1>2, <2>1, <2>2, NextUp, SameDown, ServerNow
<1>5. CASE ReadError \/ ReadTimesOut
  <2>1. /\ handler = "read" /\ handler' = "unlist"
        /\ UNCHANGED <<b, up, down, transport, listed, wsOpen, router, row>>
        /\ \/ gaveUp' = gaveUp /\ (~wsOpen \/ (up # <<>> /\ Head(up) = "bye"))
           \/ gaveUp' = TRUE
    BY <1>5 DEF ReadError, ReadTimesOut, browser, session
  <2>2. gaveUp' = TRUE \/ ~Reaches
    BY <2>1, ToldToLeave DEF Reaches
  <2> QED
    BY <1>2, <2>1, <2>2, SameUp, SameDown, ServerNow
<1>6. CASE Unlist
  <2>1. /\ handler = "unlist" /\ handler' = "close" /\ listed' = FALSE
        /\ UNCHANGED <<b, up, down, transport, gaveUp, wsOpen, row, router>>
    BY <1>6 DEF Unlist, browser
  <2>2. QuietUp /\ QuietDown /\ ServerTypes
    BY <2>1, SameUp, SameDown, ServerNow DEF ServerTypes, Handlers
  <2>3. RelayInv'
    BY <2>1, <2>2, SteadyRelay DEF Steady, Locked
  <2>4. RowInv'
    BY <2>1, <2>2, RowKept DEF QuietDown, IInv, RowInv, Reaches, ErrorKept
  <2> QED
    BY <2>1, <2>2, <2>3, <2>4, ServerKeeps DEF QuietDown
<1>7. CASE EndHandler
  <2>1. /\ handler = "close" /\ handler' = "hangup" /\ row' = EndRow("closed")
        /\ UNCHANGED <<b, up, down, transport, listed, gaveUp, wsOpen, router>>
    BY <1>7 DEF EndHandler, browser, session
  <2>2. QuietUp /\ QuietDown
    BY <2>1, SameUp, SameDown
  <2>3. /\ ServerTypes /\ row'.transport = row.transport
        /\ row'.state = IF row.state = "active" THEN "closed" ELSE row.state
    BY <2>1, ServerNow, EndRowFacts DEF ServerTypes, Handlers
  <2>4. RelayInv'
    BY <2>1, <2>2, <2>3, SteadyRelay DEF Steady, Locked
  <2>5. RowInv'
    BY <2>1, <2>2, <2>3, RowKept DEF QuietDown, IInv, RowInv, Reaches, ErrorKept
  <2> QED
    BY <2>1, <2>2, <2>3, <2>4, <2>5, ServerKeeps DEF QuietDown
<1>8. CASE HangUp
  <2>1. /\ handler = "hangup" /\ handler' = "gone" /\ up' = <<>> /\ wsOpen' = FALSE
        /\ ToBrowser("close") /\ UNCHANGED <<b, transport, listed, gaveUp, row, router>>
    BY <1>8 DEF HangUp, CloseBrowser, session
  <2>2. QuietUp /\ QuietDown
    BY <2>1, NoUp, ToBrowserQuiet DEF Downs
  <2>3. ServerTypes
    BY <2>1, ServerNow DEF ServerTypes, Handlers
  <2>4. RelayInv'
    BY <2>1, <2>2, <2>3, SteadyRelay DEF Steady, Locked
  <2>5. RowInv'
    BY <2>1, <2>2, <2>3, RowKept DEF QuietDown, IInv, RowInv, Reaches, ErrorKept
  <2> QED
    BY <2>1, <2>2, <2>3, <2>4, <2>5, ServerKeeps DEF QuietDown
<1> QED
  BY <1>1, <1>3, <1>4, <1>5, <1>6, <1>7, <1>8

\* The fallback is granted while no direct-ok is being recorded ...
LEMMA HandlerGrants == ASSUME IInv, HandleFallback PROVE IInv'
<1>1. /\ handler = "read" /\ up # <<>> /\ Head(up) = "fallback" /\ up' = Tail(up) /\ ~Locked
      /\ transport' = "relay" /\ handler' = IF transport = "relay" THEN "read" ELSE "record"
      /\ UNCHANGED <<b, down, listed, gaveUp, wsOpen, row, router>>
  BY DEF HandleFallback, ReadFrame
<1>2. b.requested
  <2>1. Has(up, "fallback")
    BY <1>1, Current, HasTail
  <2> QED
    BY <2>1, Zenon DEF IInv, RelayInv
<1>3. QuietUp /\ QuietDown /\ ServerTypes
  BY <1>1, NextUp, SameDown, ServerNow DEF ServerTypes, Handlers
<1>4. RelayInv'
  <2>1. /\ Has(down, "relay")' <=> Has(down, "relay")
        /\ Once(down, "relay")' /\ ~Locked'
    BY <1>1, <1>3 DEF Has, Once, Locked, QuietDown
  <2>2. CASE transport = "relay"
    BY <1>1, <1>2, <2>1, <2>2 DEF IInv, RelayInv
  <2>3. CASE transport # "relay"
    BY <1>1, <1>2, <2>1, <2>3 DEF IInv, RelayInv
  <2> QED
    BY <2>2, <2>3
<1>5. RowInv'
  BY <1>1, <1>3, RowKept DEF QuietDown, IInv, RowInv, Reaches, ErrorKept
<1> QED
  BY <1>1, <1>3, <1>4, <1>5, ServerKeeps DEF QuietDown

\* ... and recorded before the console is told.
LEMMA HandlerRecords == ASSUME IInv, RecordRelay PROVE IInv'
<1>1. /\ handler = "record" /\ handler' = "read" /\ row' = [row EXCEPT !.transport = "relay"]
      /\ ToBrowser("relay") /\ UNCHANGED <<b, up, transport, listed, gaveUp, wsOpen, router>>
  BY DEF RecordRelay, browser, session
<1>2. transport = "relay" /\ ~Has(down, "relay") /\ ~b.relayActive /\ b.requested /\ ~Locked
  BY <1>1, Zenon DEF IInv, RelayInv
<1>3. /\ down' \in Seq(Downs) /\ Once(down', "relay")
      /\ Has(down', "error") => Has(down, "error")
  BY <1>1, <1>2, ToBrowserAdds DEF Downs
<1>4. ServerTypes /\ row'.state = row.state /\ row'.transport = "relay" /\ QuietUp
  BY <1>1, ServerNow, SameUp DEF ServerTypes, Handlers
<1>5. RelayInv'
  <2>1. Once(down, "relay")' /\ ~Locked'
    BY <1>1, <1>2, <1>3 DEF Once, Locked
  <2> QED
    BY <1>1, <1>2, <1>4, <2>1 DEF RelayInv
<1>6. RowInv'
  BY <1>1, <1>3, <1>4, RowKept DEF IInv, RowInv, Reaches, ErrorKept
<1> QED
  BY <1>1, <1>3, <1>4, <1>5, <1>6, ServerKeeps

\* Two frames at the end of the queue.
LEMMA HasTwo ==
  ASSUME NEW S, NEW q \in Seq(S), NEW m \in S, NEW n \in S
  PROVE  q \o <<m, n>> = Append(Append(q, m), n)
OBVIOUS

\* The router ends the row before it tells the console, and unlists the session.
LEMMA RouterEnds == ASSUME IInv, RouteOutcome \/ RecordOutcome \/ EndSession PROVE IInv'
<1>1. CASE RouteOutcome
  <2>1. /\ router = "idle" /\ UNCHANGED <<b, up, down, handler, transport, listed, row>>
        /\ UNCHANGED <<gaveUp, wsOpen>>
        /\ router' = "idle" \/ (listed /\ router' \in {"exit", "error"})
    BY <1>1 DEF RouteOutcome, Routes, browser, session
  <2>2. QuietUp /\ QuietDown /\ ServerTypes
    BY <2>1, SameUp, SameDown, ServerNow DEF ServerTypes, Routers
  <2>3. RelayInv'
    BY <2>1, <2>2, SteadyRelay DEF Steady, Locked
  <2>4. RowInv'
    <3>1. CASE router' = "idle"
      BY <2>1, <2>2, <3>1, RowAside
    <3>2. CASE listed /\ router' \in {"exit", "error"}
      <4>1. handler # "start"
        BY <3>2 DEF IInv, RowInv
      <4> QED
        BY <2>1, <2>2, <3>2, <4>1, RowKept DEF QuietDown, IInv, RowInv, Reaches, ErrorKept
    <3> QED
      BY <2>1, <3>1, <3>2
  <2> QED
    BY <2>1, <2>2, <2>3, <2>4, ServerKeeps DEF QuietDown
<1>2. ASSUME NEW to \in {"failed", "closed"}, row' = EndRow(to),
             UNCHANGED <<b, up, down, handler, transport, listed, gaveUp, wsOpen>>,
             \/ router = "exit" /\ router' = "exited" /\ to = "closed"
             \/ router = "error" /\ router' = "errored" /\ to = "failed"
      PROVE  IInv'
  <2>1. /\ row'.transport = row.transport /\ ServerTypes
        /\ row'.state = IF row.state = "active" THEN to ELSE row.state
    BY <1>2, ServerNow, EndRowFacts DEF ServerTypes, Routers
  <2>2. QuietUp /\ QuietDown
    BY <1>2, SameUp, SameDown
  <2>3. RelayInv'
    BY <1>2, <2>1, <2>2, SteadyRelay DEF Steady, Locked
  <2>4. RowInv'
    <3>1. handler # "start" /\ row.state \in {"active", "failed", "closed"}
      BY <1>2, ServerNow DEF IInv, RowInv
    <3>2. row.state = "closed" /\ Reaches => gaveUp \/ router = "exited"
      BY DEF IInv, RowInv
    <3>3. Reaches' = Reaches
      BY <1>2 DEF Reaches
    <3>4. router' = "errored" /\ Reaches' => ErrorKept'
      BY <1>2, <2>1, <3>1, <3>2, <3>3 DEF ErrorKept
    <3>5. row'.state = "closed" /\ Reaches' => gaveUp' \/ router' = "exited"
      BY <1>2, <2>1, <3>1, <3>2, <3>3
    <3>6. handler' \in {"unlist", "close"} /\ row'.state = "active" /\ Reaches => gaveUp'
      BY <1>2, <2>1
    <3> QED
      BY <1>2, <2>1, <2>2, <3>1, <3>4, <3>5, <3>6, RowKept DEF QuietDown
  <2> QED
    BY <1>2, <2>1, <2>2, <2>3, <2>4, ServerKeeps DEF QuietDown
<1>3. CASE RecordOutcome
  BY <1>2, <1>3 DEF RecordOutcome, browser, session
<1>4. CASE EndSession
  <2> DEFINE m == IF router = "errored" THEN "error" ELSE "exit"
  <2>1. /\ router \in {"exited", "errored"} /\ router' = "idle" /\ listed' = FALSE
        /\ up' = <<>> /\ wsOpen' = FALSE
        /\ down' = down \/ (Reaches /\ down' = down \o <<m, "close">>)
        /\ UNCHANGED <<b, handler, transport, gaveUp, row>>
    BY <1>4 DEF EndSession, Reaches, Alive
  <2>2. /\ down' \in Seq(Downs) /\ Once(down', "relay")
        /\ Has(down', "relay") => Has(down, "relay")
        /\ Has(down', "error") => Has(down, "error") \/ (Reaches /\ router = "errored")
    <3> DEFINE q == Append(down, m)
    <3>1. /\ down \in Seq(Downs) /\ Once(down, "relay") /\ m \in Downs /\ "close" \in Downs
          /\ m # "relay" /\ (m = "error" => router = "errored")
      BY <2>1, Current DEF Downs
    <3> HIDE DEF m
    <3>2. /\ q \in Seq(Downs) /\ Once(q, "relay")
          /\ \A x : Has(q, x) <=> Has(down, x) \/ m = x
      BY <3>1, HasAppend, Zenon
    <3>3. down \o <<m, "close">> = Append(q, "close")
      BY <3>1, HasTwo
    <3> HIDE DEF q
    <3>4. /\ Append(q, "close") \in Seq(Downs) /\ Once(Append(q, "close"), "relay")
          /\ Has(Append(q, "close"), "relay") <=> Has(q, "relay")
          /\ Has(Append(q, "close"), "error") <=> Has(q, "error")
      BY <3>1, <3>2, HasAppend
    <3> QED
      BY <2>1, <3>1, <3>2, <3>3, <3>4, Zenon
  <2>3. QuietUp /\ ServerTypes
    BY <2>1, NoUp, ServerNow DEF ServerTypes, Routers
  <2>4. RelayInv'
    <3>1. /\ Has(up, "fallback")' => Has(up, "fallback") \/ b.requested
          /\ Has(down, "relay")' => Has(down, "relay")
          /\ Once(down, "relay")' /\ ~Locked'
      BY <2>1, <2>2, <2>3 DEF Has, Once, QuietUp, Locked
    <3> QED
      BY <2>1, <3>1 DEF IInv, RelayInv
  <2>5. RowInv'
    <3>1. Has(down', "error") => Has(down, "error") \/ ErrorKept
      BY <2>2 DEF IInv, RowInv
    <3>2. handler # "start" /\ ~Reaches'
      BY <2>1 DEF IInv, RowInv, Reaches
    <3> QED
      BY <2>1, <2>3, <3>1, <3>2, RowKept DEF IInv, RowInv
  <2> QED
    BY <2>1, <2>2, <2>3, <2>4, <2>5, ServerKeeps
<1> QED
  BY <1>1, <1>3, <1>4

\* The router relays output, and the signals of the direct path until the fallback.
LEMMA RouterRelays == ASSUME IInv, RouteOutput \/ RouteRTC \/ WriteRTC PROVE IInv'
<1>1. CASE RouteOutput
  <2>1. /\ UNCHANGED <<b, up, handler, transport, listed, gaveUp, wsOpen, row, router>>
        /\ ToBrowser("output") \/ UNCHANGED down
    BY <1>1 DEF RouteOutput, browser, server, session
  <2>2. QuietDown /\ QuietUp
    BY <2>1, ToBrowserQuiet, SameDown, SameUp DEF Downs
  <2> QED
    BY <2>1, <2>2, Current, BrowserMoves DEF shared
<1>2. CASE RouteRTC
  <2>1. router = "idle" /\ UNCHANGED <<b, up, down, handler, listed, gaveUp, wsOpen, row>>
    BY <1>2 DEF RouteRTC, Routes, browser
  <2>2. \/ UNCHANGED <<router, transport>>
        \/ /\ transport # "relay" /\ router' \in {"answer", "ok", "derr"}
           /\ transport' \in {transport, "direct"}
    BY <1>2 DEF RouteRTC, Routes
  <2>3. QuietUp /\ QuietDown /\ ServerTypes
    BY <2>1, <2>2, SameUp, SameDown, ServerNow DEF ServerTypes, Routers
  <2>4. RelayInv'
    <3>1. /\ Has(up, "fallback")' => Has(up, "fallback") \/ b.requested
          /\ Has(down, "relay")' => Has(down, "relay")
          /\ Once(down, "relay")' /\ (router' = router => ~Locked')
      BY <2>1, <2>3 DEF Has, Once, QuietUp, QuietDown, Locked
    <3> QED
      BY <2>1, <2>2, <3>1 DEF IInv, RelayInv
  <2>5. RowInv'
    BY <2>1, <2>2, <2>3, RowAside
  <2> QED
    BY <2>1, <2>3, <2>4, <2>5, ServerKeeps DEF QuietDown
<1>3. CASE WriteRTC
  <2>1. /\ router \in {"answer", "ok", "derr"} /\ router' = "idle" /\ Locked
        /\ row' = [row EXCEPT !.transport = IF router = "ok" THEN "direct" ELSE @]
        /\ ToBrowser(router) /\ UNCHANGED <<b, up, handler, transport, listed, gaveUp, wsOpen>>
    BY <1>3 DEF WriteRTC, Locked, browser, session
  <2>2. transport # "relay"
    BY <2>1 DEF IInv, RelayInv
  <2>3. ServerTypes /\ row'.state = row.state
    BY <2>1, ServerNow DEF ServerTypes, Routers
  <2>4. QuietUp /\ QuietDown
    BY <2>1, SameUp, ToBrowserQuiet DEF Downs
  <2>5. RelayInv'
    <3>1. /\ Has(up, "fallback")' => Has(up, "fallback") \/ b.requested
          /\ Has(down, "relay")' => Has(down, "relay")
          /\ Once(down, "relay")'
      BY <2>1, <2>4 DEF Has, Once, QuietUp, QuietDown
    <3>2. transport' # "relay" /\ handler' # "record" /\ ~Has(down, "relay") /\ ~b.relayActive
      BY <2>1, <2>2, Zenon DEF IInv, RelayInv
    <3> QED
      BY <2>1, <3>1, <3>2, Zenon DEF IInv, RelayInv
  <2>6. RowInv'
    BY <2>1, <2>3, <2>4, RowAside
  <2> QED
    BY <2>1, <2>3, <2>4, <2>5, <2>6, ServerKeeps DEF QuietDown
<1> QED
  BY <1>1, <1>2, <1>3

-----------------------------------------------------------------------------
(* The invariant.                                                          *)

\* The device connection and the agent touch nothing of the console or the server.
LEMMA Elsewhere ==
  ASSUME \/ ServerNotices \/ LinkBreaks \/ Reconnect \/ Control \/ TermStartFails
         \/ Offerer \/ OfferMakeFails \/ OfferFails \/ IceFails \/ IceFailsAlone \/ OnOpen
         \/ AgentChannelOpens \/ AgentChannelCloses \/ ReadOutput \/ ReadEnds \/ Output
  PROVE  UNCHANGED <<b, up, down, shared>>
<1> USE DEF browser, server, session, shared, notAgent
<1>1. CASE ServerNotices \/ LinkBreaks \/ Reconnect
  BY <1>1 DEF ServerNotices, LinkBreaks, Reconnect
<1>2. CASE Control \/ TermStartFails
  BY <1>2 DEF Control, TermStart, TermInput, TermStop, RTCOffer, RTCICE, BufferCandidate,
              RTCRelay, RTCStop, AgentNotices, CleanupSessions, TermStartFails
<1>3. CASE Offerer \/ OfferMakeFails \/ OfferFails \/ IceFails \/ IceFailsAlone
  BY <1>3 DEF Offerer, OfferLook, OfferMake, OfferDescribe, OfferAnswer, OfferMakeFails,
              OfferFails, IceFailsAlone, IceFails, notOffer
<1>4. CASE \/ OnOpen \/ AgentChannelOpens \/ AgentChannelCloses \/ ReadOutput \/ ReadEnds
           \/ Output
  BY <1>4 DEF OnOpen, AgentChannelOpens, AgentChannelCloses, ReadOutput, ReadEnds, Output,
              SendOnChannel, ReadEndsClosed, notChannel
<1> QED
  BY <1>1, <1>2, <1>3, <1>4

\* Initially the console waits and the row is not there.
LEMMA InitIInv == Init => IInv
<1> SUFFICES ASSUME Init PROVE IInv
  OBVIOUS
<1>1. b = NewView /\ up = <<>> /\ down = <<>>
  BY DEF Init
<1>2. /\ NewView \in ViewType /\ NewView.live = FALSE /\ NewView.requested = FALSE
      /\ NewView.directActive = FALSE /\ NewView.relayActive = FALSE /\ NewView.failed = FALSE
  BY DEF NewView, ViewType, Stages, Waiting
<1>3. TInv
  BY <1>1, <1>2, HasNone DEF Init, TInv, Handlers, Routers
<1>4. ViewInv(b)
  BY <1>1, <1>2, Zenon DEF ViewInv
<1>5. RelayInv
  BY <1>1, <1>2, HasNone DEF Init, RelayInv, Locked
<1>6. RowInv
  BY <1>1, <1>2, HasNone DEF Init, RowInv, Leaving, Reaches, ErrorKept
<1> QED
  BY <1>3, <1>4, <1>5, <1>6 DEF IInv

\* Every step keeps the invariant.
LEMMA NextIInv == IInv /\ [Next]_vars => IInv'
<1> SUFFICES ASSUME IInv, [Next]_vars PROVE IInv'
  OBVIOUS
<1>1. ASSUME UNCHANGED <<b, up, down, shared>> PROVE IInv'
  BY <1>1, Current, BrowserMoves, SameUp, SameDown DEF shared
<1>2. CASE UNCHANGED vars
  BY <1>1, <1>2 DEF vars, browser, server, session, shared
<1>3. CASE View
  BY <1>3, ViewNegotiates, ViewEnds, ViewChannel, ViewReceives, ViewRelays, ViewLearnsEnd, Zenon
  DEF View
<1>4. CASE Handler
  BY <1>4, HandlerSteady, HandlerGrants, HandlerRecords, Zenon DEF Handler
<1>5. CASE Router
  BY <1>5, RouterEnds, RouterRelays, Zenon DEF Router
<1>6. CASE Step
  BY <1>1, <1>3, <1>4, <1>5, <1>6, Elsewhere, Zenon DEF Step
<1>7. CASE Free
  BY <1>1, <1>7, ViewNegotiates, Elsewhere, Zenon DEF Free
<1>8. CASE Event
  BY <1>1, <1>8, ViewNegotiates, ViewEnds, ViewChannel, ViewRejects, HandlerSteady, Elsewhere,
     Zenon
  DEF Event
<1> QED
  BY <1>2, <1>6, <1>7, <1>8, Zenon DEF Next

\* The invariant holds in every reachable state.
LEMMA Invariance == Spec => []IInv
BY InitIInv, NextIInv, PTL DEF Spec

-----------------------------------------------------------------------------
(* The direct path after rtc:relay.                                        *)

Orders == {"start", "input", "stop", "offer", "ice", "relay", "rtcstop"}

\* A view that has asked for the relay has no open peer; one whose socket is not
\* open yet has neither asked nor begun to negotiate.
PeerInv(x) ==
  /\ x.requested => x.peer # "open"
  /\ x.sock = "connecting" => /\ ~x.requested /\ ~x.directTimer
                              /\ x.peer = "none" /\ x.offer = "none"

\* An agent that was told to relay has no open channel, and gets no other: the
\* console it would need has closed its peer.
PathInv ==
  /\ toAgent \in Seq(Orders) /\ chq \in Nat
  /\ PeerInv(b)
  /\ dch = "open" => HasPeer
  /\ told \/ Has(toAgent, "relay") => transport = "relay"
  /\ told => dch # "open"

\* The same peer, in a view whose socket is no younger.
Calm(x, y) ==
  /\ y \in ViewType /\ y.requested = x.requested /\ y.peer = x.peer
  /\ y.sock = "connecting" => /\ x.sock = "connecting" /\ y.offer = x.offer
                              /\ y.directTimer => x.directTimer

\* Such views have the same peer invariant.
LEMMA CalmPeer == ASSUME NEW x, NEW y, PeerInv(x), Calm(x, y) PROVE PeerInv(y)
BY Zenon DEF PeerInv, Calm

\* Being live does not concern the peer.
LEMMA LiveCalm == ASSUME NEW x \in ViewType PROVE Calm(x, markLive(x))
<1>1. markConnected(x.stage) = "connected" /\ "connected" \in Stages
  BY StageFacts DEF ViewType, Stages, TerminalStages
<1> QED
  BY <1>1 DEF Calm, ViewType, markLive

\* Nor does the use of the channel.
LEMMA DirectCalm == ASSUME NEW x \in ViewType PROVE Calm(x, activateDirect(x))
<1> DEFINE y == [x EXCEPT !.directActive = TRUE]
<1>1. Calm(x, x) /\ Calm(x, y)
  BY DEF Calm, ViewType
<1>2. activateDirect(x) = x \/ activateDirect(x) = markLive(y)
  BY DEF activateDirect
<1> HIDE DEF y
<1>3. Calm(y, markLive(y))
  BY <1>1, LiveCalm DEF Calm
<1> QED
  BY <1>1, <1>2, <1>3, Zenon DEF Calm

\* A closed peer is not open.
LEMMA NoPeer == ASSUME NEW x \in ViewType PROVE ClosePeer(x).peer # "open"
BY DEF ViewType, ClosePeer

\* A fallback closes the peer.
LEMMA FallbackPeer ==
  ASSUME NEW x \in ViewType, PeerInv(x), x.sock # "connecting", NEW f, startFallback(x, f)
  PROVE  PeerInv(b')
<1>1. CASE canFallback(x, f)
  <2> DEFINE y == ClosePeer(x)
             z == FellBack(x)
  <2>1. y \in ViewType /\ y.peer # "open" /\ y.sock = x.sock
    BY PeerClosed, NoPeer
  <2>2. z.peer = y.peer /\ z.sock = y.sock
    <3>1. z.peer = ClosePeer(x).peer /\ z.sock = ClosePeer(x).sock
      BY <2>1 DEF FellBack, ViewType
    <3> QED
      BY <3>1
  <2>3. b' = z
    BY <1>1 DEF startFallback
  <2> HIDE DEF y, z
  <2> QED
    BY <2>1, <2>2, <2>3 DEF PeerInv
<1>2. CASE ~canFallback(x, f)
  BY <1>2 DEF startFallback
<1> QED
  BY <1>1, <1>2

\* The end of the socket is the end of the peer.
LEMMA ClosedPeer ==
  ASSUME NEW x
  PROVE  PeerInv(Closed(x)) /\ PeerInv([Closed(x) EXCEPT !.disposed = TRUE])
BY DEF PeerInv, Closed, NewView

\* Frames of the browser socket leave the peer as it is, or close it.
LEMMA ReceivePeer ==
  ASSUME IInv, PathInv, Receive \/ ReceiveEnd \/ AnswerRejected
  PROVE  PeerInv(b')
<1>0. b \in ViewType /\ b.stage \in Stages /\ PeerInv(b) /\ b.sock = "open"
  BY Current DEF PathInv, ViewType, Receive, ReceiveEnd, AnswerRejected, Received
<1>1. /\ "negotiating" \in Stages /\ applyStage(b.stage, "negotiating") \in Stages
      /\ markDisconnected(b.stage) \in Stages /\ markRelaying(b.stage) \in Stages
  <2>1. "negotiating" \in Stages
    BY DEF Stages, Waiting
  <2> QED
    BY <1>0, <2>1, StageFacts DEF Stages
<1>2. ASSUME OnSignal(Head(down)) PROVE PeerInv(b')
  <2>1. CASE b' = b
    BY <1>0, <2>1
  <2>2. CASE b' = [b EXCEPT !.stage = applyStage(@, "negotiating"), !.answered = TRUE]
    BY <1>0, <1>1, <2>2 DEF PeerInv, ViewType
  <2>3. CASE b' = activateDirect([b EXCEPT !.acked = TRUE])
    <3> DEFINE x == [b EXCEPT !.acked = TRUE]
    <3>1. Calm(b, x) /\ b' = activateDirect(x)
      BY <1>0, <2>3 DEF Calm, ViewType
    <3> HIDE DEF x
    <3>2. x \in ViewType /\ PeerInv(x)
      BY <1>0, <3>1, CalmPeer, Zenon DEF Calm
    <3> QED
      BY <3>1, <3>2, CalmPeer, DirectCalm
  <2>4. CASE startFallback(b, TRUE)
    BY <1>0, <2>4, FallbackPeer
  <2> QED
    BY <1>2, <2>1, <2>2, <2>3, <2>4 DEF OnSignal
<1>3. ASSUME OnRelay PROVE PeerInv(b')
  <2> DEFINE c == ClosePeer(b)
             to == markRelaying(b.stage)
             x == [c EXCEPT !.directActive = FALSE, !.relayActive = TRUE, !.requested = TRUE,
                            !.directTimer = FALSE, !.stage = to]
             y == [x EXCEPT !.relayTimer = TRUE]
  <2>1. c \in ViewType /\ c.peer # "open" /\ c.sock = "open" /\ c.stage = b.stage /\ to \in Stages
    BY <1>0, <1>1, PeerClosed, NoPeer
  <2>2. b' = markLive(x) \/ b' = y
    BY <1>3, <2>1 DEF OnRelay, ViewType
  <2> HIDE DEF c, to
  <2>3. x \in ViewType /\ x.peer # "open" /\ x.sock = "open"
    BY <2>1 DEF ViewType
  <2> HIDE DEF x
  <2>4. Calm(x, y)
    BY <2>3 DEF Calm, ViewType
  <2> HIDE DEF y
  <2>5. PeerInv(x)
    BY <2>3 DEF PeerInv
  <2> QED
    BY <2>2, <2>3, <2>4, <2>5, LiveCalm, CalmPeer, Zenon
<1>4. ASSUME OnOutput PROVE PeerInv(b')
  <2> DEFINE x == [b EXCEPT !.received = TRUE]
  <2>1. Calm(b, x) /\ (b' = x \/ b' = markLive(x))
    BY <1>0, <1>4 DEF Calm, ViewType, OnOutput
  <2> HIDE DEF x
  <2>2. x \in ViewType /\ PeerInv(x)
    BY <1>0, <2>1, CalmPeer, Zenon DEF Calm
  <2> QED
    BY <2>1, <2>2, LiveCalm, CalmPeer, Zenon
<1>5. ASSUME ReceiveEnd PROVE PeerInv(b')
  BY <1>0, <1>1, <1>5 DEF ReceiveEnd, CloseSocket, PeerInv, ViewType
<1>6. ASSUME AnswerRejected PROVE PeerInv(b')
  <2> DEFINE x == [b EXCEPT !.stage = applyStage(@, "negotiating")]
  <2>1. Calm(b, x) /\ x.sock = "open" /\ startFallback(x, FALSE)
    BY <1>0, <1>1, <1>6 DEF Calm, ViewType, AnswerRejected
  <2> HIDE DEF x
  <2>2. x \in ViewType /\ PeerInv(x)
    BY <1>0, <2>1, CalmPeer, Zenon DEF Calm
  <2> QED
    BY <2>1, <2>2, FallbackPeer
<1> QED
  BY <1>2, <1>3, <1>4, <1>5, <1>6, Zenon DEF Receive

\* So do the other steps of the view: only a fresh one opens a peer.
LEMMA ViewPeer ==
  ASSUME IInv, PathInv,
         \/ SocketOpen \/ CreateThrows \/ NegotiateOffer \/ NegotiateFails \/ SendCandidate
         \/ PeerConnecting \/ DirectDeadline \/ RelayDeadline \/ SocketClosed \/ SocketFails
         \/ Dispose \/ Type \/ ChannelOpens \/ ChannelMessage \/ PathFails \/ NoticeClosed
  PROVE  PeerInv(b')
<1>0. b \in ViewType /\ b.stage \in Stages /\ PeerInv(b)
  BY Current DEF PathInv, ViewType
<1>1. CASE SocketOpen \/ CreateThrows
  <2>1. ~b.requested /\ b.peer = "none" /\ startBudget(b.stage) \in Stages
    BY <1>0, <1>1, StageFacts DEF PeerInv, SocketOpen, CreateThrows
  <2> DEFINE x == Opened
  <2>2. x \in ViewType /\ x.sock = "open" /\ x.requested = b.requested /\ x.peer = b.peer
    BY <1>0, <2>1 DEF Opened, ViewType
  <2>3. \/ b' = [x EXCEPT !.peer = "open", !.offer = "making"]
        \/ startFallback(x, FALSE)
    BY <1>1 DEF SocketOpen, CreateThrows
  <2> HIDE DEF x
  <2>4. CASE b' = [x EXCEPT !.peer = "open", !.offer = "making"]
    <3>1. b'.sock = "open" /\ b'.requested = x.requested
      BY <2>2, <2>4 DEF ViewType
    <3> QED
      BY <2>1, <2>2, <3>1, Zenon DEF PeerInv
  <2>5. CASE startFallback(x, FALSE)
    <3>1. PeerInv(x)
      BY <2>1, <2>2 DEF PeerInv
    <3> QED
      BY <2>2, <2>5, <3>1, FallbackPeer
  <2> QED
    BY <2>3, <2>4, <2>5
<1>2. CASE NegotiateOffer \/ NegotiateFails
  <2> DEFINE x == [b EXCEPT !.offer = "made"]
  <2>1. b.sock # "connecting" /\ (b' = x \/ startFallback(x, TRUE))
    BY <1>0, <1>2 DEF NegotiateOffer, NegotiateFails, PeerInv
  <2>2. Calm(b, x) /\ x.sock = b.sock
    BY <1>0, <2>1 DEF Calm, ViewType
  <2> HIDE DEF x
  <2>3. x \in ViewType /\ PeerInv(x)
    BY <1>0, <2>2, CalmPeer, Zenon DEF Calm
  <2> QED
    BY <2>1, <2>2, <2>3, FallbackPeer
<1>3. CASE DirectDeadline
  <2> DEFINE x == [b EXCEPT !.directTimer = FALSE]
  <2>1. b.sock # "connecting" /\ startFallback(x, FALSE)
    BY <1>0, <1>3 DEF DirectDeadline, PeerInv
  <2>2. Calm(b, x) /\ x.sock = b.sock
    BY <1>0, <2>1 DEF Calm, ViewType
  <2> HIDE DEF x
  <2>3. x \in ViewType /\ PeerInv(x)
    BY <1>0, <2>2, CalmPeer, Zenon DEF Calm
  <2> QED
    BY <2>1, <2>2, <2>3, FallbackPeer
<1>4. CASE PathFails \/ NoticeClosed
  <2> DEFINE x == [b EXCEPT !.chan = IF @ = "open" THEN "closed" ELSE @]
  <2>1. b.sock # "connecting" /\ startFallback(x, TRUE)
    BY <1>0, <1>4 DEF NoticeClosed, PathFails, PeerInv
  <2>2. Calm(b, x) /\ x.sock = b.sock
    BY <1>0, <2>1 DEF Calm, ViewType
  <2> HIDE DEF x
  <2>3. x \in ViewType /\ PeerInv(x)
    BY <1>0, <2>2, CalmPeer, Zenon DEF Calm
  <2> QED
    BY <2>1, <2>2, <2>3, FallbackPeer
<1>5. CASE SendCandidate \/ Type
  BY <1>0, <1>5 DEF SendCandidate, Type
<1>6. CASE PeerConnecting
  <2>1. applyStage(b.stage, "checking") \in Stages
    BY <1>0, StageFacts DEF Stages, Waiting
  <2>2. Calm(b, b')
    BY <1>0, <1>6, <2>1 DEF Calm, ViewType, PeerConnecting
  <2> QED
    BY <1>0, <2>2, CalmPeer
<1>7. CASE RelayDeadline
  <2>1. markFailed(b.stage) \in Stages
    BY <1>0, StageFacts DEF Stages, TerminalStages
  <2>2. Calm(b, b')
    BY <1>0, <1>7, <2>1 DEF Calm, ViewType, RelayDeadline, CloseSocket
  <2> QED
    BY <1>0, <2>2, CalmPeer
<1>8. CASE SocketClosed \/ SocketFails \/ Dispose
  BY <1>8, ClosedPeer DEF SocketClosed, SocketFails, Dispose
<1>9. CASE ChannelOpens
  <2> DEFINE x == [b EXCEPT !.chan = "open"]
  <2>1. Calm(b, x) /\ b' = activateDirect(x)
    BY <1>0, <1>9 DEF Calm, ViewType, ChannelOpens
  <2> HIDE DEF x
  <2>2. x \in ViewType /\ PeerInv(x)
    BY <1>0, <2>1, CalmPeer, Zenon DEF Calm
  <2> QED
    BY <2>1, <2>2, CalmPeer, DirectCalm
<1>10. CASE ChannelMessage
  BY <1>0, <1>10, LiveCalm, CalmPeer DEF ChannelMessage
<1> QED
  BY <1>1, <1>2, <1>3, <1>4, <1>5, <1>6, <1>7, <1>8, <1>9, <1>10, Zenon

\* A step after which the channel is no more open, and no less relayed, than before.
Narrows ==
  /\ PeerInv(b') /\ (transport = "relay" => transport' = "relay")
  /\ toAgent' \in Seq(Orders)
  /\ Has(toAgent', "relay") => Has(toAgent, "relay") \/ transport' = "relay"
  /\ told' = told
  /\ dch' = "open" => dch = "open" /\ pc' \in {"made", "described"}
  /\ chq' \in Nat /\ (told => chq' <= chq)

\* Such a step keeps the invariant.
LEMMA NarrowsOn == ASSUME PathInv, Narrows PROVE PathInv' /\ (told => chq' <= chq)
<1>1. Has(toAgent, "relay")' => Has(toAgent, "relay") \/ transport' = "relay"
  BY DEF Has, Narrows
<1>2. PeerInv(b)' /\ (dch' = "open" => HasPeer')
  BY DEF Narrows, PeerInv, HasPeer
<1> QED
  BY <1>1, <1>2, Zenon DEF PathInv, Narrows

\* The orders to the agent, but rtc:relay before it is granted.
LEMMA OrderSent ==
  ASSUME PathInv, NEW m \in Orders, ToAgent(m), m = "relay" => transport' = "relay"
  PROVE  /\ toAgent' \in Seq(Orders)
         /\ Has(toAgent', "relay") => Has(toAgent, "relay") \/ transport' = "relay"
<1>1. toAgent' = toAgent \/ toAgent' = Append(toAgent, m)
  BY DEF ToAgent
<1>2. toAgent \in Seq(Orders)
  BY DEF PathInv
<1>3. /\ Append(toAgent, m) \in Seq(Orders)
      /\ Has(Append(toAgent, m), "relay") <=> Has(toAgent, "relay") \/ m = "relay"
  BY <1>2, HasAppend, Zenon
<1> QED
  BY <1>1, <1>2, <1>3, Zenon

\* The browser does not reach the agent but through the server and the channel.
LEMMA BrowserNarrows ==
  ASSUME PathInv, PeerInv(b'), UNCHANGED notBrowser,
         UNCHANGED chq \/ (chq > 0 /\ chq' = chq - 1)
  PROVE  Narrows
<1>1. UNCHANGED <<transport, toAgent, told, dch, pc>>
  BY DEF notBrowser, server, session, direct, path
<1>2. chq \in Nat /\ toAgent \in Seq(Orders) /\ (dch = "open" => pc \in {"made", "described"})
  BY DEF PathInv, HasPeer
<1>3. chq' \in Nat /\ chq' <= chq
  BY <1>2
<1> QED
  BY <1>1, <1>2, <1>3, Zenon DEF Narrows

\* The server grants the relay before it sends rtc:relay, and for good.
LEMMA ServerNarrows ==
  ASSUME IInv, PathInv, Handler \/ ReadTimesOut \/ Router
  PROVE  Narrows
<1>0. chq \in Nat /\ toAgent \in Seq(Orders) /\ (dch = "open" => pc \in {"made", "described"})
  BY DEF PathInv, HasPeer
<1>1. UNCHANGED <<b, told, dch, pc, chq>>
  BY DEF Handler, Router, StartTerminal, HandleSignal, HandleFallback, RecordRelay, HandleInput,
         ReadError, ReadTimesOut, Unlist, EndHandler, HangUp, RouteOutput, RouteOutcome,
         RecordOutcome, EndSession, RouteRTC, WriteRTC,
         browser, agent, direct, path
<1>2. transport = "relay" => transport' = "relay"
  BY DEF Handler, Router, StartTerminal, HandleSignal, HandleFallback, RecordRelay, HandleInput,
         ReadError, ReadTimesOut, Unlist, EndHandler, HangUp, RouteOutput, RouteOutcome,
         RecordOutcome, EndSession, RouteRTC, WriteRTC,
         server, session
<1>3. \/ UNCHANGED toAgent
      \/ \E m \in Orders : ToAgent(m) /\ (m = "relay" => transport' = "relay")
  <2>1. CASE StartTerminal \/ ReadError \/ ReadTimesOut \/ Unlist
    BY <2>1 DEF StartTerminal, ReadError, ReadTimesOut, Unlist, Orders
  <2>2. CASE HandleSignal \/ HandleInput
    BY <2>2 DEF HandleSignal, HandleInput, ReadFrame, Orders
  <2>3. CASE RecordRelay
    <3>1. ToAgent("relay") /\ transport' = "relay" /\ "relay" \in Orders
      BY <2>3 DEF RecordRelay, IInv, RelayInv, session, Orders
    <3> QED
      BY <3>1, Zenon
  <2>4. CASE HandleFallback \/ EndHandler \/ HangUp \/ Router
    BY <2>4 DEF HandleFallback, EndHandler, HangUp, Router, RouteOutput, RouteOutcome,
                RecordOutcome, EndSession, RouteRTC, WriteRTC
  <2> QED
    BY <2>1, <2>2, <2>3, <2>4, Zenon DEF Handler
<1>4. /\ toAgent' \in Seq(Orders)
      /\ Has(toAgent', "relay") => Has(toAgent, "relay") \/ transport' = "relay"
  BY <1>0, <1>3, OrderSent, Zenon
<1>5. PeerInv(b')
  BY <1>1 DEF PathInv
<1>6. chq' \in Nat /\ chq' <= chq
  BY <1>0, <1>1
<1> QED
  BY <1>0, <1>1, <1>2, <1>4, <1>5, <1>6, Zenon DEF Narrows

\* A closed or failed direct path has no open channel.
LEMMA NoChannel ==
  ASSUME PathInv, CloseDirect \/ FailDirect
  PROVE  dch' = "open" => dch = "open" /\ pc' \in {"made", "described"}
BY DEF PathInv, HasPeer, CloseDirect, FailDirect, path

\* The messages to the agent are read, lost or left.
LEMMA OrdersRead ==
  ASSUME PathInv,
         \/ UNCHANGED toAgent \/ toAgent' = <<>> \/ (toAgent # <<>> /\ toAgent' = Tail(toAgent))
         \/ \E n \in 0..Len(toAgent) : toAgent' = SubSeq(toAgent, 1, n)
  PROVE  toAgent' \in Seq(Orders) /\ (Has(toAgent', "relay") => Has(toAgent, "relay"))
<1>0. toAgent \in Seq(Orders)
  BY DEF PathInv
<1>1. CASE UNCHANGED toAgent
  BY <1>0, <1>1, Zenon
<1>2. CASE toAgent' = <<>>
  BY <1>2, HasNone, Zenon
<1>3. CASE toAgent # <<>> /\ toAgent' = Tail(toAgent)
  BY <1>0, <1>3, HasTail, Zenon
<1>4. CASE \E n \in 0..Len(toAgent) : toAgent' = SubSeq(toAgent, 1, n)
  BY <1>0, <1>4, HasPrefix, Zenon
<1> QED
  BY <1>1, <1>2, <1>3, <1>4

\* The agent and its connection, but for rtc:relay and a new channel.
LEMMA AgentNarrows ==
  ASSUME PathInv,
         \/ ServerNotices \/ LinkBreaks \/ Reconnect \/ TermStart \/ TermInput \/ TermStop
         \/ RTCOffer \/ RTCICE \/ BufferCandidate \/ RTCStop \/ AgentNotices \/ CleanupSessions
         \/ TermStartFails \/ Offerer \/ OfferMakeFails \/ OfferFails \/ IceFails \/ OnOpen
         \/ AgentChannelCloses \/ ReadOutput \/ ReadEnds \/ SendOnChannel
  PROVE  Narrows
<1>0. /\ chq \in Nat /\ PeerInv(b) /\ (dch = "open" => pc \in {"made", "described"})
      /\ told => dch # "open"
  BY DEF PathInv, HasPeer
<1> DEFINE Reads == \/ UNCHANGED toAgent \/ toAgent' = <<>>
                    \/ toAgent # <<>> /\ toAgent' = Tail(toAgent)
                    \/ \E n \in 0..Len(toAgent) : toAgent' = SubSeq(toAgent, 1, n)
           Channel == dch' = "open" => dch = "open" /\ pc' \in {"made", "described"}
           Same == UNCHANGED <<b, transport, told>>
           Counts == UNCHANGED chq \/ (dch = "open" /\ chq' = chq + 1)
           Good == Reads /\ Channel /\ Same /\ Counts
<1> USE DEF browser, server, session, notAgent, agent, direct, path
<1>1. ASSUME ServerNotices \/ LinkBreaks \/ Reconnect \/ AgentNotices PROVE Good
  BY <1>0, <1>1 DEF ServerNotices, LinkBreaks, Reconnect, AgentNotices
<1>2. ASSUME TermStart \/ TermInput \/ TermStop \/ RTCOffer \/ RTCICE \/ TermStartFails
      PROVE  Good
  BY <1>0, <1>2
  DEF Handles, TermStart, TermInput, TermStop, RTCOffer, RTCICE, TermStartFails
<1>3. ASSUME RTCStop \/ CleanupSessions PROVE Good
  <2>1. Channel
    BY <1>3, NoChannel DEF RTCStop, CleanupSessions
  <2>2. Reads /\ Same /\ UNCHANGED chq
    BY <1>3 DEF RTCStop, CleanupSessions, Handles
  <2> QED
    BY <2>1, <2>2
<1>4. ASSUME Offerer \/ OfferMakeFails \/ OfferFails \/ IceFails PROVE Good
  <2>1. UNCHANGED <<toAgent, b, transport, told, chq>>
    BY <1>4 DEF Offerer, OfferLook, OfferMake, OfferDescribe, OfferAnswer, OfferMakeFails,
                OfferFails, IceFails, notOffer
  <2>2. ASSUME OfferLook \/ OfferMakeFails PROVE Channel
    BY <1>0, <2>2 DEF OfferLook, OfferMakeFails
  <2>3. ASSUME OfferMake \/ OfferDescribe PROVE Channel
    BY <1>0, <2>3 DEF OfferMake, OfferDescribe
  <2>4. ASSUME OfferAnswer \/ OfferFails \/ IceFails PROVE Channel
    BY <1>0, <2>4, NoChannel DEF OfferAnswer, OfferFails, IceFails
  <2>5. Channel
    BY <1>4, <2>2, <2>3, <2>4 DEF Offerer
  <2> QED
    BY <2>1, <2>5
<1>5. ASSUME BufferCandidate \/ AgentChannelCloses \/ ReadOutput \/ ReadEnds PROVE Good
  BY <1>0, <1>5 DEF BufferCandidate, AgentChannelCloses, ReadOutput, ReadEnds, notChannel
<1>6. ASSUME OnOpen PROVE Good
  <2>1. UNCHANGED <<toAgent, b, transport, told, chq>>
    BY <1>6 DEF OnOpen, notChannel
  <2>2. Channel
    BY <1>0, <1>6, NoChannel DEF OnOpen, Register
  <2> QED
    BY <2>1, <2>2
<1>7. ASSUME SendOnChannel PROVE Good
  <2>1. UNCHANGED <<toAgent, b, transport, told>> /\ Counts
    BY <1>7 DEF SendOnChannel, notChannel
  <2>2. Channel
    BY <1>0, <1>7, NoChannel DEF SendOnChannel
  <2> QED
    BY <2>1, <2>2
<1>8. Good
  BY <1>1, <1>2, <1>3, <1>4, <1>5, <1>6, <1>7
<1>9. toAgent' \in Seq(Orders) /\ (Has(toAgent', "relay") => Has(toAgent, "relay"))
  BY <1>8, OrdersRead
<1>10. chq' \in Nat /\ (told => chq' <= chq)
  BY <1>0, <1>8
<1> QED
  BY <1>0, <1>8, <1>9, <1>10, Zenon DEF Narrows

\* rtc:relay closes the channel, and a peer that is open at both ends has no rtc:relay.
LEMMA RelayCloses ==
  ASSUME IInv, PathInv, RTCRelay \/ AgentChannelOpens
  PROVE  PathInv' /\ UNCHANGED chq
<1>0. /\ chq \in Nat /\ PeerInv(b) /\ (dch = "open" => pc \in {"made", "described"})
      /\ toAgent \in Seq(Orders) /\ (told \/ Has(toAgent, "relay") => transport = "relay")
      /\ transport = "relay" => b.requested
  BY Zenon DEF PathInv, HasPeer, IInv, RelayInv
<1>1. UNCHANGED <<b, transport, chq>>
  BY DEF RTCRelay, AgentChannelOpens, notChannel, notAgent, browser, server, session
<1>2. PeerInv(b)'
  BY <1>0, <1>1 DEF PeerInv
<1>3. CASE RTCRelay
  <2>1. toAgent # <<>> /\ Head(toAgent) = "relay" /\ toAgent' = Tail(toAgent)
    BY <1>3 DEF RTCRelay, Handles
  <2>2. toAgent' \in Seq(Orders) /\ transport = "relay"
    BY <1>0, <2>1, HasTail, Zenon
  <2>3. dch' # "open"
    BY <1>0, <1>3 DEF RTCRelay, CloseDirect, HasPeer
  <2> QED
    BY <1>0, <1>1, <1>2, <2>2, <2>3 DEF PathInv
<1>4. CASE AgentChannelOpens
  <2>1. b.peer = "open" /\ pc' = "described" /\ UNCHANGED <<toAgent, told>>
    BY <1>4 DEF AgentChannelOpens, Connected, notChannel
  <2>2. ~told
    BY <1>0, <2>1, Zenon DEF PeerInv
  <2>3. Has(toAgent, "relay")' => transport' = "relay"
    BY <1>0, <1>1, <2>1 DEF Has
  <2> QED
    BY <1>0, <1>1, <1>2, <2>1, <2>2, <2>3 DEF PathInv, HasPeer
<1> QED
  BY <1>1, <1>3, <1>4

\* Initially nobody has been told.
LEMMA InitPathInv == Init => PathInv
<1> SUFFICES ASSUME Init PROVE PathInv
  OBVIOUS
<1>1. PeerInv(b)
  BY DEF Init, NewView, PeerInv
<1> QED
  BY <1>1, HasNone DEF Init, PathInv

\* No step puts output on the channel of an agent that was told to relay.
LEMMA NextPathInv ==
  ASSUME IInv, PathInv, [Next]_vars
  PROVE  PathInv' /\ (told => chq' <= chq)
<1> USE NarrowsOn
<1>1. CASE UNCHANGED vars
  <2>1. /\ PathInv' /\ chq' = chq
    BY <1>1 DEF vars, browser, server, session, agent, direct, path, PathInv, PeerInv, Has, HasPeer
  <2> QED
    BY <2>1 DEF PathInv
<1>2. ASSUME PeerInv(b'), UNCHANGED notBrowser, UNCHANGED chq \/ (chq > 0 /\ chq' = chq - 1)
      PROVE  PathInv' /\ (told => chq' <= chq)
  BY <1>2, BrowserNarrows, Zenon
<1>3. ASSUME \/ SocketOpen \/ CreateThrows \/ NegotiateOffer \/ NegotiateFails \/ SendCandidate
             \/ PeerConnecting \/ DirectDeadline \/ RelayDeadline \/ SocketClosed \/ SocketFails
             \/ Dispose \/ Type \/ ChannelOpens \/ ChannelMessage \/ PathFails \/ NoticeClosed
      PROVE  PathInv' /\ (told => chq' <= chq)
  <2>1. PeerInv(b')
    BY <1>3, ViewPeer, Zenon
  <2>2. UNCHANGED notBrowser /\ (UNCHANGED chq \/ (chq > 0 /\ chq' = chq - 1))
    BY <1>3, Zenon
    DEF SocketOpen, CreateThrows, NegotiateOffer, NegotiateFails, SendCandidate, PeerConnecting,
        DirectDeadline, RelayDeadline, SocketClosed, SocketFails, Dispose, Type, ChannelOpens,
        ChannelMessage, PathFails, NoticeClosed
  <2> QED
    BY <1>2, <2>1, <2>2, Zenon
<1>4. ASSUME Receive \/ ReceiveEnd \/ AnswerRejected
      PROVE  PathInv' /\ (told => chq' <= chq)
  <2>1. PeerInv(b')
    BY <1>4, ReceivePeer, Zenon
  <2>2. UNCHANGED <<chq, notBrowser>>
    BY <1>4, Zenon DEF Receive, ReceiveEnd, AnswerRejected
  <2> QED
    BY <1>2, <2>1, <2>2, Zenon
<1>5. ASSUME Handler \/ ReadTimesOut \/ Router PROVE PathInv' /\ (told => chq' <= chq)
  BY <1>5, ServerNarrows, Zenon
<1>6. ASSUME \/ ServerNotices \/ LinkBreaks \/ Reconnect \/ TermStart \/ TermInput \/ TermStop
             \/ RTCOffer \/ RTCICE \/ BufferCandidate \/ RTCStop \/ AgentNotices
             \/ CleanupSessions \/ TermStartFails \/ Offerer \/ OfferMakeFails \/ OfferFails
             \/ IceFails \/ OnOpen \/ AgentChannelCloses \/ ReadOutput \/ ReadEnds
             \/ SendOnChannel
      PROVE  PathInv' /\ (told => chq' <= chq)
  BY <1>6, AgentNarrows, Zenon
<1>7. ASSUME RTCRelay \/ AgentChannelOpens PROVE PathInv' /\ (told => chq' <= chq)
  <2>1. PathInv' /\ chq' = chq /\ chq \in Nat
    BY <1>7, RelayCloses, Zenon DEF PathInv
  <2>2. chq' <= chq
    BY <2>1
  <2> QED
    BY <2>1, <2>2
<1>8. CASE View
  BY <1>3, <1>4, <1>8, Zenon DEF View
<1>9. CASE Control
  BY <1>6, <1>7, <1>9, Zenon DEF Control
<1>10. CASE Step
  BY <1>5, <1>6, <1>8, <1>9, <1>10, Zenon
  DEF Step, Output, ReadEndsClosed, IceFailsAlone
<1>11. CASE Free
  BY <1>3, <1>6, <1>7, <1>11, Zenon DEF Free
<1>12. CASE Event
  BY <1>3, <1>4, <1>5, <1>6, <1>12, Zenon DEF Event
<1> QED
  BY <1>1, <1>10, <1>11, <1>12, Zenon DEF Next

-----------------------------------------------------------------------------

\* The row tells what the user has seen: a console on the relay is recorded as relayed,
\* although a direct-ok may have raced with its fallback, and one that was told of an
\* error is recorded as failed, unless the handler gave up on the device or on the
\* console and recorded "closed" before the router could.
THEOREM RowTellsOutcome == Spec => []OutcomeRecorded
<1>1. IInv => OutcomeRecorded
  BY Zenon DEF IInv, RelayInv, RowInv, ErrorKept, OutcomeRecorded
<1> QED
  BY <1>1, Invariance, PTL

\* The overlay of shouldAdvanceStage never covers a live session.
THEOREM LiveIsShown == Spec => []WaitingNeverCoversLive
<1>1. IInv => WaitingNeverCoversLive
  BY DEF IInv, ViewInv, WaitingNeverCoversLive, Waiting, TerminalStages
<1> QED
  BY <1>1, Invariance, PTL

\* Once the agent has handled rtc:relay it puts no output on the data channel: its own
\* end is closed, and the console, which asked for the relay, has no peer to open
\* another with.
THEOREM RelayedForGood == Spec => NoDirectOutputAfterRelay
<1>1. IInv /\ PathInv /\ [Next]_vars => PathInv' /\ [told => chq' <= chq]_vars
  BY NextPathInv
<1> QED
  BY <1>1, InitPathInv, InitIInv, NextIInv, PTL DEF Spec, NoDirectOutputAfterRelay
=============================================================================
