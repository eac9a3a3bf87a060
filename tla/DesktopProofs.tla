---------------------------- MODULE DesktopProofs ----------------------------
(***************************************************************************)
(* Proofs about Desktop, for any number of frames and of events: the       *)
(* browser's socket never mixes messages with the framebuffer stream, a    *)
(* live desktop is recorded on the path it runs on, and the greeting of    *)
(* the device's stream is only taken from the channel by noVNC.            *)
(*                                                                         *)
(* All rest on the order around one fallback: the console sends no message *)
(* after rtc:fallback, the server handles it at most once, with no answer  *)
(* of the router under way, and writes nothing but the stream behind       *)
(* rtc:relay.                                                              *)
(***************************************************************************)
EXTENDS Desktop, TLAPS

Stages == Waiting \cup TerminalStages

ViewType ==
  [sock : {"connecting", "open", "closing", "closed"}, disposed : BOOLEAN,
   requested : BOOLEAN, acked : BOOLEAN, live : BOOLEAN, rfb : {"none", "direct", "relay"},
   directTimer : BOOLEAN, hand : {"off", "switch", "direct", "relay"}, stage : Stages,
   offer : {"none", "making", "made"}, peer : {"none", "open", "closed"},
   answered : BOOLEAN, chan : {"none", "open", "closed"}]

Ups == {"offer", "ice", "ready", "fallback", "rfb", "bye"}
Replies == {"answer", "ok", "derr"}
Downs == Replies \cup {"relay", "serr", "rfb", "close"}
Orders == {"offer", "ice", "ready", "relay", "sstart", "rtcstop"}

\* The handler has told the browser of the link, or is past that point.
Late == {"relay", "unlist", "close", "gone"}

\* What may follow rtc:fallback and rtc:relay on the browser's socket.
UpStream == {"rfb", "bye"}
DownStream == {"rfb", "close"}

TInv ==
  /\ b \in ViewType /\ up \in Seq(Ups) /\ down \in Seq(Downs)
  /\ toAgent \in Seq(Orders) /\ fromAgent \in Seq(Replies) /\ chq \in Nat
  /\ handler \in {"start", "read", "record", "wait"} \cup Late
  /\ transport \in {"negotiating", "direct", "relay"}
  /\ row \in [state : {"none", "active", "failed", "closed"},
              transport : {"negotiating", "direct", "relay"}]
  /\ endState \in {"failed", "closed"}
  /\ router \in Replies \cup {"idle"}

\* Behind an m in q there are only members of S.
After(q, m, S) == \A i, j \in 1..Len(q) : i < j /\ q[i] = m => q[j] \in S

\* A view that has asked for the relay has no open peer, and a live one is live on
\* the path noVNC runs on.
ViewInv(x) ==
  /\ x.requested => x.peer # "open" /\ x.chan # "open"
  /\ x.sock = "connecting" => /\ ~x.requested /\ ~x.directTimer
                              /\ x.peer = "none" /\ x.offer = "none" /\ x.hand = "off"
  /\ x.live => x.rfb = "relay" \/ (x.rfb = "direct" /\ ~x.requested)
  /\ x.hand # "off" => ~x.live
  /\ x.rfb = "direct" => x.acked
  /\ x.rfb = "relay" \/ x.hand \in {"switch", "relay"} => x.requested

\* The console sends nothing but the stream after its request, so the server that
\* has handled it finds nothing else; and it sends no stream before rtc:relay.
UpInv ==
  /\ "fallback" \in In(up) => b.requested
  /\ After(up, "fallback", UpStream)
  /\ "rfb" \in In(up) => handler \in Late
  /\ transport = "relay" => In(up) \subseteq UpStream /\ b.requested /\ router = "idle"

\* The server writes nothing but the stream behind rtc:relay.
DownInv ==
  /\ After(down, "relay", DownStream)
  /\ b.rfb = "relay" => In(down) \subseteq DownStream
  /\ b.rfb = "relay" \/ "relay" \in In(down) => handler \in Late /\ transport = "relay"

\* The path is recorded before the console is told of it.
PathInv ==
  /\ handler \in {"record", "wait", "relay"} => transport = "relay"
  /\ handler \in {"start", "read"} => transport # "relay"
  /\ transport = "relay" /\ handler # "record" => row.transport = "relay"
  /\ router = "ok" => transport = "direct"
  /\ "ok" \in In(down) \/ b.acked => \/ transport = "relay"
                                     \/ transport = "direct" /\ row.transport = "direct"

\* The device may send, or has sent, its stream into the channel.
Ready == "ready" \in In(up) \/ "ready" \in In(toAgent) \/ bridge # "none" \/ chq > 0

\* Then noVNC listens to the channel, or the channel is closed for good.
ReadyInv == Ready => b.chan # "none" /\ (b.chan = "open" => b.rfb = "direct")

IInv == TInv /\ ViewInv(b) /\ UpInv /\ DownInv /\ PathInv /\ ReadyInv

-----------------------------------------------------------------------------
(* Queues.                                                                 *)

\* The members of a queue.
LEMMA InQueue ==
  ASSUME NEW T, NEW q \in Seq(T)
  PROVE  \A x : x \in In(q) <=> \E i \in 1..Len(q) : q[i] = x
<1>1. DOMAIN q = 1..Len(q)
  OBVIOUS
<1> QED
  BY <1>1, Zenon DEF In

\* What an appended frame adds.
LEMMA InAppend ==
  ASSUME NEW T, NEW q \in Seq(T), NEW m \in T
  PROVE  /\ Append(q, m) \in Seq(T)
         /\ \A x : x \in In(Append(q, m)) <=> x \in In(q) \/ x = m
         /\ \A k, S : After(q, k, S) /\ (m \in S \/ k \notin In(q)) => After(Append(q, m), k, S)
<1>1. /\ Append(q, m) \in Seq(T) /\ Len(q) \in Nat /\ Len(Append(q, m)) = Len(q) + 1
      /\ \A i \in 1..Len(q) : Append(q, m)[i] = q[i]
      /\ Append(q, m)[Len(q) + 1] = m
  OBVIOUS
<1>2. /\ \A i \in 1..(Len(q) + 1) : i \in 1..Len(q) \/ i = Len(q) + 1
      /\ Len(q) + 1 \in 1..(Len(q) + 1) /\ 1..Len(q) \subseteq 1..(Len(q) + 1)
      /\ \A i, j \in 1..(Len(q) + 1) : i < j => i \in 1..Len(q)
  BY <1>1
<1>3. ASSUME NEW x PROVE x \in In(Append(q, m)) <=> x \in In(q) \/ x = m
  <2>1. x \in In(Append(q, m))
          <=> \E i \in 1..Len(Append(q, m)) : Append(q, m)[i] = x
    BY <1>1, InQueue, Zenon
  <2>2. x \in In(q) <=> \E i \in 1..Len(q) : q[i] = x
    BY InQueue
  <2> QED
    BY <1>1, <1>2, <2>1, <2>2, Zenon
<1>4. ASSUME NEW k, NEW S, After(q, k, S), m \in S \/ k \notin In(q)
      PROVE  After(Append(q, m), k, S)
  <2> SUFFICES ASSUME NEW i \in 1..(Len(q) + 1), NEW j \in 1..(Len(q) + 1), i < j,
                      Append(q, m)[i] = k
               PROVE  Append(q, m)[j] \in S
    BY <1>1, Zenon DEF After
  <2>1. i \in 1..Len(q) /\ q[i] = k
    BY <1>1, <1>2, Zenon
  <2>2. k \in In(q)
    BY <2>1, InQueue, Zenon
  <2>3. CASE j = Len(q) + 1
    BY <1>1, <1>4, <2>2, <2>3, Zenon
  <2>4. CASE j \in 1..Len(q)
    BY <1>1, <1>4, <2>1, <2>4, Zenon DEF After
  <2> QED
    BY <1>2, <2>3, <2>4, Zenon
<1> QED
  BY <1>1, <1>3, <1>4, Zenon

\* What the first frame leaves.
LEMMA InTail ==
  ASSUME NEW T, NEW q \in Seq(T), q # <<>>
  PROVE  /\ Tail(q) \in Seq(T) /\ Head(q) \in T /\ Head(q) \in In(q)
         /\ In(Tail(q)) \subseteq In(q)
         /\ \A k, S : After(q, k, S) => /\ After(Tail(q), k, S)
                                        /\ Head(q) = k => In(Tail(q)) \subseteq S
<1>1. /\ Tail(q) \in Seq(T) /\ Head(q) \in T /\ Head(q) = q[1] /\ Len(q) \in Nat /\ Len(q) >= 1
      /\ Len(Tail(q)) = Len(q) - 1
      /\ \A i \in 1..Len(Tail(q)) : Tail(q)[i] = q[i + 1]
  OBVIOUS
<1>2. /\ 1 \in 1..Len(q)
      /\ \A i \in 1..Len(Tail(q)) : i + 1 \in 1..Len(q) /\ 1 < i + 1
      /\ \A i, j \in 1..Len(Tail(q)) : i < j => i + 1 < j + 1
  BY <1>1
<1>0. /\ \A x : x \in In(q) <=> \E i \in 1..Len(q) : q[i] = x
      /\ \A x : x \in In(Tail(q)) <=> \E i \in 1..Len(Tail(q)) : Tail(q)[i] = x
  BY <1>1, InQueue
<1>3. Head(q) \in In(q) /\ In(Tail(q)) \subseteq In(q)
  BY <1>1, <1>2, <1>0, Zenon
<1>4. ASSUME NEW k, NEW S, After(q, k, S) PROVE After(Tail(q), k, S)
  BY <1>1, <1>2, <1>4, Zenon DEF After
<1>5. ASSUME NEW k, NEW S, After(q, k, S), Head(q) = k PROVE In(Tail(q)) \subseteq S
  <2> SUFFICES ASSUME NEW i \in 1..Len(Tail(q)) PROVE Tail(q)[i] \in S
    BY <1>0, Zenon
  <2>1. i + 1 \in 1..Len(q) /\ 1 < i + 1 /\ 1 \in 1..Len(q) /\ q[1] = k
    BY <1>1, <1>2, <1>5, Zenon
  <2>2. q[i + 1] \in S
    BY <1>5, <2>1, Zenon DEF After
  <2> QED
    BY <1>1, <2>2, Zenon
<1> QED
  BY <1>1, <1>3, <1>4, <1>5, Zenon

\* A prefix has no other frames.
LEMMA InPrefix ==
  ASSUME NEW T, NEW q \in Seq(T), NEW n \in 0..Len(q)
  PROVE  /\ SubSeq(q, 1, n) \in Seq(T) /\ In(SubSeq(q, 1, n)) \subseteq In(q)
         /\ \A k, S : After(q, k, S) => After(SubSeq(q, 1, n), k, S)
<1>1. /\ Len(q) \in Nat /\ SubSeq(q, 1, n) \in Seq(T) /\ Len(SubSeq(q, 1, n)) = n
      /\ \A i \in 1..n : SubSeq(q, 1, n)[i] = q[i] /\ i \in 1..Len(q)
  OBVIOUS
<1>2. In(SubSeq(q, 1, n)) \subseteq In(q)
  <2>1. /\ \A x : x \in In(q) <=> \E i \in 1..Len(q) : q[i] = x
        /\ \A x : x \in In(SubSeq(q, 1, n)) <=> \E i \in 1..n : SubSeq(q, 1, n)[i] = x
    BY <1>1, InQueue
  <2> QED
    BY <1>1, <2>1, Zenon
<1> QED
  BY <1>1, <1>2, Zenon DEF After

\* What two queues joined have.
LEMMA InJoined ==
  ASSUME NEW T, NEW q \in Seq(T), NEW r \in Seq(T)
  PROVE  q \o r \in Seq(T) /\ \A x \in In(q \o r) : x \in In(q) \/ x \in In(r)
<1>1. /\ q \o r \in Seq(T) /\ Len(q) \in Nat /\ Len(r) \in Nat /\ Len(q \o r) = Len(q) + Len(r)
      /\ \A i \in 1..(Len(q) + Len(r)) : (q \o r)[i] = IF i <= Len(q) THEN q[i] ELSE r[i - Len(q)]
  OBVIOUS
<1>2. \A i \in 1..(Len(q) + Len(r)) :
        \/ i \in 1..Len(q) /\ (q \o r)[i] = q[i]
        \/ i - Len(q) \in 1..Len(r) /\ (q \o r)[i] = r[i - Len(q)]
  BY <1>1
<1>3. /\ \A x : x \in In(q) <=> \E i \in 1..Len(q) : q[i] = x
      /\ \A x : x \in In(r) <=> \E i \in 1..Len(r) : r[i] = x
      /\ \A x : x \in In(q \o r) <=> \E i \in 1..(Len(q) + Len(r)) : (q \o r)[i] = x
  BY <1>1, InQueue
<1> QED
  BY <1>1, <1>2, <1>3, Zenon

\* An empty queue has none.
LEMMA InNone ==
  /\ \A T : <<>> \in Seq(T)
  /\ In(<<>>) = {}
  /\ \A k, S : After(<<>>, k, S)
BY DEF In, After

-----------------------------------------------------------------------------
(* The view.                                                               *)

\* Stages stay stages.
LEMMA StageFacts ==
  ASSUME NEW s \in Stages
  PROVE  /\ \A n \in Stages : applyStage(s, n) \in Stages
         /\ markConnected(s) \in Stages /\ markFailed(s) \in Stages
         /\ markDisconnected(s) \in Stages /\ markRelaying(s) \in Stages
         /\ startBudget(s) \in Stages
<1>1. \A n \in Stages : applyStage(s, n) \in Stages
  BY DEF applyStage
<1> QED
  BY <1>1 DEF markConnected, markFailed, markDisconnected, markRelaying, startBudget,
              Stages,
              Waiting, TerminalStages

\* A step of the view: a request for the relay is not taken back, and a channel that
\* noVNC listens to is not opened again for nobody.
Moves(x, y) ==
  /\ y \in ViewType /\ ViewInv(y)
  /\ x.requested => y.requested
  /\ x.chan # "none" => y.chan # "none"
  /\ x.chan # "none" /\ y.chan = "open" => x.chan = "open" /\ (x.rfb = "direct" => y.rfb = "direct")

\* A step that learns nothing about the path.
Unaware(x, y) == (y.acked => x.acked) /\ (y.rfb = "relay" => x.rfb = "relay")

\* The same view, but for what the invariants leave open.
Alike(x, y) ==
  /\ y \in ViewType
  /\ y.requested = x.requested /\ y.acked = x.acked /\ y.live = x.live /\ y.rfb = x.rfb
  /\ y.peer = x.peer /\ y.chan = x.chan
  /\ y.hand = x.hand \/ y.hand = "off"
  /\ y.sock = "connecting" => x.sock = "connecting"
  /\ x.sock = "connecting" => (y.directTimer => x.directTimer) /\ y.offer = x.offer

\* Such views satisfy the same invariants.
LEMMA AlikeMoves ==
  ASSUME NEW x \in ViewType, ViewInv(x), NEW y, Alike(x, y)
  PROVE  Moves(x, y) /\ Unaware(x, y)
<1>1. ViewInv(y)
  <2>1. /\ y.requested = x.requested /\ y.acked = x.acked /\ y.live = x.live /\ y.rfb = x.rfb
        /\ y.peer = x.peer /\ y.chan = x.chan
        /\ y.hand = x.hand \/ y.hand = "off"
        /\ y.sock = "connecting" => x.sock = "connecting"
        /\ x.sock = "connecting" => (y.directTimer => x.directTimer) /\ y.offer = x.offer
    BY Zenon DEF Alike
  <2>2. y.hand \in {"switch", "relay"} => y.hand = x.hand
    BY <2>1
  <2> QED
    BY <2>1, <2>2, Zenon DEF ViewInv
<1> QED
  BY <1>1, Zenon DEF Alike, Moves, Unaware

\* One step after another.
LEMMA MovesOn ==
  ASSUME NEW x, NEW y, NEW z, Moves(x, y), Moves(y, z)
  PROVE  Moves(x, z) /\ (Unaware(x, y) /\ Unaware(y, z) => Unaware(x, z))
BY Zenon DEF Moves, Unaware

\* Closing the peer changes the peer and the channel only.
LEMMA PeerClosed ==
  ASSUME NEW x \in ViewType
  PROVE  /\ ClosePeer(x) \in ViewType
         /\ ClosePeer(x).sock = x.sock /\ ClosePeer(x).requested = x.requested
         /\ ClosePeer(x).acked = x.acked /\ ClosePeer(x).live = x.live
         /\ ClosePeer(x).rfb = x.rfb /\ ClosePeer(x).hand = x.hand
         /\ ClosePeer(x).stage = x.stage
         /\ ClosePeer(x).peer # "open" /\ ClosePeer(x).chan # "open"
         /\ x.chan # "none" => ClosePeer(x).chan # "none"
<1> DEFINE p == IF x.peer = "open" THEN "closed" ELSE x.peer
           c == IF x.chan = "open" THEN "closed" ELSE x.chan
           y == [x EXCEPT !.peer = p, !.chan = c]
<1>1. /\ p \in {"none", "closed"} /\ c \in {"none", "closed"}
      /\ x.chan # "none" => c # "none"
  BY DEF ViewType
<1>2. ClosePeer(x) = y
  BY DEF ClosePeer
<1> HIDE DEF p, c
<1>3. y \in ViewType
  BY <1>1 DEF ViewType
<1>4. /\ y.sock = x.sock /\ y.requested = x.requested /\ y.acked = x.acked /\ y.live = x.live
      /\ y.rfb = x.rfb /\ y.hand = x.hand /\ y.stage = x.stage /\ y.peer = p /\ y.chan = c
  BY DEF ViewType
<1> HIDE DEF y
<1> QED
  BY <1>1, <1>2, <1>3, <1>4

\* The view after a fallback is not live, and has no peer and no noVNC.
LEMMA FallbackView ==
  ASSUME NEW x \in ViewType, x.sock # "connecting"
  PROVE  Moves(x, FellBack(x)) /\ Unaware(x, FellBack(x)) /\ FellBack(x).requested
<1> DEFINE y == ClosePeer(x)
           h == IF x.sock = "open" THEN "switch" ELSE "off"
           s == IF x.sock = "open" THEN applyStage(x.stage, "switching")
                ELSE markFailed(applyStage(x.stage, "switching"))
           z == [y EXCEPT !.live = FALSE, !.requested = TRUE, !.directTimer = FALSE,
                          !.rfb = "none", !.hand = h, !.stage = s]
<1>1. s \in Stages
  <2>1. x.stage \in Stages /\ "switching" \in Stages
    BY DEF ViewType, Stages, Waiting
  <2>2. applyStage(x.stage, "switching") \in Stages
    BY <2>1, StageFacts
  <2> QED
    BY <2>2, StageFacts
<1>2. FellBack(x) = z
  BY PeerClosed DEF FellBack, ViewType
<1>3. /\ y \in ViewType /\ y.sock = x.sock /\ y.acked = x.acked
      /\ y.peer # "open" /\ y.chan # "open" /\ (x.chan # "none" => y.chan # "none")
      /\ h \in {"switch", "off"}
  BY PeerClosed
<1> HIDE DEF y, h, s
<1>4. z \in ViewType
  <2>1. y \in ViewType /\ s \in Stages /\ h \in {"off", "switch", "direct", "relay"}
    BY <1>1, <1>3
  <2> DEFINE w == [y EXCEPT !.live = FALSE, !.requested = TRUE, !.directTimer = FALSE]
  <2>2. w \in ViewType
    BY <2>1 DEF ViewType
  <2>3. z = [w EXCEPT !.rfb = "none", !.hand = h, !.stage = s]
    OBVIOUS
  <2> HIDE DEF w
  <2>4. s \in Stages /\ h \in {"off", "switch", "direct", "relay"} /\ w \in ViewType
        => [w EXCEPT !.rfb = "none", !.hand = h, !.stage = s] \in ViewType
    BY DEF ViewType
  <2> QED
    BY <2>1, <2>2, <2>3, <2>4, Zenon
<1>5. /\ z.live = FALSE /\ z.requested = TRUE /\ z.rfb = "none"
      /\ z.sock = y.sock /\ z.acked = y.acked /\ z.peer = y.peer /\ z.chan = y.chan
  BY <1>3 DEF ViewType
<1> HIDE DEF z
<1>6. /\ z.requested /\ ~z.live /\ z.rfb # "direct" /\ z.rfb # "relay" /\ z.sock # "connecting"
      /\ z.peer # "open" /\ z.chan # "open" /\ (x.chan # "none" => z.chan # "none")
      /\ z.acked = x.acked
  BY <1>3, <1>5
<1> QED
  BY <1>2, <1>4, <1>6, Zenon DEF Moves, Unaware, ViewInv

\* attachRFB sets the path and the budget only.
LEMMA Attached ==
  ASSUME NEW x \in ViewType, NEW m \in {"direct", "relay"}
  PROVE  /\ attachRFB(x, m) \in ViewType
         /\ attachRFB(x, m).rfb = m /\ attachRFB(x, m).hand = m
         /\ attachRFB(x, m).sock = x.sock /\ attachRFB(x, m).requested = x.requested
         /\ attachRFB(x, m).acked = x.acked /\ attachRFB(x, m).live = x.live
         /\ attachRFB(x, m).peer = x.peer /\ attachRFB(x, m).chan = x.chan
BY DEF ViewType, attachRFB

\* noVNC gets the channel only when the device has acknowledged it and no relay was
\* asked for.
LEMMA DirectView ==
  ASSUME NEW x \in ViewType, ViewInv(x), x.sock # "connecting",
         x.acked, x.chan = "open", ~x.requested, x.rfb = "none"
  PROVE  /\ Moves(x, attachRFB(x, "direct")) /\ Unaware(x, attachRFB(x, "direct"))
         /\ attachRFB(x, "direct").chan = "open" /\ attachRFB(x, "direct").rfb = "direct"
<1> DEFINE y == attachRFB(x, "direct")
<1>1. /\ y \in ViewType /\ y.rfb = "direct" /\ y.hand = "direct" /\ y.sock = x.sock
      /\ y.requested = x.requested /\ y.acked = x.acked /\ y.live = x.live
      /\ y.peer = x.peer /\ y.chan = x.chan
  BY Attached
<1> HIDE DEF y
<1>2. ~x.live /\ x.rfb # "relay" /\ x.rfb # "direct"
  BY DEF ViewInv
<1>3. /\ y.rfb # "relay" /\ y.hand \notin {"switch", "relay"} /\ ~y.live /\ ~y.requested
      /\ y.sock # "connecting" /\ y.acked
  BY <1>1, <1>2
<1>4. ViewInv(y)
  BY <1>3, Zenon DEF ViewInv
<1> QED
  BY <1>1, <1>3, <1>4, Zenon DEF Moves, Unaware, y

\* Values of the right type leave a view of the right type.
LEMMA Reset ==
  ASSUME NEW x \in ViewType, NEW o \in {"none", "making", "made"}, NEW s \in Stages
  PROVE  [x EXCEPT !.chan = "closed", !.offer = o, !.stage = s] \in ViewType
BY DEF ViewType

\* The view after socket.onclose.
LEMMA ClosedView ==
  ASSUME NEW x \in ViewType, NEW w \in {x, [x EXCEPT !.stage = markFailed(@)]}
  PROVE  /\ Moves(x, Closed(w)) /\ Unaware(x, Closed(w))
         /\ Moves(x, [Closed(w) EXCEPT !.disposed = TRUE])
         /\ Unaware(x, [Closed(w) EXCEPT !.disposed = TRUE])
<1> DEFINE v == NewView
           s == markDisconnected(w.stage)
           o == w.offer
           y == [v EXCEPT !.sock = "closed", !.requested = TRUE, !.peer = "closed",
                          !.chan = "closed", !.offer = o, !.stage = s]
           z == [y EXCEPT !.disposed = TRUE]
<1>1. v \in ViewType /\ v.live = FALSE /\ v.acked = FALSE /\ v.rfb = "none" /\ v.hand = "off"
  BY DEF NewView, ViewType, Stages, Waiting
<1>2. s \in Stages /\ o \in {"none", "making", "made"}
  <2>1. x.stage \in Stages /\ x.offer \in {"none", "making", "made"}
    BY DEF ViewType
  <2>2. markFailed(x.stage) \in Stages
    BY <2>1, StageFacts
  <2>3. w.stage \in Stages /\ w.offer = x.offer
    BY <2>1, <2>2 DEF ViewType
  <2> QED
    BY <2>1, <2>3, StageFacts
<1>3. Closed(w) = y
  BY DEF Closed
<1> HIDE DEF v, s, o
<1>4. y \in ViewType
  <2> DEFINE u == [v EXCEPT !.sock = "closed", !.requested = TRUE, !.peer = "closed"]
  <2>1. u \in ViewType
    BY <1>1 DEF ViewType
  <2>2. y = [u EXCEPT !.chan = "closed", !.offer = o, !.stage = s]
    OBVIOUS
  <2> HIDE DEF u
  <2>3. [u EXCEPT !.chan = "closed", !.offer = o, !.stage = s] \in ViewType
    BY <1>2, <2>1, Reset
  <2> QED
    BY <2>2, <2>3, Zenon
<1>5. /\ y.sock = "closed" /\ y.requested = TRUE /\ y.peer = "closed" /\ y.chan = "closed"
      /\ y.live = FALSE /\ y.acked = FALSE /\ y.rfb = "none" /\ y.hand = "off"
  BY <1>1 DEF ViewType
<1> HIDE DEF y
<1>6. /\ z \in ViewType /\ z.sock = y.sock /\ z.requested = y.requested /\ z.peer = y.peer
      /\ z.chan = y.chan /\ z.live = y.live /\ z.acked = y.acked /\ z.rfb = y.rfb
      /\ z.hand = y.hand
  BY <1>4 DEF ViewType
<1>7. [Closed(w) EXCEPT !.disposed = TRUE] = z
  BY <1>3
<1> HIDE DEF z
<1>8. ASSUME NEW c, c \in ViewType, c.sock = "closed", c.requested = TRUE, c.peer = "closed",
             c.chan = "closed", c.live = FALSE, c.acked = FALSE, c.rfb = "none", c.hand = "off"
      PROVE  Moves(x, c) /\ Unaware(x, c)
  <2>1. /\ c.sock # "connecting" /\ c.peer # "open" /\ c.chan # "open" /\ c.chan # "none"
        /\ c.rfb # "relay" /\ c.rfb # "direct" /\ c.hand \notin {"switch", "relay"}
    BY <1>8
  <2> QED
    BY <1>8, <2>1, Zenon DEF Moves, Unaware, ViewInv
<1>9. Moves(x, y) /\ Unaware(x, y) /\ Moves(x, z) /\ Unaware(x, z)
  BY <1>4, <1>5, <1>6, <1>8
<1> QED
  BY <1>3, <1>7, <1>9, Zenon

\* The "connect" event of the stream in use makes the view live.
LEMMA ConnectView ==
  ASSUME NEW x \in ViewType, ViewInv(x), x.rfb # "none"
  PROVE  Moves(x, RfbConnect(x)) /\ Unaware(x, RfbConnect(x))
<1>1. CASE x.disposed \/ (x.rfb = "direct" /\ x.requested)
  BY <1>1, Zenon DEF RfbConnect, Moves, Unaware
<1>2. CASE ~(x.disposed \/ (x.rfb = "direct" /\ x.requested))
  <2> DEFINE s == markConnected(x.stage)
             y == [x EXCEPT !.live = TRUE, !.directTimer = FALSE, !.hand = "off", !.stage = s]
  <2>1. s \in Stages
    BY StageFacts DEF ViewType
  <2>2. RfbConnect(x) = y
    BY <1>2 DEF RfbConnect
  <2> HIDE DEF s
  <2>3. /\ y \in ViewType /\ y.sock = x.sock /\ y.requested = x.requested /\ y.acked = x.acked
        /\ y.rfb = x.rfb /\ y.hand = "off" /\ y.peer = x.peer /\ y.chan = x.chan
        /\ y.offer = x.offer /\ y.directTimer = FALSE
    BY <2>1 DEF ViewType
  <2> HIDE DEF y
  <2>4. x.rfb = "relay" \/ (x.rfb = "direct" /\ ~x.requested)
    BY <1>2 DEF ViewType
  <2>5. y.hand \notin {"switch", "relay"}
    BY <2>3
  <2> QED
    BY <2>2, <2>3, <2>4, <2>5, Zenon DEF Moves, Unaware, ViewInv
<1> QED
  BY <1>1, <1>2

-----------------------------------------------------------------------------
(* The steps of the browser.                                               *)

shared == <<handler, endState, transport, row, router, toAgent, fromAgent, bridge>>

\* The console sends no message behind its request for the relay, no stream before
\* rtc:relay, and rtc:ready when noVNC listens.
UpMoves ==
  /\ up' \in Seq(Ups) /\ After(up', "fallback", UpStream)
  /\ "fallback" \in In(up') => "fallback" \in In(up) \/ b'.requested
  /\ "rfb" \in In(up') => "rfb" \in In(up) \/ b.rfb = "relay"
  /\ b.requested => \A m \in In(up') : m \in In(up) \/ m \in UpStream
  /\ "ready" \in In(up') => "ready" \in In(up) \/ (b'.chan = "open" /\ b'.rfb = "direct")

\* It takes frames in order.
DownMoves ==
  down' \in Seq(Downs) /\ In(down') \subseteq In(down) /\ After(down', "relay", DownStream)

\* The view and the queues, for every step.
LEMMA Current ==
  ASSUME IInv
  PROVE  /\ b \in ViewType /\ ViewInv(b) /\ Moves(b, b) /\ Unaware(b, b) /\ Alike(b, b)
         /\ up \in Seq(Ups) /\ down \in Seq(Downs) /\ chq \in Nat
         /\ After(up, "fallback", UpStream) /\ After(down, "relay", DownStream)
         /\ "fallback" \in In(up) => b.requested
<1>1. /\ b \in ViewType /\ ViewInv(b) /\ up \in Seq(Ups) /\ down \in Seq(Downs) /\ chq \in Nat
      /\ After(up, "fallback", UpStream) /\ After(down, "relay", DownStream)
      /\ "fallback" \in In(up) => b.requested
  BY Zenon DEF IInv, TInv, UpInv, DownInv
<1> QED
  BY <1>1, Zenon DEF Moves, Unaware, Alike

\* The next state's queues are the queues of the next state.
LEMMA Primes ==
  /\ In(up)' = In(up') /\ In(down)' = In(down') /\ In(toAgent)' = In(toAgent')
  /\ After(up, "fallback", UpStream)' <=> After(up', "fallback", UpStream)
  /\ After(down, "relay", DownStream)' <=> After(down', "relay", DownStream)
BY DEF In, After, UpStream, DownStream

\* A step of the browser that is told of the path only by the frame it takes.
LEMMA BrowserStep ==
  ASSUME IInv, Moves(b, b'), UpMoves, DownMoves, UNCHANGED shared, chq' \in Nat, chq' <= chq,
         b'.acked => b.acked \/ "ok" \in In(down),
         b'.rfb = "relay" => \/ b.rfb = "relay"
                             \/ "relay" \in In(down) /\ In(down') \subseteq DownStream
  PROVE  IInv'
<1>0. UNCHANGED <<handler, endState, transport, row, router, toAgent, fromAgent, bridge>>
  BY DEF shared
<1>1. TInv'
  BY <1>0, Zenon DEF IInv, TInv, Moves, UpMoves, DownMoves
<1>2. ViewInv(b)'
  BY DEF Moves, ViewInv
<1>3. UpInv'
  <2>1. /\ "fallback" \in In(up') => b'.requested
        /\ "rfb" \in In(up') => handler \in Late
    BY Zenon DEF IInv, UpInv, DownInv, Moves, UpMoves
  <2>2. transport = "relay" => In(up') \subseteq UpStream /\ b'.requested /\ router = "idle"
    BY Zenon DEF IInv, UpInv, Moves, UpMoves
  <2>3. After(up', "fallback", UpStream)
    BY DEF UpMoves
  <2> QED
    BY <1>0, <2>1, <2>2, <2>3, Primes, Zenon DEF UpInv, Late, UpStream
<1>4. DownInv'
  <2>1. b'.rfb = "relay" => In(down') \subseteq DownStream
    BY Zenon DEF IInv, DownInv, DownMoves
  <2>2. b'.rfb = "relay" \/ "relay" \in In(down') => handler \in Late /\ transport = "relay"
    BY Zenon DEF IInv, DownInv, DownMoves
  <2>3. After(down', "relay", DownStream)
    BY DEF DownMoves
  <2> QED
    BY <1>0, <2>1, <2>2, <2>3, Primes, Zenon DEF DownInv, Late, DownStream
<1>5. PathInv'
  <2>1. "ok" \in In(down') \/ b'.acked => \/ transport = "relay"
                                          \/ transport = "direct" /\ row.transport = "direct"
    BY Zenon DEF IInv, PathInv, DownMoves
  <2> QED
    BY <1>0, <2>1, Primes, Zenon DEF IInv, PathInv
<1>6. ReadyInv'
  <2>1. chq' > 0 => chq > 0
    BY DEF IInv, TInv
  <2>2. "ready" \in In(up') \/ "ready" \in In(toAgent) \/ bridge # "none" \/ chq' > 0
        => Ready \/ (b'.chan = "open" /\ b'.rfb = "direct")
    BY <2>1, Zenon DEF Ready, UpMoves
  <2>3. Ready => b'.chan # "none" /\ (b'.chan = "open" => b'.rfb = "direct")
    BY Zenon DEF IInv, ReadyInv, Moves
  <2>4. b'.chan = "open" => b'.chan # "none"
    OBVIOUS
  <2>5. Ready' <=> "ready" \in In(up') \/ "ready" \in In(toAgent) \/ bridge # "none" \/ chq' > 0
    BY <1>0, Primes DEF Ready
  <2> QED
    BY <2>2, <2>3, <2>4, <2>5, Zenon DEF ReadyInv
<1> QED
  BY <1>1, <1>2, <1>3, <1>4, <1>5, <1>6 DEF IInv

\* Queues that do not change, or are taken from or emptied.
LEMMA SameUp == ASSUME IInv, UNCHANGED up PROVE UpMoves
BY Current, Zenon DEF UpMoves
LEMMA SameDown == ASSUME IInv, UNCHANGED down PROVE DownMoves
BY Current, Zenon DEF DownMoves
LEMMA NoDown == ASSUME IInv, down' = <<>> PROVE DownMoves
BY InNone DEF DownMoves
LEMMA NextDown == ASSUME IInv, down # <<>>, down' = Tail(down) PROVE DownMoves
BY Current, InTail DEF DownMoves

\* A frame that is sent is the last of the queue.
LEMMA SendAppends == ASSUME NEW x, NEW m, Send(x, m) PROVE up' \in {up, Append(up, m)}
BY DEF Send, Sending

\* A frame sent at its time.
LEMMA SendMoves ==
  ASSUME IInv, NEW m \in Ups, up' \in {up, Append(up, m)},
         m \notin UpStream => ~b.requested,
         m = "fallback" => b'.requested, m = "rfb" => b.rfb = "relay",
         m = "ready" => b'.chan = "open" /\ b'.rfb = "direct"
  PROVE  UpMoves
<1>1. up' = up \/ up' = Append(up, m)
  OBVIOUS
<1>2. CASE up' = up
  BY <1>2, SameUp
<1>3. CASE up' = Append(up, m)
  <2>1. /\ up \in Seq(Ups) /\ After(up, "fallback", UpStream)
        /\ m \in UpStream \/ "fallback" \notin In(up)
    BY Current
  <2>2. /\ Append(up, m) \in Seq(Ups)
        /\ \A k : k \in In(Append(up, m)) <=> k \in In(up) \/ k = m
        /\ After(Append(up, m), "fallback", UpStream)
    BY <2>1, InAppend, Zenon
  <2>3. /\ up' \in Seq(Ups) /\ After(up', "fallback", UpStream)
        /\ \A k : k \in In(up') <=> k \in In(up) \/ k = m
    BY <1>3, <2>2, Zenon
  <2> QED
    BY <2>3, Zenon DEF UpMoves
<1> QED
  BY <1>1, <1>2, <1>3

\* A step of the browser that is not told of the path.
LEMMA QuietStep ==
  ASSUME IInv, Moves(b, b'), Unaware(b, b'), UpMoves, DownMoves, UNCHANGED notBrowser,
         chq' \in Nat, chq' <= chq
  PROVE  IInv'
<1>1. UNCHANGED shared
  BY DEF notBrowser, server, session, direct, shared
<1> QED
  BY <1>1, BrowserStep, Zenon DEF Unaware

\* A fallback from a view that has made a step.
LEMMA FallbackStep ==
  ASSUME IInv, NEW x, Moves(b, x), Unaware(b, x), x.requested = b.requested,
         x.sock # "connecting", NEW f, startFallback(x, f)
  PROVE  Moves(b, b') /\ Unaware(b, b') /\ UpMoves
<1>1. CASE canFallback(x, f)
  <2>1. b' = FellBack(x) /\ ~b.requested /\ up' \in {up, Append(up, "fallback")}
    BY <1>1, SendAppends DEF startFallback, canFallback
  <2>2. Moves(x, b') /\ Unaware(x, b') /\ b'.requested
    BY <2>1, FallbackView DEF Moves
  <2>3. UpMoves
    BY <2>1, <2>2, SendMoves DEF Ups, UpStream
  <2> QED
    BY <2>2, <2>3, MovesOn
<1>2. CASE ~canFallback(x, f)
  <2>1. b' = x /\ UNCHANGED up
    BY <1>2 DEF startFallback
  <2> QED
    BY <2>1, SameUp
<1> QED
  BY <1>1, <1>2

\* noVNC gets the channel, or does not.
LEMMA AttachStep ==
  ASSUME IInv, NEW x, Moves(b, x), x.requested = b.requested, x.sock # "connecting",
         maybeAttachDirect(x)
  PROVE  Moves(b, b') /\ Unaware(x, b') /\ UpMoves
<1>1. CASE x.acked /\ x.chan = "open" /\ ~x.requested /\ x.rfb = "none"
  <2>1. b' = attachRFB(x, "direct") /\ ~b.requested /\ up' \in {up, Append(up, "ready")}
    BY <1>1, SendAppends DEF maybeAttachDirect
  <2>2. Moves(x, b') /\ Unaware(x, b') /\ b'.chan = "open" /\ b'.rfb = "direct"
    BY <1>1, <2>1, DirectView DEF Moves
  <2>3. UpMoves
    BY <2>1, <2>2, SendMoves DEF Ups, UpStream
  <2> QED
    BY <2>2, <2>3, MovesOn
<1>2. CASE ~(x.acked /\ x.chan = "open" /\ ~x.requested /\ x.rfb = "none")
  <2>1. b' = x /\ UNCHANGED up
    BY <1>2 DEF maybeAttachDirect
  <2> QED
    BY <2>1, SameUp DEF Unaware
<1> QED
  BY <1>1, <1>2

-----------------------------------------------------------------------------
(* The actions of DesktopView.                                             *)

\* Changes of the view that its invariant leaves open.
LEMMA Edits ==
  ASSUME NEW x \in ViewType
  PROVE  /\ x.sock # "connecting" => Alike(x, [x EXCEPT !.offer = "made"])
         /\ \A s \in Stages : /\ Alike(x, [x EXCEPT !.stage = s])
                              /\ Alike(x, [x EXCEPT !.stage = s, !.answered = TRUE])
         /\ Alike(x, [x EXCEPT !.directTimer = FALSE])
         /\ Alike(x, [x EXCEPT !.hand = "off"])
         /\ Alike(x, CloseSocket(x))
<1>1. x.sock # "connecting" => Alike(x, [x EXCEPT !.offer = "made"])
  BY DEF ViewType, Alike
<1>2. ASSUME NEW s \in Stages PROVE Alike(x, [x EXCEPT !.stage = s])
  BY DEF ViewType, Alike
<1>3. ASSUME NEW s \in Stages PROVE Alike(x, [x EXCEPT !.stage = s, !.answered = TRUE])
  BY DEF ViewType, Alike
<1>4. Alike(x, [x EXCEPT !.directTimer = FALSE])
  BY DEF ViewType, Alike
<1>5. Alike(x, [x EXCEPT !.hand = "off"])
  BY DEF ViewType, Alike
<1>6. Alike(x, CloseSocket(x))
  <2> DEFINE k == IF x.sock = "open" THEN "closing" ELSE x.sock
  <2>1. k \in {"connecting", "open", "closing", "closed"}
        /\ (k = "connecting" => x.sock = "connecting")
    BY DEF ViewType
  <2>2. CloseSocket(x) = [x EXCEPT !.sock = k]
    BY DEF CloseSocket
  <2> HIDE DEF k
  <2> QED
    BY <2>1, <2>2 DEF ViewType, Alike
<1> QED
  BY <1>1, <1>2, <1>3, <1>4, <1>5, <1>6, Zenon

\* A view that changes in nothing else.
LEMMA AlikeStep ==
  ASSUME IInv, NEW x, Alike(b, x)
  PROVE  /\ Moves(b, x) /\ Unaware(b, x) /\ x.requested = b.requested
         /\ b.sock # "connecting" => x.sock # "connecting"
BY Current, AlikeMoves, Zenon DEF Alike

\* A step in which only the view changes, and only in what is left open.
LEMMA EditStep ==
  ASSUME IInv, Alike(b, b'), UNCHANGED <<up, down, chq, notBrowser>>
  PROVE  IInv'
<1>1. chq' \in Nat /\ chq' <= chq
  BY Current
<1>2. UNCHANGED up /\ UNCHANGED down /\ UNCHANGED notBrowser
  BY Zenon
<1> QED
  BY <1>1, <1>2, AlikeStep, SameUp, SameDown, QuietStep, Zenon

\* A fallback after such a change.
LEMMA EditFallback ==
  ASSUME IInv, NEW x, Alike(b, x), b.sock # "connecting", NEW f, startFallback(x, f),
         DownMoves, UNCHANGED chq, UNCHANGED notBrowser
  PROVE  IInv'
<1>1. chq' \in Nat /\ chq' <= chq
  BY Current
<1>2. Moves(b, b') /\ Unaware(b, b') /\ UpMoves
  BY AlikeStep, FallbackStep, Zenon
<1> QED
  BY <1>1, <1>2, QuietStep, Zenon

\* The socket has just opened.
LEMMA OpenedView ==
  ASSUME IInv, b.sock = "connecting"
  PROVE  /\ Moves(b, Opened) /\ Unaware(b, Opened) /\ Opened.requested = b.requested
         /\ Opened.sock = "open"
         /\ Moves(Opened, [Opened EXCEPT !.peer = "open", !.offer = "making"])
         /\ Unaware(Opened, [Opened EXCEPT !.peer = "open", !.offer = "making"])
<1> DEFINE s == startBudget(b.stage)
           x == [b EXCEPT !.sock = "open", !.directTimer = TRUE, !.stage = s]
           y == [x EXCEPT !.peer = "open", !.offer = "making"]
<1>1. b \in ViewType /\ ViewInv(b)
  BY Current
<1>2. s \in Stages
  BY <1>1, StageFacts DEF ViewType
<1> HIDE DEF s
<1>3. x \in ViewType
  BY <1>1, <1>2 DEF ViewType
<1>4. /\ x.requested = b.requested /\ x.acked = b.acked /\ x.live = b.live /\ x.rfb = b.rfb
      /\ x.peer = b.peer /\ x.chan = b.chan /\ x.hand = b.hand /\ x.sock = "open"
  BY <1>1 DEF ViewType
<1>5. Opened = x
  BY DEF Opened, s
<1> HIDE DEF x
<1>6. y \in ViewType
  BY <1>3 DEF ViewType
<1>7. /\ y.requested = x.requested /\ y.acked = x.acked /\ y.live = x.live /\ y.rfb = x.rfb
      /\ y.chan = x.chan /\ y.hand = x.hand /\ y.sock = x.sock
  BY <1>3 DEF ViewType
<1> HIDE DEF y
<1>8. Moves(b, x) /\ Unaware(b, x)
  BY <1>1, <1>3, <1>4, Zenon DEF Moves, Unaware, ViewInv
<1>9. Moves(x, y) /\ Unaware(x, y)
  <2>1. ~b.requested
    BY <1>1 DEF ViewInv
  <2>2. ViewInv(y)
    BY <1>1, <1>4, <1>7, <2>1, Zenon DEF ViewInv
  <2> QED
    BY <1>6, <1>7, <2>2, Zenon DEF Moves, Unaware
<1> QED
  BY <1>4, <1>5, <1>8, <1>9, Zenon DEF y

\* socket.onopen.
LEMMA Opens == ASSUME IInv, SocketOpen \/ CreateThrows PROVE IInv'
<1>a. UNCHANGED chq /\ UNCHANGED down /\ UNCHANGED notBrowser /\ b.sock = "connecting"
  BY Zenon DEF SocketOpen, CreateThrows
<1>0. chq' \in Nat /\ chq' <= chq /\ DownMoves
  BY <1>a, Current, SameDown
<1>1. CASE SocketOpen
  <2>1. b' = [Opened EXCEPT !.peer = "open", !.offer = "making"] /\ UpMoves
    BY <1>1, SameUp DEF SocketOpen
  <2>2. Moves(b, b') /\ Unaware(b, b')
    BY <1>a, <1>0, <2>1, OpenedView, MovesOn, Zenon
  <2> QED
    BY <1>a, <1>0, <2>1, <2>2, QuietStep, Zenon
<1>2. CASE CreateThrows
  <2>1. startFallback(Opened, FALSE) /\ Opened.sock # "connecting"
    BY <1>a, <1>2, OpenedView DEF CreateThrows
  <2>2. Moves(b, b') /\ Unaware(b, b') /\ UpMoves
    BY <1>a, <1>0, <2>1, OpenedView, FallbackStep, Zenon
  <2> QED
    BY <1>a, <1>0, <2>2, QuietStep, Zenon
<1> QED
  BY <1>1, <1>2

\* negotiateOffer, the candidates and the state of the peer.
LEMMA Negotiates ==
  ASSUME IInv, NegotiateOffer \/ NegotiateFails \/ SendCandidate \/ PeerConnecting
  PROVE  IInv'
<1>a. UNCHANGED chq /\ UNCHANGED down /\ UNCHANGED notBrowser
  BY Zenon DEF NegotiateOffer, NegotiateFails, SendCandidate, PeerConnecting
<1>b. chq' \in Nat /\ chq' <= chq /\ DownMoves /\ b \in ViewType
  BY <1>a, Current, SameDown
<1>0. /\ chq' \in Nat /\ chq' <= chq /\ UNCHANGED notBrowser /\ UNCHANGED chq /\ DownMoves
      /\ b \in ViewType
  BY <1>a, <1>b, Zenon
<1>1. CASE NegotiateOffer
  <2>1. b.offer = "making" /\ b' = [b EXCEPT !.offer = "made"]
    BY <1>1 DEF NegotiateOffer
  <2>2. b.sock # "connecting" /\ (b.peer = "open" => ~b.requested)
    BY <2>1, Current DEF ViewInv
  <2>3. Alike(b, b')
    BY <1>0, <2>1, <2>2, Edits, Zenon
  <2>4. UNCHANGED up \/ (~b.requested /\ up' \in {up, Append(up, "offer")})
    BY <1>1, <2>2, SendAppends DEF NegotiateOffer
  <2>5. UpMoves
    BY <2>4, SameUp, SendMoves DEF Ups
  <2> QED
    BY <1>0, <2>3, <2>5, AlikeStep, QuietStep, Zenon
<1>2. CASE NegotiateFails
  <2>1. b.offer = "making" /\ startFallback([b EXCEPT !.offer = "made"], TRUE)
    BY <1>2 DEF NegotiateFails
  <2>2. b.sock # "connecting"
    BY <2>1, Current DEF ViewInv
  <2>3. Alike(b, [b EXCEPT !.offer = "made"])
    BY <1>0, <2>2, Edits, Zenon
  <2> QED
    BY <1>0, <2>1, <2>2, <2>3, EditFallback, Zenon
<1>3. CASE SendCandidate
  <2>1. b' = b /\ b.peer = "open" /\ up' \in {up, Append(up, "ice")}
    BY <1>3, SendAppends DEF SendCandidate
  <2>2. ~b.requested
    BY <2>1, Current DEF ViewInv
  <2>3. UpMoves
    BY <2>1, <2>2, SendMoves DEF Ups
  <2> QED
    BY <1>0, <2>1, <2>3, Current, QuietStep, Zenon
<1>4. CASE PeerConnecting
  <2>1. b' = [b EXCEPT !.stage = applyStage(b.stage, "checking")]
    BY <1>4 DEF PeerConnecting
  <2>2. applyStage(b.stage, "checking") \in Stages
    BY <1>0, StageFacts DEF ViewType, Stages, Waiting
  <2>3. Alike(b, b')
    BY <1>0, <2>1, <2>2, Edits, Zenon
  <2>4. UNCHANGED <<up, down, chq, notBrowser>>
    BY <1>4, Zenon DEF PeerConnecting
  <2> QED
    BY <2>3, <2>4, EditStep
<1> QED
  BY <1>1, <1>2, <1>3, <1>4

\* The handshake of a stream other than the direct one ends: the view has asked for
\* the relay.
LEMMA GivenUpView ==
  ASSUME NEW x \in ViewType, ViewInv(x), x.hand \in {"switch", "relay"}, NEW s \in Stages
  PROVE  /\ Moves(x, CloseSocket([x EXCEPT !.hand = "off", !.rfb = "none", !.stage = s]))
         /\ Unaware(x, CloseSocket([x EXCEPT !.hand = "off", !.rfb = "none", !.stage = s]))
<1> DEFINE y == [x EXCEPT !.hand = "off", !.rfb = "none", !.stage = s]
<1>1. y \in ViewType
  BY DEF ViewType
<1>2. /\ y.requested = x.requested /\ y.acked = x.acked /\ y.live = x.live /\ y.rfb = "none"
      /\ y.chan = x.chan /\ y.peer = x.peer /\ y.hand = "off" /\ y.sock = x.sock
  BY DEF ViewType
<1> HIDE DEF y
<1>3. x.requested /\ ~x.live /\ x.sock # "connecting" /\ x.chan # "open" /\ x.peer # "open"
  BY DEF ViewInv
<1>4. ViewInv(y) /\ Moves(x, y) /\ Unaware(x, y)
  <2>1. ViewInv(y)
    BY <1>2, <1>3 DEF ViewInv
  <2> QED
    BY <1>1, <1>2, <1>3, <2>1, Zenon DEF Moves, Unaware
<1>5. Moves(y, CloseSocket(y)) /\ Unaware(y, CloseSocket(y))
  BY <1>1, <1>4, Edits, AlikeMoves, Zenon
<1>6. Moves(x, CloseSocket(y)) /\ Unaware(x, CloseSocket(y))
  BY <1>4, <1>5, MovesOn, Zenon
<1> QED
  BY <1>6 DEF y

\* The two deadlines.
LEMMA Deadlines == ASSUME IInv, DirectDeadline \/ HandshakeDeadline PROVE IInv'
<1>a. UNCHANGED chq /\ UNCHANGED notBrowser
  BY Zenon DEF DirectDeadline, HandshakeDeadline
<1>b. chq' \in Nat /\ chq' <= chq /\ b \in ViewType /\ ViewInv(b)
  BY <1>a, Current
<1>0. /\ chq' \in Nat /\ chq' <= chq /\ UNCHANGED notBrowser /\ UNCHANGED chq
      /\ b \in ViewType /\ ViewInv(b)
  BY <1>a, <1>b, Zenon
<1>1. CASE DirectDeadline
  <2>1. b.directTimer /\ startFallback([b EXCEPT !.directTimer = FALSE], FALSE) /\ DownMoves
    BY <1>1, SameDown DEF DirectDeadline
  <2>2. b.sock # "connecting"
    BY <1>0, <2>1 DEF ViewInv
  <2> QED
    BY <1>0, <2>1, <2>2, Edits, EditFallback, Zenon
<1>2. CASE HandshakeDeadline /\ b.hand = "direct"
  <2>1. startFallback([b EXCEPT !.hand = "off"], TRUE) /\ DownMoves
    BY <1>2, SameDown DEF HandshakeDeadline
  <2>2. b.sock # "connecting"
    BY <1>0, <1>2 DEF ViewInv
  <2> QED
    BY <1>0, <2>1, <2>2, Edits, EditFallback, Zenon
<1>3. CASE HandshakeDeadline /\ b.hand # "direct"
  <2> DEFINE s == markFailed(b.stage)
  <2>1. s \in Stages /\ b.hand \in {"switch", "relay"}
    BY <1>0, <1>3, StageFacts DEF ViewType, HandshakeDeadline
  <2>2. /\ up' \in {up, Append(up, "bye")} /\ down' = <<>>
        /\ b' = CloseSocket([[b EXCEPT !.hand = "off"] EXCEPT
                               !.rfb = "none", !.stage = markFailed(@)])
    BY <1>3, SendAppends DEF HandshakeDeadline
  <2>3. [[b EXCEPT !.hand = "off"] EXCEPT !.rfb = "none", !.stage = markFailed(@)]
          = [b EXCEPT !.hand = "off", !.rfb = "none", !.stage = s]
    BY <1>0 DEF ViewType
  <2>4. b' = CloseSocket([b EXCEPT !.hand = "off", !.rfb = "none", !.stage = s])
    BY <2>2, <2>3, Zenon
  <2>5. UpMoves /\ DownMoves
    BY <2>2, NoDown, SendMoves DEF Ups, UpStream
  <2> HIDE DEF s
  <2>6. Moves(b, b') /\ Unaware(b, b')
    BY <1>0, <2>1, <2>4, GivenUpView, Zenon
  <2> QED
    BY <1>0, <2>5, <2>6, QuietStep, Zenon
<1> QED
  BY <1>1, <1>2, <1>3

\* The frame that is received.
LEMMA Takes ==
  ASSUME IInv, Received, down' = Tail(down)
  PROVE  /\ Head(down) \in In(down) /\ DownMoves /\ b.sock # "connecting"
         /\ Head(down) = "relay" => In(down') \subseteq DownStream
<1>1. down # <<>> /\ b.sock = "open"
  BY DEF Received
<1>2. down \in Seq(Downs) /\ After(down, "relay", DownStream)
  BY Current
<1>3. Head(down) \in In(down) /\ (Head(down) = "relay" => In(Tail(down)) \subseteq DownStream)
  BY <1>1, <1>2, InTail, Zenon
<1> QED
  BY <1>1, <1>3, NextDown

\* direct-ok is remembered.
LEMMA AckedView ==
  ASSUME NEW x \in ViewType, ViewInv(x)
  PROVE  /\ Moves(x, [x EXCEPT !.acked = TRUE])
         /\ [x EXCEPT !.acked = TRUE].requested = x.requested
         /\ [x EXCEPT !.acked = TRUE].sock = x.sock /\ [x EXCEPT !.acked = TRUE].rfb = x.rfb
<1> DEFINE y == [x EXCEPT !.acked = TRUE]
<1>1. /\ y \in ViewType /\ y.acked /\ y.directTimer = x.directTimer /\ y.offer = x.offer
      /\ y.requested = x.requested /\ y.live = x.live /\ y.rfb = x.rfb
      /\ y.chan = x.chan /\ y.peer = x.peer /\ y.hand = x.hand /\ y.sock = x.sock
  BY DEF ViewType
<1> HIDE DEF y
<1>2. Moves(x, y)
  BY <1>1, Zenon DEF Moves, ViewInv
<1> QED
  BY <1>1, <1>2 DEF y

\* rtc:relay gives the socket to noVNC.
LEMMA RelayView ==
  ASSUME NEW x \in ViewType, ~x.live, x.sock # "connecting", NEW s \in Stages
  PROVE  Moves(x, attachRFB([ClosePeer(x) EXCEPT !.requested = TRUE, !.directTimer = FALSE,
                                                 !.stage = s], "relay"))
         /\ (attachRFB([ClosePeer(x) EXCEPT !.requested = TRUE, !.directTimer = FALSE,
                                            !.stage = s], "relay").acked => x.acked)
<1> DEFINE w == ClosePeer(x)
           y == [w EXCEPT !.requested = TRUE, !.directTimer = FALSE, !.stage = s]
           z == attachRFB(y, "relay")
<1>1. /\ w \in ViewType /\ w.sock = x.sock /\ w.acked = x.acked /\ w.live = x.live
      /\ w.peer # "open" /\ w.chan # "open" /\ (x.chan # "none" => w.chan # "none")
  BY PeerClosed
<1> HIDE DEF w
<1>2. y \in ViewType
  BY <1>1 DEF ViewType
<1>3. /\ y.requested /\ y.sock = w.sock /\ y.acked = w.acked /\ y.live = w.live
      /\ y.peer = w.peer /\ y.chan = w.chan
  BY <1>1 DEF ViewType
<1> HIDE DEF y
<1>4. /\ z \in ViewType /\ z.rfb = "relay" /\ z.hand = "relay" /\ z.sock = y.sock
      /\ z.requested = y.requested /\ z.acked = y.acked /\ z.live = y.live
      /\ z.peer = y.peer /\ z.chan = y.chan
  BY <1>2, Attached
<1> HIDE DEF z
<1>5. /\ z.requested /\ ~z.live /\ z.sock # "connecting" /\ z.peer # "open" /\ z.chan # "open"
      /\ (x.chan # "none" => z.chan # "none") /\ (z.acked => x.acked)
  BY <1>1, <1>3, <1>4, Zenon
<1>6. ViewInv(z)
  BY <1>4, <1>5 DEF ViewInv
<1>7. Moves(x, z)
  BY <1>4, <1>5, <1>6, Zenon DEF Moves
<1> QED
  BY <1>5, <1>7 DEF w, y, z

\* socket.onmessage.
LEMMA Receives == ASSUME IInv, Receive \/ AnswerRejected PROVE IInv'
<1>a. UNCHANGED chq /\ UNCHANGED notBrowser /\ Received /\ b.rfb # "relay" /\ down' = Tail(down)
  BY Zenon DEF Receive, AnswerRejected
<1>b. chq' \in Nat /\ chq' <= chq /\ b \in ViewType /\ ViewInv(b)
  BY <1>a, Current
<1>c. DownMoves /\ Head(down) \in In(down) /\ b.sock # "connecting" /\ UNCHANGED shared
  BY <1>a, Takes DEF notBrowser, server, session, direct, shared
<1> DEFINE Edited == Alike(b, b') /\ UNCHANGED up
           n == applyStage(b.stage, "negotiating")
<1>d. n \in Stages /\ markFailed(b.stage) \in Stages /\ markRelaying(b.stage) \in Stages
  BY <1>b, StageFacts DEF ViewType, Stages, Waiting
<1> HIDE DEF n
<1>e. ASSUME Edited PROVE IInv'
  BY <1>a, <1>b, <1>c, <1>e, AlikeStep, SameUp, QuietStep, Zenon
<1>1. CASE Receive /\ Head(down) = "answer"
  <2>1. UNCHANGED up /\ (b' = b \/ b' = [b EXCEPT !.stage = n, !.answered = TRUE])
    BY <1>1 DEF Receive, OnSignal, n
  <2>2. Edited
    BY <1>b, <1>d, <2>1, Current, Edits, Zenon
  <2> QED
    BY <1>e, <2>2
<1>2. CASE Receive /\ Head(down) = "ok"
  <2>1. maybeAttachDirect([b EXCEPT !.acked = TRUE])
    BY <1>2 DEF Receive, OnSignal
  <2>2. Moves(b, b') /\ Unaware([b EXCEPT !.acked = TRUE], b') /\ UpMoves
    BY <1>b, <1>c, <2>1, AckedView, AttachStep, Zenon
  <2>3. b'.rfb = "relay" => b.rfb = "relay"
    BY <1>b, <2>2, AckedView, Zenon DEF Unaware
  <2> QED
    BY <1>b, <1>c, <1>2, <2>2, <2>3, BrowserStep, Zenon
<1>3. CASE Receive /\ Head(down) = "derr"
  <2>1. startFallback(b, TRUE)
    BY <1>3 DEF Receive, OnSignal
  <2> QED
    BY <1>a, <1>c, <2>1, Current, EditFallback, Zenon
<1>4. CASE Receive /\ Head(down) = "relay"
  <2>1. UNCHANGED up /\ OnRelay
    BY <1>4 DEF Receive, OnSignal
  <2>2. b' = attachRFB([ClosePeer(b) EXCEPT !.requested = TRUE, !.directTimer = FALSE,
                                            !.stage = markRelaying(b.stage)], "relay")
    BY <1>b, <2>1, PeerClosed DEF OnRelay
  <2>3. ~b.live
    BY <1>a, <1>b, <1>c, <1>4, Zenon DEF IInv, DownInv, UpInv, ViewInv
  <2>4. Moves(b, b') /\ (b'.acked => b.acked)
    BY <1>b, <1>c, <1>d, <2>2, <2>3, RelayView, Zenon
  <2>5. In(down') \subseteq DownStream
    BY <1>a, <1>4, Takes
  <2> QED
    BY <1>b, <1>c, <1>4, <2>1, <2>4, <2>5, SameUp, BrowserStep, Zenon
<1>5. CASE Receive /\ Head(down) = "serr"
  <2>1. UNCHANGED up /\ b' = [b EXCEPT !.stage = markFailed(b.stage)]
    BY <1>5 DEF Receive, OnSignal, OnError
  <2>2. Edited
    BY <1>b, <1>d, <2>1, Edits, Zenon
  <2> QED
    BY <1>e, <2>2
<1>6. CASE AnswerRejected
  <2>1. startFallback([b EXCEPT !.stage = n], FALSE)
    BY <1>6 DEF AnswerRejected, n
  <2> QED
    BY <1>a, <1>b, <1>c, <1>d, <2>1, Edits, EditFallback, Zenon
<1>7. Receive => Head(down) \in {"answer", "ok", "derr", "relay", "serr"}
  BY DEF Receive, OnSignal
<1> QED
  BY <1>1, <1>2, <1>3, <1>4, <1>5, <1>6, <1>7

\* noVNC reads a frame, of the relay or of the channel.
LEMMA Frames == ASSUME IInv, RelayFrame \/ ChannelFrame PROVE IInv'
<1>1. CASE RelayFrame
  <2>1. /\ UNCHANGED chq /\ UNCHANGED up /\ UNCHANGED notBrowser /\ Received
        /\ down' = Tail(down) /\ b.rfb = "relay"
    BY <1>1, Zenon DEF RelayFrame
  <2>2. b' = b \/ b' = RfbConnect(b)
    BY <1>1 DEF RelayFrame
  <2>3. chq' \in Nat /\ chq' <= chq /\ DownMoves /\ b.rfb # "none"
    BY <2>1, Current, Takes
  <2>4. Moves(b, b') /\ Unaware(b, b')
    BY <2>2, <2>3, Current, ConnectView, Zenon
  <2> QED
    BY <2>1, <2>3, <2>4, SameUp, QuietStep, Zenon
<1>2. CASE ChannelFrame
  <2>1. UNCHANGED up /\ UNCHANGED down /\ UNCHANGED notBrowser
    BY <1>2, Zenon DEF ChannelFrame
  <2>2. chq' \in Nat /\ chq' <= chq
    BY <1>2, Current DEF ChannelFrame
  <2>3. b' = b \/ (b.rfb # "none" /\ b' = RfbConnect(b))
    BY <1>2 DEF ChannelFrame
  <2>4. Moves(b, b') /\ Unaware(b, b')
    BY <2>3, Current, ConnectView, Zenon
  <2> QED
    BY <2>1, <2>2, <2>4, SameUp, SameDown, QuietStep, Zenon
<1> QED
  BY <1>1, <1>2

\* A failed authentication ends the session.
LEMMA RefusedView ==
  ASSUME NEW x \in ViewType, ViewInv(x), ~x.live, x.sock # "connecting", NEW s \in Stages
  PROVE  LET y == CloseSocket(ClosePeer([x EXCEPT !.hand = "off", !.directTimer = FALSE,
                                                  !.requested = TRUE, !.stage = s]))
         IN  Moves(x, y) /\ Unaware(x, y)
<1> DEFINE v == [x EXCEPT !.hand = "off", !.directTimer = FALSE]
           w == [v EXCEPT !.requested = TRUE, !.stage = s]
           y == ClosePeer(w)
           z == CloseSocket(y)
<1>1. /\ v \in ViewType /\ v.sock = x.sock /\ v.acked = x.acked /\ v.live = x.live
      /\ v.rfb = x.rfb /\ v.chan = x.chan /\ v.hand = "off"
  BY DEF ViewType
<1>2. [x EXCEPT !.hand = "off", !.directTimer = FALSE, !.requested = TRUE, !.stage = s] = w
  BY DEF ViewType
<1> HIDE DEF v
<1>3. /\ w \in ViewType /\ w.sock = v.sock /\ w.acked = v.acked /\ w.live = v.live
      /\ w.rfb = v.rfb /\ w.chan = v.chan /\ w.hand = v.hand /\ w.requested
  BY <1>1 DEF ViewType
<1> HIDE DEF w
<1>4. /\ y \in ViewType /\ y.sock = w.sock /\ y.acked = w.acked /\ y.live = w.live
      /\ y.rfb = w.rfb /\ y.hand = w.hand /\ y.requested = w.requested
      /\ y.peer # "open" /\ y.chan # "open" /\ (w.chan # "none" => y.chan # "none")
  BY <1>3, PeerClosed
<1> HIDE DEF y
<1>5. /\ y.requested /\ ~y.live /\ y.sock # "connecting" /\ y.hand = "off"
      /\ y.acked = x.acked /\ y.rfb = x.rfb /\ (x.chan # "none" => y.chan # "none")
  BY <1>1, <1>3, <1>4, Zenon
<1>6. ViewInv(y)
  BY <1>4, <1>5 DEF ViewInv
<1>7. Moves(x, y) /\ Unaware(x, y)
  BY <1>4, <1>5, <1>6, Zenon DEF Moves, Unaware
<1>8. Moves(y, z) /\ Unaware(y, z)
  BY <1>4, <1>6, Edits, AlikeMoves, Zenon
<1>9. Moves(x, z) /\ Unaware(x, z)
  BY <1>7, <1>8, MovesOn, Zenon
<1> QED
  BY <1>2, <1>9, Zenon DEF y, z

\* noVNC answers, or gives up its stream.
LEMMA Streams == ASSUME IInv, RfbSend \/ RfbDisconnect \/ SecurityFailure PROVE IInv'
<1>a. UNCHANGED chq /\ UNCHANGED notBrowser /\ b.sock = "open"
  BY Zenon DEF RfbSend, RfbDisconnect, SecurityFailure
<1>b. chq' \in Nat /\ chq' <= chq /\ b \in ViewType /\ ViewInv(b) /\ b.sock # "connecting"
  BY <1>a, Current
<1>1. CASE RfbSend
  <2>1. b' = b /\ UNCHANGED down /\ b.rfb = "relay" /\ up' \in {up, Append(up, "rfb")}
    BY <1>1, SendAppends DEF RfbSend
  <2>2. UpMoves
    BY <2>1, SendMoves DEF Ups, UpStream
  <2> QED
    BY <1>a, <1>b, <2>1, <2>2, Current, SameDown, QuietStep, Zenon
<1>2. CASE RfbDisconnect /\ b.rfb = "direct"
  <2>1. startFallback([b EXCEPT !.hand = "off"], TRUE) /\ UNCHANGED down
    BY <1>2 DEF RfbDisconnect
  <2> QED
    BY <1>a, <1>b, <2>1, Edits, SameDown, EditFallback, Zenon
<1>3. CASE RfbDisconnect /\ b.rfb # "direct"
  <2> DEFINE x == [b EXCEPT !.hand = "off"]
             y == [x EXCEPT !.stage = markDisconnected(x.stage)]
  <2>1. b' = CloseSocket(y) /\ up' \in {up, Append(up, "bye")} /\ down' = <<>>
    BY <1>3, SendAppends DEF RfbDisconnect
  <2>2. UpMoves /\ DownMoves
    BY <2>1, NoDown, SendMoves DEF Ups, UpStream
  <2>3. x \in ViewType /\ Moves(b, x) /\ Unaware(b, x)
    BY <1>b, Edits, AlikeStep, Zenon DEF Moves
  <2> HIDE DEF x
  <2>4. y \in ViewType /\ Moves(x, y) /\ Unaware(x, y)
    <3>1. markDisconnected(x.stage) \in Stages
      BY <2>3, StageFacts DEF ViewType
    <3>2. Alike(x, [x EXCEPT !.stage = markDisconnected(x.stage)])
      BY <2>3, <3>1, Edits
    <3>3. x \in ViewType /\ ViewInv(x)
      BY <2>3 DEF Moves
    <3> HIDE DEF y
    <3>4. Alike(x, y)
      BY <3>2 DEF y
    <3>5. Moves(x, y) /\ Unaware(x, y)
      BY <3>3, <3>4, AlikeMoves, Zenon
    <3> QED
      BY <3>5 DEF Moves
  <2> HIDE DEF y
  <2>5. Moves(y, CloseSocket(y)) /\ Unaware(y, CloseSocket(y))
    BY <2>4, Edits, AlikeMoves, Zenon DEF Moves
  <2>6. Moves(b, y) /\ Unaware(b, y)
    BY <2>3, <2>4, MovesOn, Zenon
  <2>7. Moves(b, b') /\ Unaware(b, b')
    BY <2>1, <2>5, <2>6, MovesOn, Zenon
  <2> QED
    BY <1>a, <1>b, <2>2, <2>7, QuietStep, Zenon
<1>4. CASE SecurityFailure
  <2>1. /\ b' = CloseSocket(ClosePeer([b EXCEPT !.hand = "off", !.directTimer = FALSE,
                                         !.requested = TRUE, !.stage = markFailed(b.stage)]))
        /\ up' \in {up, Append(up, "bye")} /\ down' = <<>> /\ ~b.live
    BY <1>4, SendAppends DEF SecurityFailure
  <2>2. UpMoves /\ DownMoves
    BY <2>1, NoDown, SendMoves DEF Ups, UpStream
  <2>3. markFailed(b.stage) \in Stages
    BY <1>b, StageFacts DEF ViewType
  <2>4. Moves(b, b') /\ Unaware(b, b')
    BY <1>b, <2>1, <2>3, RefusedView, Zenon
  <2> QED
    BY <1>a, <1>b, <2>2, <2>4, QuietStep, Zenon
<1> QED
  BY <1>1, <1>2, <1>3, <1>4

\* The socket closes, breaks or is left.
LEMMA Closes == ASSUME IInv, SocketClosed \/ SocketFails \/ Dispose PROVE IInv'
<1>a. UNCHANGED chq /\ UNCHANGED notBrowser /\ down' = <<>>
  BY Zenon DEF SocketClosed, SocketFails, Dispose
<1>b. chq' \in Nat /\ chq' <= chq /\ b \in ViewType /\ DownMoves
  BY <1>a, Current, NoDown
<1>1. CASE SocketClosed
  <2>1. b' = Closed(b) /\ UNCHANGED up
    BY <1>1, Zenon DEF SocketClosed
  <2> QED
    BY <1>a, <1>b, <2>1, ClosedView, SameUp, QuietStep, Zenon
<1>2. CASE SocketFails
  <2>1. PICK n \in 0..Len(up) : up' = Sending(SubSeq(up, 1, n), "bye")
    BY <1>2 DEF SocketFails
  <2> DEFINE q == SubSeq(up, 1, n)
  <2>2. /\ q \in Seq(Ups) /\ In(q) \subseteq In(up) /\ After(q, "fallback", UpStream)
        /\ "bye" \in Ups /\ "bye" \in UpStream
    BY Current, InPrefix DEF Ups, UpStream
  <2>3. up' = q \/ up' = Append(q, "bye")
    BY <2>1 DEF Sending
  <2> HIDE DEF q
  <2>4. /\ Append(q, "bye") \in Seq(Ups) /\ After(Append(q, "bye"), "fallback", UpStream)
        /\ \A k : k \in In(Append(q, "bye")) <=> k \in In(q) \/ k = "bye"
    BY <2>2, InAppend, Zenon
  <2>5. /\ up' \in Seq(Ups) /\ After(up', "fallback", UpStream)
        /\ \A k \in In(up') : k \in In(up) \/ k = "bye"
    BY <2>2, <2>3, <2>4, Zenon
  <2>6. UpMoves
    BY <2>2, <2>5 DEF UpMoves
  <2>7. b' = Closed(b) \/ b' = Closed([b EXCEPT !.stage = markFailed(@)])
    BY <1>2 DEF SocketFails
  <2>8. Moves(b, b') /\ Unaware(b, b')
    BY <1>b, <2>7, ClosedView
  <2> QED
    BY <1>a, <1>b, <2>6, <2>8, QuietStep, Zenon
<1>3. CASE Dispose
  <2>1. b' = [Closed(b) EXCEPT !.disposed = TRUE] /\ up' \in {up, Append(up, "bye")}
    BY <1>3 DEF Dispose, Sending
  <2>2. UpMoves
    BY <2>1, SendMoves DEF Ups, UpStream
  <2>3. Moves(b, b') /\ Unaware(b, b')
    BY <1>b, <2>1, ClosedView, Zenon
  <2> QED
    BY <1>a, <1>b, <2>2, <2>3, QuietStep, Zenon
<1> QED
  BY <1>1, <1>2, <1>3

\* The channel of the view opens or closes while its peer is open.
LEMMA ChannelView ==
  ASSUME NEW x \in ViewType, ViewInv(x), x.peer = "open", NEW c \in {"none", "open", "closed"},
         c = "none" => x.chan = "none", c = "open" => x.chan = "none"
  PROVE  LET y == [x EXCEPT !.chan = c]
         IN  /\ Moves(x, y) /\ Unaware(x, y) /\ y.requested = x.requested /\ y.sock = x.sock
             /\ x.sock # "connecting"
<1> DEFINE y == [x EXCEPT !.chan = c]
<1>1. /\ y \in ViewType /\ y.acked = x.acked /\ y.directTimer = x.directTimer
      /\ y.requested = x.requested /\ y.live = x.live /\ y.rfb = x.rfb /\ y.offer = x.offer
      /\ y.chan = c /\ y.peer = x.peer /\ y.hand = x.hand /\ y.sock = x.sock
  BY DEF ViewType
<1> HIDE DEF y
<1>2. ~x.requested /\ x.sock # "connecting"
  BY DEF ViewInv
<1>3. ViewInv(y)
  BY <1>1, <1>2, Zenon DEF ViewInv
<1>4. Moves(x, y) /\ Unaware(x, y)
  BY <1>1, <1>3, Zenon DEF Moves, Unaware
<1> QED
  BY <1>1, <1>2, <1>4, Zenon DEF y

\* The channel opens; the path fails.
LEMMA Channels == ASSUME IInv, ChannelOpens \/ PathFails PROVE IInv'
<1>a. UNCHANGED chq /\ UNCHANGED notBrowser /\ UNCHANGED down /\ b.peer = "open"
  BY Zenon DEF ChannelOpens, PathFails, Connected
<1>b. chq' \in Nat /\ chq' <= chq /\ b \in ViewType /\ ViewInv(b) /\ DownMoves
  BY <1>a, Current, SameDown
<1>1. CASE ChannelOpens
  <2>1. b.chan = "none" /\ maybeAttachDirect([b EXCEPT !.chan = "open"])
    BY <1>1 DEF ChannelOpens
  <2> DEFINE x == [b EXCEPT !.chan = "open"]
  <2>2. Moves(b, x) /\ Unaware(b, x) /\ x.requested = b.requested /\ x.sock # "connecting"
    BY <1>a, <1>b, <2>1, ChannelView
  <2> HIDE DEF x
  <2>3. Moves(b, b') /\ Unaware(x, b') /\ UpMoves
    BY <2>1, <2>2, AttachStep, Zenon DEF x
  <2>4. Unaware(b, b')
    BY <2>2, <2>3, Zenon DEF Unaware
  <2> QED
    BY <1>a, <1>b, <2>3, <2>4, QuietStep, Zenon
<1>2. CASE PathFails
  <2> DEFINE c == IF b.chan = "open" THEN "closed" ELSE b.chan
             x == [b EXCEPT !.chan = c]
  <2>1. startFallback(x, TRUE)
    BY <1>2 DEF PathFails
  <2>2. c \in {"none", "closed"} /\ (c = "none" => b.chan = "none")
    BY <1>b DEF ViewType
  <2> HIDE DEF c
  <2>3. Moves(b, x) /\ Unaware(b, x) /\ x.requested = b.requested /\ x.sock # "connecting"
    BY <1>a, <1>b, <2>2, ChannelView
  <2> HIDE DEF x
  <2>4. Moves(b, b') /\ Unaware(b, b') /\ UpMoves
    BY <2>1, <2>3, FallbackStep, Zenon
  <2> QED
    BY <1>a, <1>b, <2>4, QuietStep, Zenon
<1> QED
  BY <1>1, <1>2

-----------------------------------------------------------------------------
(* The steps of the server and of the agent leave the view alone.          *)

\* They take frames from the browser, and the device streams only when it may.
Elsewhere ==
  /\ UNCHANGED b
  /\ up' \in Seq(Ups) /\ In(up') \subseteq In(up) /\ After(up', "fallback", UpStream)
  /\ toAgent' \in Seq(Orders) /\ fromAgent' \in Seq(Replies) /\ chq' \in Nat
  /\ Ready' => Ready

\* A frame may be written behind the others.
Writes ==
  /\ down' \in Seq(Downs) /\ After(down', "relay", DownStream)
  /\ b.rfb = "relay" => In(down') \subseteq DownStream

RowType ==
  [state : {"none", "active", "failed", "closed"}, transport : {"negotiating", "direct", "relay"}]

Told(t, r) == t = "relay" \/ (t = "direct" /\ r = "direct")

\* Any such step that keeps what is recorded ahead of what the browser is told.
LEMMA ServerStep ==
  ASSUME IInv, Elsewhere, Writes,
         handler' \in {"start", "read", "record", "wait"} \cup Late, row' \in RowType,
         transport' \in {"negotiating", "direct", "relay"}, endState' \in {"failed", "closed"},
         router' \in Replies \cup {"idle"},
         handler \in Late => handler' \in Late, transport = "relay" => transport' = "relay",
         transport' = "relay" => In(up') \subseteq UpStream /\ b.requested /\ router' = "idle",
         handler' \in {"record", "wait", "relay"} => transport' = "relay",
         handler' \in {"start", "read"} => transport' # "relay",
         transport' = "relay" /\ handler' # "record" => row'.transport = "relay",
         router' = "ok" => transport' = "direct",
         "ok" \in In(down) \/ b.acked => Told(transport', row'.transport),
         "relay" \in In(down') => "relay" \in In(down) \/ (handler' \in Late /\ transport' = "relay"),
         "ok" \in In(down') => "ok" \in In(down) \/ Told(transport', row'.transport)
  PROVE  IInv'
<1>1. TInv'
  <2>1. b \in ViewType
    BY Current
  <2> QED
    BY <2>1, Zenon DEF TInv, Elsewhere, Writes, RowType
<1>2. ViewInv(b)'
  BY Current DEF Elsewhere, ViewInv
<1>3. UpInv'
  <2>1. /\ "fallback" \in In(up') => b'.requested
        /\ "rfb" \in In(up') => handler' \in Late
        /\ transport' = "relay" => b'.requested
    BY Zenon DEF IInv, UpInv, Elsewhere
  <2>2. After(up', "fallback", UpStream)
    BY DEF Elsewhere
  <2> QED
    BY <2>1, <2>2, Primes, Zenon DEF UpInv, Late, UpStream
<1>4. DownInv'
  <2>1. b'.rfb = "relay" => In(down') \subseteq DownStream
    BY DEF Elsewhere, Writes
  <2>2. b'.rfb = "relay" \/ "relay" \in In(down') => handler' \in Late /\ transport' = "relay"
    BY Zenon DEF IInv, DownInv, Elsewhere
  <2>3. After(down', "relay", DownStream)
    BY DEF Writes
  <2> QED
    BY <2>1, <2>2, <2>3, Primes, Zenon DEF DownInv, Late, DownStream
<1>5. PathInv'
  <2>1. "ok" \in In(down') \/ b'.acked => Told(transport', row'.transport)
    BY Zenon DEF Elsewhere
  <2> QED
    BY <2>1, Primes, Zenon DEF PathInv, Told
<1>6. ReadyInv'
  BY Zenon DEF IInv, Elsewhere, ReadyInv
<1> QED
  BY <1>1, <1>2, <1>3, <1>4, <1>5, <1>6, Zenon DEF IInv

\* What holds of the server before a step.
LEMMA Before ==
  ASSUME IInv
  PROVE  /\ handler \in {"start", "read", "record", "wait"} \cup Late /\ row \in RowType
         /\ transport \in {"negotiating", "direct", "relay"} /\ endState \in {"failed", "closed"}
         /\ router \in Replies \cup {"idle"}
         /\ transport = "relay" => In(up) \subseteq UpStream /\ b.requested /\ router = "idle"
         /\ handler \in {"record", "wait", "relay"} => transport = "relay"
         /\ handler \in {"start", "read"} => transport # "relay"
         /\ transport = "relay" /\ handler # "record" => row.transport = "relay"
         /\ router = "ok" => transport = "direct"
         /\ "ok" \in In(down) \/ b.acked => Told(transport, row.transport)
         /\ b.rfb = "relay" \/ "relay" \in In(down) => handler \in Late /\ transport = "relay"
<1>1. /\ handler \in {"start", "read", "record", "wait"} \cup Late /\ row \in RowType
      /\ transport \in {"negotiating", "direct", "relay"} /\ endState \in {"failed", "closed"}
      /\ router \in Replies \cup {"idle"}
  BY Zenon DEF IInv, TInv, RowType
<1>2. transport = "relay" => In(up) \subseteq UpStream /\ b.requested /\ router = "idle"
  BY Zenon DEF IInv, UpInv
<1>3. b.rfb = "relay" \/ "relay" \in In(down) => handler \in Late /\ transport = "relay"
  BY Zenon DEF IInv, DownInv
<1>4. /\ handler \in {"record", "wait", "relay"} => transport = "relay"
      /\ handler \in {"start", "read"} => transport # "relay"
      /\ transport = "relay" /\ handler # "record" => row.transport = "relay"
      /\ router = "ok" => transport = "direct"
      /\ "ok" \in In(down) \/ b.acked => Told(transport, row.transport)
  BY Zenon DEF IInv, PathInv, Told
<1> QED
  BY <1>1, <1>2, <1>3, <1>4, Zenon

\* A step that leaves the recorded path alone; the handler may begin or end.
Ends == {"unlist", "close", "gone"}
LEMMA SteadyStep ==
  ASSUME IInv, Elsewhere, Writes, UNCHANGED transport, UNCHANGED router,
         row' \in RowType, row'.transport = row.transport, endState' \in {"failed", "closed"},
         \/ handler' = handler
         \/ handler = "start" /\ handler' = "read"
         \/ handler # "record" /\ handler' \in Ends,
         \A k \in In(down') : k \in In(down) \/ k \in {"serr", "rfb", "close"}
  PROVE  IInv'
<1>1. /\ handler' \in {"start", "read", "record", "wait"} \cup Late
      /\ handler \in Late => handler' \in Late
      /\ handler' \in {"record", "wait", "relay"} => transport' = "relay"
      /\ handler' \in {"start", "read"} => transport' # "relay"
      /\ transport' = "relay" /\ handler' # "record" => handler # "record"
  BY Before DEF Late, Ends
<1>2. /\ transport' = "relay" /\ handler' # "record" => row'.transport = "relay"
      /\ transport' = "relay" => In(up') \subseteq UpStream /\ b.requested /\ router' = "idle"
      /\ "ok" \in In(down) \/ b.acked => Told(transport', row'.transport)
      /\ router' = "ok" => transport' = "direct"
      /\ transport' \in {"negotiating", "direct", "relay"} /\ router' \in Replies \cup {"idle"}
  BY <1>1, Before, Zenon DEF Elsewhere
<1>3. ("relay" \in In(down') => "relay" \in In(down)) /\ ("ok" \in In(down') => "ok" \in In(down))
  OBVIOUS
<1> QED
  BY <1>1, <1>2, <1>3, ServerStep, Zenon

-----------------------------------------------------------------------------
(* The queues in the steps of the server.                                  *)

\* Nothing is written to the browser.
LEMMA WritesNone == ASSUME IInv, UNCHANGED down PROVE Writes
BY Zenon DEF IInv, TInv, DownInv, Writes

\* Something is.
LEMMA WritesOne ==
  ASSUME IInv, NEW m \in Downs, ToBrowser(m),
         m \in DownStream \/ (b.rfb # "relay" /\ "relay" \notin In(down))
  PROVE  Writes /\ \A k \in In(down') : k \in In(down) \/ k = m
<1>1. down' = down \/ down' = Append(down, m)
  BY DEF ToBrowser
<1>2. CASE down' = down
  BY <1>2, WritesNone, Zenon
<1>3. CASE down' = Append(down, m)
  <2>1. down \in Seq(Downs) /\ After(down, "relay", DownStream)
    BY Current
  <2>2. b.rfb = "relay" => In(down) \subseteq DownStream
    BY Zenon DEF IInv, DownInv
  <2>3. /\ Append(down, m) \in Seq(Downs) /\ After(Append(down, m), "relay", DownStream)
        /\ \A k : k \in In(Append(down, m)) <=> k \in In(down) \/ k = m
    BY <2>1, InAppend, Zenon
  <2>4. /\ down' \in Seq(Downs) /\ After(down', "relay", DownStream)
        /\ \A k : k \in In(down') <=> k \in In(down) \/ k = m
    BY <1>3, <2>3, Zenon
  <2> QED
    BY <2>2, <2>4, Zenon DEF Writes
<1> QED
  BY <1>1, <1>2, <1>3

\* The frames of the browser after a step: as they were, one less, or none.
TakesUp == /\ up' \in Seq(Ups) /\ In(up') \subseteq In(up) /\ After(up', "fallback", UpStream)
LEMMA UpTaken ==
  ASSUME IInv, up' = up \/ up' = <<>> \/ (up # <<>> /\ up' = Tail(up))
  PROVE  TakesUp
<1>1. up \in Seq(Ups) /\ After(up, "fallback", UpStream)
  BY Current
<1>2. CASE up' = up
  BY <1>1, <1>2, Zenon DEF TakesUp
<1>3. CASE up' = <<>>
  BY <1>3, InNone DEF TakesUp
<1>4. CASE up # <<>> /\ up' = Tail(up)
  BY <1>1, <1>4, InTail DEF TakesUp
<1> QED
  BY <1>2, <1>3, <1>4

\* A queue of one message.
LEMMA InOne == \A m : In(<<m>>) = {m}
BY DEF In

\* The messages for the agent after a step of the server.
LEMMA OrdersGrow ==
  ASSUME IInv, NEW ms \in Seq(Orders), toAgent' = Delivered(toAgent, ms)
  PROVE  toAgent' \in Seq(Orders) /\ \A k \in In(toAgent') : k \in In(toAgent) \/ k \in In(ms)
<1>1. toAgent \in Seq(Orders)
  BY DEF IInv, TInv
<1>2. toAgent' = toAgent \/ toAgent' = toAgent \o ms
  BY DEF Delivered
<1>3. /\ toAgent \o ms \in Seq(Orders)
      /\ \A k \in In(toAgent \o ms) : k \in In(toAgent) \/ k \in In(ms)
  BY <1>1, InJoined
<1> QED
  BY <1>1, <1>2, <1>3, Zenon

\* The device may stream no sooner than it might.
LEMMA ServerElsewhere ==
  ASSUME IInv, UNCHANGED b, UNCHANGED bridge, UNCHANGED chq, TakesUp, fromAgent' \in Seq(Replies),
         toAgent' \in Seq(Orders),
         "ready" \in In(toAgent') => "ready" \in In(toAgent) \/ "ready" \in In(up)
  PROVE  Elsewhere
<1>1. chq' \in Nat
  BY Current
<1>2. Ready' <=> "ready" \in In(up') \/ "ready" \in In(toAgent') \/ bridge # "none" \/ chq > 0
  BY Primes DEF Ready
<1>3. Ready' => Ready
  BY <1>2, Zenon DEF Ready, TakesUp
<1> QED
  BY <1>1, <1>3, Zenon DEF Elsewhere, TakesUp

\* A step of the server that sends the agent nothing new.
LEMMA ServerQuiet ==
  ASSUME IInv, UNCHANGED b, UNCHANGED agent, UNCHANGED toAgent, UNCHANGED fromAgent,
         up' = up \/ up' = <<>> \/ (up # <<>> /\ up' = Tail(up))
  PROVE  Elsewhere
<1>1. UNCHANGED bridge /\ UNCHANGED chq
  BY DEF agent, direct
<1>2. fromAgent \in Seq(Replies) /\ toAgent \in Seq(Orders)
  BY DEF IInv, TInv
<1> QED
  BY <1>1, <1>2, UpTaken, ServerElsewhere, Zenon

-----------------------------------------------------------------------------
(* The actions of the server.                                              *)

\* The row of the session, ended or begun, keeps its path.
LEMMA RowState ==
  ASSUME IInv, NEW s \in {"none", "active", "failed", "closed"}
  PROVE  /\ [row EXCEPT !.state = s] \in RowType
         /\ [row EXCEPT !.state = s].transport = row.transport
BY Before DEF RowType

\* ... and its path, recorded, is the one that was given.
LEMMA RowPath ==
  ASSUME IInv, NEW t \in {"negotiating", "direct", "relay"}
  PROVE  [row EXCEPT !.transport = t] \in RowType /\ [row EXCEPT !.transport = t].transport = t
BY Before DEF RowType

\* The handler begins, and reads frames of the signalling.
LEMMA Begins == ASSUME IInv, StartScreen PROVE IInv'
<1>1. /\ handler = "start" /\ handler' = "read" /\ row' = [row EXCEPT !.state = "active"]
      /\ UNCHANGED b /\ UNCHANGED up /\ UNCHANGED down /\ UNCHANGED agent /\ UNCHANGED toAgent
      /\ UNCHANGED fromAgent /\ UNCHANGED transport /\ UNCHANGED router /\ UNCHANGED endState
  BY DEF StartScreen, browser
<1>2. row' \in RowType /\ row'.transport = row.transport /\ endState' \in {"failed", "closed"}
  BY <1>1, RowState, Before
<1>3. Elsewhere /\ Writes
  BY <1>1, ServerQuiet, WritesNone, Zenon
<1> QED
  BY <1>1, <1>2, <1>3, SteadyStep, Zenon

LEMMA Signals == ASSUME IInv, HandleSignal PROVE IInv'
<1>1. /\ UNCHANGED b /\ UNCHANGED down /\ UNCHANGED fromAgent /\ UNCHANGED transport
      /\ UNCHANGED router /\ UNCHANGED row /\ UNCHANGED bridge /\ UNCHANGED chq
  BY DEF HandleSignal, session, agent, direct
<1>2. /\ up # <<>> /\ up' = Tail(up) /\ Head(up) \in {"offer", "ice", "ready"} /\ handler = "read"
  BY DEF HandleSignal, ReadFrame
<1>3. /\ handler' = handler \/ handler' = "unlist"
      /\ endState' = endState \/ endState' = "failed"
      /\ toAgent' = toAgent \/ toAgent' = Delivered(toAgent, <<Head(up)>>)
  BY DEF HandleSignal, Fail, ToAgent
<1>4. Head(up) \in In(up) /\ <<Head(up)>> \in Seq(Orders) /\ In(<<Head(up)>>) = {Head(up)}
  <2>1. Head(up) \in In(up)
    BY <1>2, Current, InTail
  <2> QED
    BY <1>2, <2>1, InOne DEF Orders
<1>5. toAgent' \in Seq(Orders) /\ \A k \in In(toAgent') : k \in In(toAgent) \/ k = Head(up)
  <2>1. CASE toAgent' = toAgent
    BY <2>1 DEF IInv, TInv
  <2>2. CASE toAgent' = Delivered(toAgent, <<Head(up)>>)
    <3>1. toAgent' \in Seq(Orders)
          /\ \A k \in In(toAgent') : k \in In(toAgent) \/ k \in In(<<Head(up)>>)
      BY <1>4, <2>2, OrdersGrow
    <3> QED
      BY <1>4, <3>1
  <2> QED
    BY <1>3, <2>1, <2>2
<1>6. fromAgent' \in Seq(Replies) /\ TakesUp /\ Writes
  BY <1>1, <1>2, UpTaken, WritesNone DEF IInv, TInv
<1>7. Elsewhere
  BY <1>1, <1>4, <1>5, <1>6, ServerElsewhere, Zenon
<1>8. /\ row' \in RowType /\ row'.transport = row.transport /\ endState' \in {"failed", "closed"}
      /\ handler' = handler \/ (handler # "record" /\ handler' \in Ends)
  BY <1>1, <1>2, <1>3, Before DEF Ends
<1> QED
  BY <1>1, <1>6, <1>7, <1>8, SteadyStep, Zenon

\* The fallback is handled once: the session did not relay, and behind the request
\* there is only the stream.
LEMMA FallsBack == ASSUME IInv, HandleFallback PROVE IInv'
<1>1. /\ UNCHANGED b /\ UNCHANGED down /\ UNCHANGED fromAgent /\ UNCHANGED toAgent
      /\ UNCHANGED router /\ UNCHANGED row /\ UNCHANGED agent /\ UNCHANGED endState
  BY DEF HandleFallback
<1>2. /\ up # <<>> /\ up' = Tail(up) /\ Head(up) = "fallback" /\ handler = "read"
      /\ router = "idle" /\ transport' = "relay"
      /\ handler' = IF transport = "relay" THEN "read" ELSE "record"
  BY DEF HandleFallback, ReadFrame, Locked
<1>3. handler' = "record"
  BY <1>2, Before
<1>4. /\ In(up') \subseteq UpStream /\ Head(up) \in In(up)
  BY <1>2, Current, InTail
<1>5. b.requested
  BY <1>2, <1>4, Current
<1>6. Elsewhere /\ Writes
  BY <1>1, <1>2, ServerQuiet, WritesNone, Zenon
<1>7. /\ handler' \in {"start", "read", "record", "wait"} \cup Late
      /\ handler \in Late => handler' \in Late
      /\ transport' \in {"negotiating", "direct", "relay"}
      /\ handler' \notin {"start", "read"}
  BY <1>2, <1>3 DEF Late
<1>8. /\ row' \in RowType /\ endState' \in {"failed", "closed"} /\ router' \in Replies \cup {"idle"}
      /\ router' # "ok" /\ Told(transport', row'.transport)
      /\ "relay" \in In(down') => "relay" \in In(down)
  BY <1>1, <1>2, Before DEF Told
<1> QED
  BY <1>1, <1>2, <1>3, <1>4, <1>5, <1>6, <1>7, <1>8, ServerStep, Zenon

\* The relay is recorded.
LEMMA Records == ASSUME IInv, RecordRelay PROVE IInv'
<1>1. /\ UNCHANGED b /\ UNCHANGED up /\ UNCHANGED down /\ UNCHANGED fromAgent
      /\ UNCHANGED router /\ UNCHANGED transport /\ UNCHANGED bridge /\ UNCHANGED chq
  BY DEF RecordRelay, session, agent, direct, browser
<1>2. /\ handler = "record" /\ row' = [row EXCEPT !.transport = "relay"]
      /\ handler' = "wait" \/ handler' = "unlist"
      /\ endState' = endState \/ endState' = "failed"
      /\ toAgent' = toAgent \/ toAgent' = Delivered(toAgent, <<"relay", "sstart">>)
  BY DEF RecordRelay, Fail
<1>3. /\ row' \in RowType /\ row'.transport = "relay" /\ transport = "relay"
      /\ endState' \in {"failed", "closed"}
  BY <1>2, RowPath, Before
<1>4. <<"relay", "sstart">> \in Seq(Orders) /\ "ready" \notin In(<<"relay", "sstart">>)
  BY DEF Orders, In
<1>5. toAgent' \in Seq(Orders) /\ ("ready" \in In(toAgent') => "ready" \in In(toAgent))
  <2>1. CASE toAgent' = toAgent
    BY <2>1 DEF IInv, TInv
  <2>2. CASE toAgent' = Delivered(toAgent, <<"relay", "sstart">>)
    BY <1>4, <2>2, OrdersGrow, Zenon
  <2> QED
    BY <1>2, <2>1, <2>2
<1>6. fromAgent' \in Seq(Replies) /\ TakesUp /\ Writes
  BY <1>1, UpTaken, WritesNone DEF IInv, TInv
<1>7. Elsewhere
  BY <1>1, <1>5, <1>6, ServerElsewhere, Zenon
<1>8. /\ handler' \in {"start", "read", "record", "wait"} \cup Late
      /\ handler \notin Late /\ handler' \notin {"start", "read"}
  BY <1>2 DEF Late
<1>9. /\ transport' = "relay" /\ In(up') \subseteq UpStream /\ b.requested /\ router' = "idle"
      /\ router' \in Replies \cup {"idle"} /\ Told(transport', row'.transport)
      /\ router' # "ok" /\ transport' \in {"negotiating", "direct", "relay"}
      /\ "relay" \in In(down') => "relay" \in In(down)
  BY <1>1, <1>3, Before DEF Told
<1> QED
  BY <1>3, <1>6, <1>7, <1>8, <1>9, ServerStep, Zenon

\* The browser is told of the link, for the first time.
LEMMA Relays == ASSUME IInv, LinkReady PROVE IInv'
<1>1. /\ UNCHANGED b /\ UNCHANGED up /\ UNCHANGED fromAgent /\ UNCHANGED toAgent /\ UNCHANGED endState
      /\ UNCHANGED router /\ UNCHANGED transport /\ UNCHANGED row /\ UNCHANGED agent
  BY DEF LinkReady, session, browser
<1>2. handler = "wait" /\ handler' = "relay" /\ ToBrowser("relay")
  BY DEF LinkReady
<1>3. /\ transport = "relay" /\ row.transport = "relay" /\ handler \notin Late
      /\ b.rfb # "relay" /\ "relay" \notin In(down)
  BY <1>2, Before DEF Late
<1>4. "relay" \in Downs
  BY DEF Downs
<1>5. Writes /\ \A k \in In(down') : k \in In(down) \/ k = "relay"
  BY <1>2, <1>3, <1>4, WritesOne, Zenon
<1>6. Elsewhere
  BY <1>1, ServerQuiet, Zenon
<1>7. /\ handler' \in Late /\ handler' \in {"start", "read", "record", "wait"} \cup Late
      /\ handler' \notin {"start", "read"}
  BY <1>2 DEF Late
<1>8. /\ transport' = "relay" /\ In(up') \subseteq UpStream /\ b.requested /\ router' = "idle"
      /\ row' \in RowType /\ row'.transport = "relay" /\ endState' \in {"failed", "closed"}
      /\ router' \in Replies \cup {"idle"} /\ Told(transport', row'.transport)
      /\ router' # "ok" /\ transport' \in {"negotiating", "direct", "relay"}
  BY <1>1, <1>3, Before DEF Told
<1> QED
  BY <1>5, <1>6, <1>7, <1>8, ServerStep, Zenon

\* No link came: the browser is told, with nothing of the stream before it.
LEMMA TimesOut == ASSUME IInv, LinkTimeout PROVE IInv'
<1>1. /\ UNCHANGED b /\ UNCHANGED up /\ UNCHANGED fromAgent /\ UNCHANGED toAgent
      /\ UNCHANGED router /\ UNCHANGED transport /\ UNCHANGED row /\ UNCHANGED agent
  BY DEF LinkTimeout, session, browser
<1>2. handler = "wait" /\ handler' = "unlist" /\ ToBrowser("serr") /\ endState' = "failed"
  BY DEF LinkTimeout
<1>3. b.rfb # "relay" /\ "relay" \notin In(down) /\ "serr" \in Downs
  BY <1>2, Before DEF Late, Downs
<1>4. Writes /\ \A k \in In(down') : k \in In(down) \/ k = "serr"
  BY <1>2, <1>3, WritesOne, Zenon
<1>5. Elsewhere
  BY <1>1, ServerQuiet, Zenon
<1>6. /\ handler # "record" /\ handler' \in Ends /\ endState' \in {"failed", "closed"}
      /\ \A k \in In(down') : k \in In(down) \/ k \in {"serr", "rfb", "close"}
      /\ row' \in RowType /\ row'.transport = row.transport
  BY <1>1, <1>2, <1>4, Before DEF Ends
<1> QED
  BY <1>1, <1>4, <1>5, <1>6, SteadyStep, Zenon

\* relayScreen copies frames.
LEMMA Copies == ASSUME IInv, CopyUp \/ CopyDown PROVE IInv'
<1>1. /\ UNCHANGED b /\ UNCHANGED fromAgent /\ UNCHANGED toAgent /\ UNCHANGED agent
      /\ UNCHANGED handler /\ UNCHANGED endState /\ UNCHANGED transport /\ UNCHANGED router
      /\ UNCHANGED row
  BY Zenon DEF CopyUp, CopyDown, server, session, browser
<1>2. \/ up # <<>> /\ up' = Tail(up) /\ UNCHANGED down
      \/ up' = up /\ ToBrowser("rfb")
  BY Zenon DEF CopyUp, CopyDown, browser
<1>3. "rfb" \in Downs /\ "rfb" \in DownStream
  BY DEF Downs, DownStream
<1>4. Writes /\ \A k \in In(down') : k \in In(down) \/ k \in {"serr", "rfb", "close"}
  <2>1. CASE UNCHANGED down
    BY <2>1, WritesNone, Zenon
  <2>2. CASE ToBrowser("rfb")
    BY <1>3, <2>2, WritesOne
  <2> QED
    BY <1>2, <2>1, <2>2
<1>5. Elsewhere
  BY <1>1, <1>2, ServerQuiet, Zenon
<1>6. row' \in RowType /\ row'.transport = row.transport /\ endState' \in {"failed", "closed"}
  BY <1>1, Before
<1> QED
  BY <1>1, <1>4, <1>5, <1>6, SteadyStep, Zenon

\* The server's end of the socket is closed.
LEMMA ClosesBrowser ==
  ASSUME IInv, CloseBrowser
  PROVE  Writes /\ up' = <<>>
         /\ \A k \in In(down') : k \in In(down) \/ k \in {"serr", "rfb", "close"}
<1>1. ToBrowser("close") /\ up' = <<>> /\ "close" \in Downs /\ "close" \in DownStream
  BY DEF CloseBrowser, Downs, DownStream
<1>2. Writes /\ \A k \in In(down') : k \in In(down) \/ k = "close"
  BY <1>1, WritesOne, Zenon
<1> QED
  BY <1>1, <1>2

\* The handler ends.
LEMMA HandlerEnds == ASSUME IInv, RelayEnds \/ HandlerReadError \/ EndHandler PROVE IInv'
<1>1. /\ UNCHANGED b /\ UNCHANGED fromAgent /\ UNCHANGED toAgent /\ UNCHANGED agent
      /\ UNCHANGED endState /\ UNCHANGED transport /\ UNCHANGED router
  BY Zenon DEF RelayEnds, HandlerReadError, EndHandler, session, browser
<1>2. handler # "record" /\ handler' \in Ends
  BY DEF RelayEnds, HandlerReadError, EndHandler, Ends
<1>3. \/ CloseBrowser
      \/ UNCHANGED up /\ UNCHANGED down
  BY Zenon DEF RelayEnds, HandlerReadError, EndHandler, browser
<1>4. /\ Writes
      /\ up' = up \/ up' = <<>>
      /\ \A k \in In(down') : k \in In(down) \/ k \in {"serr", "rfb", "close"}
  <2>1. CASE UNCHANGED up /\ UNCHANGED down
    BY <2>1, WritesNone, Zenon
  <2>2. CASE CloseBrowser
    BY <2>2, ClosesBrowser, Zenon
  <2> QED
    BY <1>3, <2>1, <2>2
<1>5. row' = row \/ row' = [row EXCEPT !.state = endState]
  BY Zenon DEF RelayEnds, HandlerReadError, EndHandler
<1>6. row' \in RowType /\ row'.transport = row.transport /\ endState' \in {"failed", "closed"}
  BY <1>1, <1>5, Before, RowState
<1>7. Elsewhere
  BY <1>1, <1>4, ServerQuiet, Zenon
<1> QED
  BY <1>1, <1>2, <1>4, <1>6, <1>7, SteadyStep, Zenon

\* The session is unlisted and the agent told to stop.
LEMMA Unlists == ASSUME IInv, Unlist PROVE IInv'
<1>1. /\ UNCHANGED b /\ UNCHANGED up /\ UNCHANGED down /\ UNCHANGED fromAgent /\ UNCHANGED bridge
      /\ UNCHANGED chq /\ UNCHANGED endState /\ UNCHANGED transport /\ UNCHANGED router
      /\ UNCHANGED row
  BY DEF Unlist, browser, agent, direct
<1>2. handler # "record" /\ handler' \in Ends /\ toAgent' = Delivered(toAgent, <<"rtcstop">>)
  BY DEF Unlist, Ends, ToAgent
<1>3. <<"rtcstop">> \in Seq(Orders) /\ "ready" \notin In(<<"rtcstop">>)
  BY InOne DEF Orders
<1>4. toAgent' \in Seq(Orders) /\ ("ready" \in In(toAgent') => "ready" \in In(toAgent))
  BY <1>2, <1>3, OrdersGrow, Zenon
<1>5. fromAgent' \in Seq(Replies) /\ TakesUp /\ Writes
  BY <1>1, UpTaken, WritesNone DEF IInv, TInv
<1>6. Elsewhere
  BY <1>1, <1>4, <1>5, ServerElsewhere, Zenon
<1>7. row' \in RowType /\ row'.transport = row.transport /\ endState' \in {"failed", "closed"}
  BY <1>1, Before
<1> QED
  BY <1>1, <1>2, <1>5, <1>6, <1>7, SteadyStep, Zenon

\* closeAgentScreens.
LEMMA NoticesBreak == ASSUME IInv, ServerNotices PROVE IInv'
<1>1. /\ UNCHANGED b /\ UNCHANGED handler /\ UNCHANGED toAgent /\ UNCHANGED bridge
      /\ UNCHANGED chq /\ UNCHANGED endState /\ UNCHANGED transport /\ UNCHANGED router
      /\ UNCHANGED row /\ fromAgent' = <<>>
  BY DEF ServerNotices, agent, direct
<1>2. CloseBrowser \/ (UNCHANGED up /\ UNCHANGED down)
  BY Zenon DEF ServerNotices
<1>3. /\ Writes
      /\ up' = up \/ up' = <<>>
      /\ \A k \in In(down') : k \in In(down) \/ k \in {"serr", "rfb", "close"}
  <2>1. CASE UNCHANGED up /\ UNCHANGED down
    BY <2>1, WritesNone, Zenon
  <2>2. CASE CloseBrowser
    BY <2>2, ClosesBrowser, Zenon
  <2> QED
    BY <1>2, <2>1, <2>2
<1>4. fromAgent' \in Seq(Replies) /\ TakesUp /\ toAgent' \in Seq(Orders)
  BY <1>1, <1>3, UpTaken, InNone DEF IInv, TInv
<1>5. Elsewhere
  BY <1>1, <1>4, ServerElsewhere, Zenon
<1>6. row' \in RowType /\ row'.transport = row.transport /\ endState' \in {"failed", "closed"}
  BY <1>1, Before
<1> QED
  BY <1>1, <1>3, <1>5, <1>6, SteadyStep, Zenon

\* routeBrowserRTC takes a message of the agent ...
LEMMA Routes == ASSUME IInv, RouteRTC PROVE IInv'
<1>1. /\ UNCHANGED b /\ UNCHANGED up /\ UNCHANGED down /\ UNCHANGED handler /\ UNCHANGED toAgent
      /\ UNCHANGED bridge /\ UNCHANGED chq /\ UNCHANGED endState /\ UNCHANGED row
      /\ fromAgent # <<>> /\ fromAgent' = Tail(fromAgent)
  BY DEF RouteRTC, browser, agent, direct
<1>2. fromAgent' \in Seq(Replies) /\ Head(fromAgent) \in Replies /\ toAgent' \in Seq(Orders)
  BY <1>1, InTail DEF IInv, TInv
<1>3. TakesUp /\ Writes
  BY <1>1, UpTaken, WritesNone
<1>4. Elsewhere
  BY <1>1, <1>2, <1>3, ServerElsewhere, Zenon
<1>5. row' \in RowType /\ row'.transport = row.transport /\ endState' \in {"failed", "closed"}
  BY <1>1, Before
<1>6. CASE UNCHANGED transport /\ UNCHANGED router
  BY <1>1, <1>3, <1>4, <1>5, <1>6, SteadyStep, Zenon
<1>7. CASE /\ transport # "relay" /\ router' = Head(fromAgent)
           /\ transport' = IF Head(fromAgent) = "ok" THEN "direct" ELSE transport
  <2>1. /\ transport' # "relay" /\ transport' \in {"negotiating", "direct", "relay"}
        /\ router' = "ok" => transport' = "direct" /\ router' \in Replies \cup {"idle"}
        /\ transport = "direct" => transport' = "direct"
    BY <1>2, <1>7, Before
  <2>2. router' \in Replies \cup {"idle"}
    BY <1>2, <1>7
  <2>3. "ok" \in In(down) \/ b.acked => Told(transport', row'.transport)
    BY <1>1, <1>7, <2>1, Before, Zenon DEF Told
  <2>4. /\ handler' \in {"start", "read", "record", "wait"} \cup Late
        /\ handler' \notin {"record", "wait", "relay"}
        /\ handler \in Late => handler' \in Late
        /\ In(down') = In(down)
    BY <1>1, <1>7, Before
  <2> QED
    BY <1>3, <1>4, <1>5, <1>7, <2>1, <2>2, <2>3, <2>4, ServerStep, Zenon
<1> QED
  BY <1>6, <1>7, Zenon DEF RouteRTC

\* ... and writes it to the browser, which the session does not relay to.
LEMMA WritesReply == ASSUME IInv, WriteRTC PROVE IInv'
<1>1. /\ UNCHANGED b /\ UNCHANGED up /\ UNCHANGED handler /\ UNCHANGED toAgent
      /\ UNCHANGED fromAgent /\ UNCHANGED agent /\ UNCHANGED endState /\ UNCHANGED transport
  BY DEF WriteRTC, browser, session
<1>2. /\ router # "idle" /\ router' = "idle" /\ ToBrowser(router)
      /\ row' = [row EXCEPT !.transport = IF router = "ok" THEN "direct" ELSE @]
  BY DEF WriteRTC, Locked
<1>3. /\ transport # "relay" /\ b.rfb # "relay" /\ "relay" \notin In(down)
      /\ router \in Replies /\ router \in Downs /\ router # "relay"
  BY <1>2, Before DEF Downs, Replies
<1>4. Writes /\ \A k \in In(down') : k \in In(down) \/ k = router
  BY <1>2, <1>3, WritesOne, Zenon
<1>5. Elsewhere
  BY <1>1, ServerQuiet, Zenon
<1> DEFINE t == IF router = "ok" THEN "direct" ELSE row.transport
<1>6. t \in {"negotiating", "direct", "relay"} /\ row' = [row EXCEPT !.transport = t]
  BY <1>2, Before DEF RowType
<1> HIDE DEF t
<1>7. row' \in RowType /\ row'.transport = t
  BY <1>6, RowPath
<1>8. /\ "ok" \in In(down) \/ b.acked => Told(transport', row'.transport)
      /\ "ok" \in In(down') => "ok" \in In(down) \/ Told(transport', row'.transport)
      /\ "relay" \in In(down') => "relay" \in In(down)
  <2>1. "ok" \in In(down) \/ b.acked \/ router = "ok" => transport' = "direct" /\ t = "direct"
    BY <1>1, <1>3, Before DEF Told, t
  <2> QED
    BY <1>3, <1>4, <1>7, <2>1, Zenon DEF Told
<1>9. /\ handler' \in {"start", "read", "record", "wait"} \cup Late
      /\ handler' \notin {"record", "wait", "relay"}
      /\ transport' \in {"negotiating", "direct", "relay"} /\ transport' # "relay"
      /\ router' \in Replies \cup {"idle"} /\ router' # "ok" /\ endState' \in {"failed", "closed"}
      /\ handler \in Late => handler' \in Late
  BY <1>1, <1>2, <1>3, Before
<1> QED
  BY <1>3, <1>4, <1>5, <1>7, <1>8, <1>9, ServerStep, Zenon

-----------------------------------------------------------------------------
(* The steps of the agent, of the link and of the device connection.       *)

steady == <<b, up, down, handler, endState, transport, row, router>>

\* The device streams only after rtc:ready.
LEMMA AgentStep ==
  ASSUME IInv, UNCHANGED steady,
         toAgent' \in Seq(Orders), In(toAgent') \subseteq In(toAgent), fromAgent' \in Seq(Replies),
         chq' \in Nat, bridge' # "none" => bridge # "none" \/ "ready" \in In(toAgent),
         chq' > 0 => chq > 0 \/ bridge # "none"
  PROVE  IInv'
<1>1. /\ UNCHANGED b /\ UNCHANGED up /\ UNCHANGED down /\ UNCHANGED handler /\ UNCHANGED endState
      /\ UNCHANGED transport /\ UNCHANGED row /\ UNCHANGED router
  BY DEF steady
<1>2. Ready' <=> "ready" \in In(up') \/ "ready" \in In(toAgent') \/ bridge' # "none" \/ chq' > 0
  BY Primes DEF Ready
<1>3. Ready' => Ready
  BY <1>1, <1>2, Zenon DEF Ready
<1>4. TakesUp /\ Writes
  BY <1>1, UpTaken, WritesNone, Zenon
<1>5. Elsewhere
  BY <1>1, <1>3, <1>4, Zenon DEF Elsewhere, TakesUp
<1>6. row' \in RowType /\ row'.transport = row.transport /\ endState' \in {"failed", "closed"}
  BY <1>1, Before
<1> QED
  BY <1>1, <1>4, <1>5, <1>6, SteadyStep, Zenon

\* A step that leaves the control messages and the stream alone.
LEMMA AsideStep ==
  ASSUME IInv, UNCHANGED <<steady, toAgent, bridge, chq>>, fromAgent' \in Seq(Replies)
  PROVE  IInv'
<1>1. toAgent \in Seq(Orders) /\ chq \in Nat
  BY DEF IInv, TInv
<1>2. UNCHANGED steady /\ UNCHANGED toAgent /\ UNCHANGED bridge /\ UNCHANGED chq
  BY Zenon
<1> QED
  BY <1>1, <1>2, AgentStep, Zenon

\* Steps nobody hears of.
Silent ==
  \/ LinkLook \/ LinkEnd \/ CleanupSessions \/ BufferCandidate \/ LinkDial \/ LinkDialFails
  \/ VncDial \/ VncDialFails \/ LinkFrame \/ BridgeEnds \/ OfferDial \/ OfferMake
  \/ OfferDescribe \/ AgentChannelOpens \/ AgentChannelCloses

Same == UNCHANGED <<steady, toAgent, bridge, chq>> /\ UNCHANGED fromAgent

LEMMA SilentSame == ASSUME Silent PROVE Same
<1>1. CASE LinkLook \/ LinkEnd
  <2>1. UNCHANGED notLink
    BY <1>1, Zenon DEF LinkLook, LinkEnd
  <2> QED
    BY <2>1 DEF Same, notLink, steady, browser, server, session, agent, direct
<1>2. CASE CleanupSessions
  BY <1>2 DEF Same, CleanupSessions, steady, browser, server, session
<1>3. CASE BufferCandidate
  BY <1>3 DEF Same, BufferCandidate, notAgent, steady, browser, server, session
<1>4. CASE \/ LinkDial \/ LinkDialFails \/ VncDial \/ VncDialFails \/ LinkFrame \/ BridgeEnds
  <2>1. UNCHANGED notScreen
    BY <1>4, Zenon DEF LinkDial, LinkDialFails, VncDial, VncDialFails, LinkFrame, BridgeEnds
  <2> QED
    BY <2>1 DEF Same, notScreen, steady, browser, server, session, direct
<1>5. CASE OfferDial \/ OfferMake \/ OfferDescribe
  <2>1. UNCHANGED notOffer /\ UNCHANGED fromAgent
    BY <1>5, Zenon DEF OfferDial, OfferMake, OfferDescribe
  <2> QED
    BY <2>1 DEF Same, notOffer, notAgent, steady, browser, server, session
<1>6. CASE AgentChannelOpens \/ AgentChannelCloses
  <2>1. UNCHANGED notChannel /\ UNCHANGED fromAgent /\ UNCHANGED bridge /\ UNCHANGED chq
    BY <1>6, Zenon DEF AgentChannelOpens, AgentChannelCloses
  <2> QED
    BY <2>1 DEF Same, notChannel, notAgent, steady, browser, server, session
<1> QED
  BY <1>1, <1>2, <1>3, <1>4, <1>5, <1>6 DEF Silent

LEMMA SilentStep == ASSUME IInv, Silent PROVE IInv'
<1>1. UNCHANGED <<steady, toAgent, bridge, chq>> /\ UNCHANGED fromAgent
  BY SilentSame DEF Same
<1>2. fromAgent' \in Seq(Replies)
  BY <1>1 DEF IInv, TInv
<1> QED
  BY <1>1, <1>2, AsideStep, Zenon

\* Agent.send, to the router of the server.
LEMMA Replied ==
  ASSUME IInv, NEW m \in Replies, fromAgent' \in {fromAgent, Sent(fromAgent, m)}
  PROVE  fromAgent' \in Seq(Replies)
<1>1. fromAgent \in Seq(Replies)
  BY DEF IInv, TInv
<1>2. fromAgent' = fromAgent \/ fromAgent' = Append(fromAgent, m)
  BY DEF Sent
<1> QED
  BY <1>1, <1>2, InAppend, Zenon

LEMMA FailReplied == ASSUME FailDirect PROVE fromAgent' \in {fromAgent, Sent(fromAgent, "derr")}
BY DEF FailDirect

\* Steps that answer the browser, or may.
Answering ==
  \/ OfferDialFails \/ OfferMakeFails \/ OfferAnswer \/ OfferFails \/ IceFails \/ OnOpen

LEMMA AnsweringStep == ASSUME IInv, Answering PROVE IInv'
<1>1. UNCHANGED <<steady, toAgent, bridge, chq>>
  <2>1. CASE OnOpen
    BY <2>1 DEF OnOpen, notChannel, notAgent, steady, browser, server, session
  <2>2. CASE ~OnOpen
    <3>1. UNCHANGED notOffer
      BY <2>2, Zenon DEF Answering, OfferDialFails, OfferMakeFails, OfferAnswer,
                         OfferFails, IceFails
    <3> QED
      BY <3>1 DEF notOffer, notAgent, steady, browser, server, session
  <2> QED
    BY <2>1, <2>2
<1>2. PICK m \in Replies : fromAgent' \in {fromAgent, Sent(fromAgent, m)}
  <2>1. CASE OfferDialFails \/ OfferMakeFails
    BY <2>1 DEF OfferDialFails, OfferMakeFails, Replies
  <2>2. CASE OfferFails \/ IceFails
    BY <2>2, FailReplied DEF OfferFails, IceFails, Replies
  <2>3. CASE OfferAnswer
    BY <2>3, FailReplied DEF OfferAnswer, Replies
  <2>4. CASE OnOpen
    BY <2>4, FailReplied DEF OnOpen, Register, Replies
  <2> QED
    BY <2>1, <2>2, <2>3, <2>4 DEF Answering
<1> QED
  BY <1>1, <1>2, Replied, AsideStep

\* The agent takes a message: only rtc:ready starts the stream.
LEMMA Handling ==
  ASSUME IInv, RTCOffer \/ RTCICE \/ RTCReady \/ RTCClose \/ ScreenStart PROVE IInv'
<1>1. UNCHANGED notAgent /\ UNCHANGED fromAgent /\ UNCHANGED chq
  BY Zenon DEF RTCOffer, RTCICE, RTCReady, RTCClose, ScreenStart
<1>2. UNCHANGED steady
  BY <1>1 DEF notAgent, steady, browser, server, session
<1>3. toAgent # <<>> /\ toAgent' = Tail(toAgent)
  BY Zenon DEF RTCOffer, RTCICE, RTCReady, RTCClose, ScreenStart, Handles
<1>4. bridge' = bridge \/ Head(toAgent) = "ready"
  <2>1. CASE RTCReady
    BY <2>1 DEF RTCReady, Handles
  <2>2. CASE ~RTCReady
    BY <2>2 DEF RTCOffer, RTCICE, RTCClose, ScreenStart, direct
  <2> QED
    BY <2>1, <2>2
<1>5. toAgent \in Seq(Orders) /\ fromAgent' \in Seq(Replies) /\ chq' \in Nat
  BY <1>1 DEF IInv, TInv
<1>6. toAgent' \in Seq(Orders) /\ In(toAgent') \subseteq In(toAgent) /\ Head(toAgent) \in In(toAgent)
  BY <1>3, <1>5, InTail
<1>7. bridge' # "none" => bridge # "none" \/ "ready" \in In(toAgent)
  BY <1>4, <1>6
<1> QED
  BY <1>1, <1>2, <1>5, <1>6, <1>7, AgentStep, Zenon

\* The bridge streams, or ends.
LEMMA Bridging == ASSUME IInv, BridgeFrame \/ BridgeClosed \/ VncFails PROVE IInv'
<1>1. UNCHANGED notChannel
  BY Zenon DEF BridgeFrame, BridgeClosed, VncFails
<1>2. UNCHANGED steady /\ UNCHANGED toAgent
  BY <1>1 DEF notChannel, notAgent, steady, browser, server, session
<1>3. toAgent \in Seq(Orders) /\ chq \in Nat
  BY DEF IInv, TInv
<1>4. /\ bridge' # "none" => bridge # "none"
      /\ chq' \in Nat /\ (chq' > 0 => chq > 0 \/ bridge # "none")
  BY <1>3 DEF BridgeFrame, BridgeClosed, VncFails
<1>5. fromAgent' \in {fromAgent, Sent(fromAgent, "derr")}
  BY FailReplied DEF BridgeFrame, BridgeClosed, VncFails
<1>6. fromAgent' \in Seq(Replies)
  BY <1>5, Replied DEF Replies
<1> QED
  BY <1>2, <1>3, <1>4, <1>6, AgentStep, Zenon

\* What a connection that ended leaves to be read.
LEMMA Remainder ==
  ASSUME NEW T, NEW q \in Seq(T), NEW r,
         r = q \/ r = <<>> \/ \E n \in 0..Len(q) : r = SubSeq(q, 1, n)
  PROVE  r \in Seq(T) /\ In(r) \subseteq In(q)
<1>1. CASE r = q
  BY <1>1
<1>2. CASE r = <<>>
  BY <1>2, InNone
<1>3. CASE \E n \in 0..Len(q) : r = SubSeq(q, 1, n)
  <2>1. PICK n \in 0..Len(q) : r = SubSeq(q, 1, n)
    BY <1>3
  <2>2. SubSeq(q, 1, n) \in Seq(T) /\ In(SubSeq(q, 1, n)) \subseteq In(q)
    BY InPrefix, Zenon
  <2> QED
    BY <2>1, <2>2, Zenon
<1> QED
  BY <1>1, <1>2, <1>3

\* The device connection breaks, is noticed and comes back.
LEMMA Connection == ASSUME IInv, LinkBreaks \/ AgentNotices \/ Reconnect PROVE IInv'
<1>1. UNCHANGED <<browser, down, server>> /\ UNCHANGED agent
  BY Zenon DEF LinkBreaks, AgentNotices, Reconnect
<1>2. UNCHANGED steady /\ UNCHANGED bridge /\ UNCHANGED chq
  BY <1>1 DEF steady, browser, server, session, agent, direct
<1>3. toAgent \in Seq(Orders) /\ fromAgent \in Seq(Replies) /\ chq \in Nat
  BY DEF IInv, TInv
<1>4. /\ \/ toAgent' = toAgent \/ toAgent' = <<>>
         \/ \E n \in 0..Len(toAgent) : toAgent' = SubSeq(toAgent, 1, n)
      /\ \/ fromAgent' = fromAgent \/ fromAgent' = <<>>
         \/ \E n \in 0..Len(fromAgent) : fromAgent' = SubSeq(fromAgent, 1, n)
  BY DEF LinkBreaks, AgentNotices, Reconnect
<1>5. toAgent' \in Seq(Orders) /\ In(toAgent') \subseteq In(toAgent)
  BY <1>3, <1>4, Remainder, Zenon
<1>6. fromAgent' \in Seq(Replies)
  BY <1>3, <1>4, Remainder, Zenon
<1> QED
  BY <1>2, <1>3, <1>5, <1>6, AgentStep, Zenon

-----------------------------------------------------------------------------
(* The invariant.                                                          *)

LEMMA InitIInv == Init => IInv
<1> SUFFICES ASSUME Init PROVE IInv
  OBVIOUS
<1>1. /\ b = NewView /\ up = <<>> /\ down = <<>> /\ toAgent = <<>> /\ fromAgent = <<>> /\ chq = 0
      /\ handler = "start" /\ transport = "negotiating" /\ router = "idle" /\ bridge = "none"
      /\ row = [state |-> "none", transport |-> "negotiating"] /\ endState = "closed"
  BY DEF Init
<1>2. NewView \in ViewType
  BY DEF NewView, ViewType, Stages, Waiting
<1>3. TInv
  BY <1>1, <1>2, InNone DEF TInv
<1>4. ViewInv(b)
  BY <1>1 DEF NewView, ViewInv
<1>5. ~b.acked /\ b.rfb = "none"
  BY <1>1 DEF NewView
<1>6. UpInv /\ DownInv
  BY <1>1, <1>5, InNone DEF UpInv, DownInv
<1>7. PathInv /\ ReadyInv
  BY <1>1, <1>5, InNone DEF PathInv, ReadyInv, Ready
<1> QED
  BY <1>3, <1>4, <1>6, <1>7 DEF IInv

LEMMA NextIInv == IInv /\ [Next]_vars => IInv'
<1> SUFFICES ASSUME IInv, [Next]_vars PROVE IInv'
  OBVIOUS
<1>1. CASE View
  BY <1>1, Opens, Negotiates, Deadlines, Receives, Frames, Closes, Channels, Zenon
     DEF View, NoticeClosed
<1>2. CASE Handler
  BY <1>2, Begins, Signals, FallsBack, Records, Relays, TimesOut, Copies, HandlerEnds,
     Unlists, Zenon
     DEF Handler
<1>3. CASE Linker \/ Screen
  BY <1>3, SilentStep, Zenon DEF Linker, Screen, BridgeEndsCut, Silent
<1>4. CASE Router \/ ServerNotices
  BY <1>4, Routes, WritesReply, NoticesBreak, Zenon DEF Router
<1>5. CASE Control
  BY <1>5, Handling, SilentStep, Connection, Zenon DEF Control, Silent
<1>6. CASE Offerer \/ OnOpen \/ BridgeClosed \/ IceFailsAlone
  BY <1>6, SilentStep, AnsweringStep, Bridging, Zenon
  DEF Offerer, IceFailsAlone, Silent, Answering
<1>7. CASE Free
  BY <1>7, Negotiates, Connection, SilentStep, Bridging, Zenon DEF Free, Silent
<1>8. CASE Event
  <2>1. CASE \/ SendCandidate \/ RfbSend \/ RfbDisconnect \/ SecurityFailure \/ Dispose
             \/ SocketFails \/ PathFails \/ CreateThrows \/ NegotiateFails \/ AnswerRejected
    BY <2>1, Negotiates, Streams, Closes, Channels, Opens, Receives, Zenon
  <2>2. CASE \/ LinkBreaks \/ LinkDialFails \/ VncDialFails \/ BridgeEnds \/ OfferDialFails
             \/ OfferMakeFails \/ OfferFails \/ IceFails \/ VncFails
    BY <2>2, Connection, SilentStep, AnsweringStep, Bridging, Zenon DEF Silent, Answering
  <2> QED
    BY <1>8, <2>1, <2>2, Zenon DEF Event
<1>9. CASE UNCHANGED vars
  <2>1. UNCHANGED <<steady, toAgent, bridge, chq>> /\ UNCHANGED fromAgent
    BY <1>9 DEF vars, steady, browser, server, session, agent, direct
  <2> QED
    BY <2>1, AsideStep DEF IInv, TInv
<1> QED
  BY <1>1, <1>2, <1>3, <1>4, <1>5, <1>6, <1>7, <1>8, <1>9, Zenon DEF Next, Step

LEMMA Invariance == Spec => []IInv
BY InitIInv, NextIInv, PTL DEF Spec

-----------------------------------------------------------------------------
(* The theorems.                                                           *)

\* Once the browser's socket carries the framebuffer protocol it carries nothing
\* else, in either direction, however the fallback of the console, the answers of the
\* router and the link of the device interleave: relayScreen copies only frames of
\* noVNC to the device, and noVNC is given only frames of the device.
THEOREM SocketCarriesOneStream == Spec => []StreamsUnmixed
<1>1. IInv => StreamsUnmixed
  <2> SUFFICES ASSUME IInv PROVE StreamsUnmixed
    OBVIOUS
  <2>1. b.rfb = "relay" => In(down) \subseteq {"rfb", "close"}
    BY Zenon DEF IInv, DownInv, DownStream
  <2>2. handler = "relay" => In(up) \subseteq {"rfb", "bye"}
    BY Before, Zenon DEF UpStream
  <2>3. handler \in {"read", "record", "wait"} => handler \notin Late
    BY DEF Late
  <2>4. handler \in {"read", "record", "wait"} => "rfb" \notin In(up)
    BY <2>3, Zenon DEF IInv, UpInv
  <2> QED
    BY <2>1, <2>2, <2>4, Zenon DEF StreamsUnmixed
<1> QED
  BY <1>1, Invariance, PTL

\* A desktop the user sees live runs on the path that the session and its row of the
\* database record.
THEOREM LiveIsRecorded == Spec => []PathRecorded
<1>1. IInv => PathRecorded
  <2> SUFFICES ASSUME IInv, b.live PROVE transport = b.rfb /\ row.transport = b.rfb
    BY DEF PathRecorded
  <2>1. b.rfb = "relay" \/ (b.rfb = "direct" /\ ~b.requested /\ b.acked)
    BY Current, Zenon DEF ViewInv
  <2>2. CASE b.rfb = "relay"
    BY <2>2, Before DEF Late
  <2>3. CASE b.rfb = "direct" /\ ~b.requested /\ b.acked
    BY <2>3, Before DEF Told
  <2> QED
    BY <2>1, <2>2, <2>3
<1> QED
  BY <1>1, Invariance, PTL

\* Only the two ends of the channel change what is in transit on it.
LEMMA OnlyFrames == ASSUME [Next]_vars PROVE ChannelFrame \/ BridgeFrame \/ UNCHANGED chq
<1>1. CASE View
  BY <1>1, Zenon DEF View, SocketOpen, NegotiateOffer, DirectDeadline, HandshakeDeadline,
                     Receive,
     RelayFrame, SocketClosed, ChannelOpens, NoticeClosed, PathFails
<1>2. CASE Handler
  <2>1. UNCHANGED agent
    BY <1>2, Zenon DEF Handler, StartScreen, HandleSignal, HandleFallback, RecordRelay,
                       LinkReady,
       LinkTimeout, CopyUp, CopyDown, RelayEnds, HandlerReadError, Unlist, EndHandler
  <2> QED
    BY <2>1 DEF agent
<1>3. CASE \/ Linker \/ Screen \/ CleanupSessions \/ BufferCandidate \/ OfferDial \/ OfferMake
           \/ OfferDescribe \/ AgentChannelOpens \/ AgentChannelCloses \/ LinkFrame
           \/ LinkDialFails \/ VncDialFails \/ BridgeEnds
  <2>1. Silent
    BY <1>3, Zenon DEF Linker, Screen, BridgeEndsCut, Silent
  <2> QED
    BY <2>1, SilentSame DEF Same
<1>4. CASE Router \/ ServerNotices \/ Reconnect \/ LinkBreaks \/ AgentNotices
  <2>1. UNCHANGED agent
    BY <1>4, Zenon DEF Router, RouteRTC, WriteRTC, ServerNotices, Reconnect, LinkBreaks,
                       AgentNotices
  <2> QED
    BY <2>1 DEF agent
<1>5. CASE RTCOffer \/ RTCICE \/ RTCReady \/ RTCClose \/ ScreenStart
  BY <1>5, Zenon DEF RTCOffer, RTCICE, RTCReady, RTCClose, ScreenStart
<1>6. CASE \/ OfferAnswer \/ OfferDialFails \/ OfferMakeFails \/ OfferFails \/ IceFails
           \/ IceFailsAlone
  <2>1. UNCHANGED notOffer
    BY <1>6, Zenon DEF OfferAnswer, OfferDialFails, OfferMakeFails, OfferFails, IceFails,
       IceFailsAlone
  <2> QED
    BY <2>1 DEF notOffer
<1>7. CASE OnOpen \/ BridgeClosed \/ VncFails
  BY <1>7, Zenon DEF OnOpen, BridgeClosed, VncFails
<1>8. CASE \/ SendCandidate \/ RfbSend \/ RfbDisconnect \/ SecurityFailure \/ Dispose
           \/ SocketFails \/ PathFails \/ CreateThrows \/ NegotiateFails \/ AnswerRejected
           \/ PeerConnecting
  BY <1>8, Zenon DEF SendCandidate, RfbSend, RfbDisconnect, SecurityFailure, Dispose,
                     SocketFails,
     PathFails, CreateThrows, NegotiateFails, AnswerRejected, PeerConnecting
<1>9. CASE UNCHANGED vars
  BY <1>9 DEF vars, agent
<1>10. CASE Control
  BY <1>10, <1>3, <1>4, <1>5, Zenon DEF Control
<1>11. CASE Offerer
  BY <1>11, <1>3, <1>6, Zenon DEF Offerer
<1>12. CASE Free
  BY <1>12, <1>3, <1>4, <1>8, Zenon DEF Free
<1>13. CASE Event
  BY <1>13, <1>3, <1>4, <1>6, <1>7, <1>8, Zenon DEF Event
<1> QED
  BY <1>1, <1>2, <1>3, <1>4, <1>6, <1>7, <1>9, <1>10, <1>11, <1>12, <1>13, Zenon
  DEF Next, Step

\* No frame of the device's stream is taken from the channel before noVNC listens
\* there, so the greeting that begins it is heard.
THEOREM NoFrameUnheard == Spec => GreetingHeard
<1>1. ASSUME IInv, [Next]_vars, chq' < chq PROVE b.rfb = "direct"
  <2>1. chq \in Nat
    BY <1>1, Current
  <2>2. CASE ChannelFrame
    <3>1. Ready /\ b.chan = "open"
      BY <2>2 DEF ChannelFrame, Ready
    <3> QED
      BY <1>1, <3>1 DEF IInv, ReadyInv
  <2>3. CASE BridgeFrame
    BY <1>1, <2>1, <2>3 DEF BridgeFrame
  <2>4. CASE UNCHANGED chq
    BY <1>1, <2>1, <2>4
  <2> QED
    BY <1>1, <2>2, <2>3, <2>4, OnlyFrames
<1>2. IInv /\ [Next]_vars => [chq' < chq => b.rfb = "direct"]_vars
  BY <1>1
<1> QED
  BY <1>2, Invariance, PTL DEF Spec, GreetingHeard

==============================================================================
