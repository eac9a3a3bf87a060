-------------------------- MODULE DirectPathProofs --------------------------
(***************************************************************************)
(* Proofs about DirectPath, for any number of reads and of failures: what  *)
(* the data channel brings reaches the service, and the client hears one   *)
(* service connection.                                                     *)
(***************************************************************************)
EXTENDS DirectPath, SequenceTheorems, TLAPS

\* What each side may be sent: nothing of the relay before the server falls back.
IfFell(S) == IF fell THEN S ELSE {}
FromSourceKinds == {"connect", "offer", "direct-ok", "close"}
FromTargetKinds == {"answer", "direct-ok", "close", "error"} \cup IfFell({"open", "data"})
ToSourceKinds == {"answer", "close", "error"} \cup IfFell({"open", "data"})
ToTargetKinds == {"offer", "close"} \cup IfFell({"connect"})

QueueInv ==
  /\ sq \in Seq(FromSourceKinds) /\ tq \in Seq(FromTargetKinds)
  /\ ts \in Seq(ToSourceKinds) /\ tt \in Seq(ToTargetKinds)
  /\ ~fell => relay = "none"

TypeOK ==
  /\ src \in {"start", "offer", "select", "direct", "relay", "done"}
  /\ client \in {"open", "eof", "closed"}
  /\ sChan \in {"none", "open", "closed"} /\ tChan \in {"none", "open", "closed"}
  /\ bridge \in {"none", "accept", "opened", "dial", "flush", "read", "done"}
  /\ svc \in {"none", "open", "eof", "closed"}
  /\ sCtl \in {"up", "lost", "clean"} /\ tCtl \in {"up", "lost", "clean"}
  /\ sPend \in Nat /\ up \in Nat /\ down \in Nat
  /\ heard \in Seq(Nat) /\ tPend \in Seq(Nat) /\ flush \in Seq(Nat) /\ got \in Seq(Nat)
  /\ c2s \in Seq(Nat) /\ s2c \in Seq(Nat)

\* A client that has left its map is closed, and its socket is handed to the channel
\* only when the channel is chosen.
ClientInv ==
  /\ ~fwd => client = "closed"
  /\ src \in {"start", "offer", "select", "relay"} => ~sLocal /\ \A i \in 1..Len(heard) : heard[i] = Relayed

\* The chunks on the channel follow those the source has, while there is a client and
\* the relay is not used.
HeardInv ==
  /\ tChan = "none" => bridge = "none" /\ down = 0 /\ s2c = <<>> /\ sPend = 0
  /\ client # "closed" /\ ~fell =>
       /\ \A i \in 1..Len(heard) : heard[i] = sPend + i
       /\ \A i \in 1..Len(s2c) : s2c[i] = sPend + Len(heard) + i
       /\ tChan = "open" => down = sPend + Len(heard) + Len(s2c)
       /\ tChan = "none" \/ ~sLocal => heard = <<>>

\* The bridge and the socket it has dialled.
BridgeInv ==
  /\ bridge \in {"none", "accept", "opened", "dial"} => svc = "none"
  /\ bridge \in {"flush", "read"} => svc # "none"
  /\ svc = "none" => got = <<>> /\ flush = <<>> /\ ~raced /\ ~tLocal
  /\ svc = "open" /\ tCtl # "clean" => tLocal /\ tPend = <<>>

\* The target's side of the path lasts.
Lasts == tCtl # "clean" /\ svc \in {"none", "open"}

\* Chunks the target has taken from the channel.
Taken == Len(got) + Len(flush) + Len(tPend)

ServiceInv ==
  /\ sChan = "none" => up = 0 /\ c2s = <<>> /\ Taken = 0
  /\ Lasts =>
       /\ \A i \in 1..Len(tPend) : tPend[i] = i
       /\ raced => Elements(got) \cup Elements(flush) = 1..(Len(got) + Len(flush))
       /\ ~raced => /\ \A i \in 1..Len(got) : got[i] = i
                    /\ \A i \in 1..Len(flush) : flush[i] = Len(got) + i
       /\ \A i \in 1..Len(c2s) : c2s[i] = Taken + i
       /\ sChan = "open" => up = Taken + Len(c2s)

IInv == TypeOK /\ QueueInv /\ ClientInv /\ HeardInv /\ BridgeInv /\ ServiceInv

-----------------------------------------------------------------------------
(* Sequences.                                                              *)

\* What a queue holds after an Append, a Tail or a loss of its end.
LEMMA Queues ==
  ASSUME NEW S, NEW q \in Seq(S)
  PROVE  /\ \A m \in S : Append(q, m) \in Seq(S)
         /\ q # <<>> => Head(q) \in S /\ Tail(q) \in Seq(S)
         /\ \A n \in 0..Len(q) : SubSeq(q, 1, n) \in Seq(S)
         /\ <<>> \in Seq(S)
<1>1. /\ \A m \in S : Append(q, m) \in Seq(S)
      /\ <<>> \in Seq(S)
  BY AppendProperties, EmptySeq
<1>2. q # <<>> => Head(q) \in S /\ Tail(q) \in Seq(S)
  BY HeadTailProperties
<1>3. ASSUME NEW n \in 0..Len(q) PROVE SubSeq(q, 1, n) \in Seq(S)
  <2>1. n \in Int /\ \A i \in 1..n : i \in 1..Len(q)
    OBVIOUS
  <2>2. \A i \in 1..n : q[i] \in S
    BY <2>1, ElementOfSeq
  <2> QED
    BY <2>1, <2>2, SubSeqProperties
<1> QED
  BY <1>1, <1>2, <1>3

\* A number put at the end.
LEMMA AppendNumber ==
  ASSUME NEW q \in Seq(Nat), NEW k \in Nat
  PROVE  /\ Append(q, k) \in Seq(Nat) /\ Append(q, k) # <<>> /\ Len(q) \in Nat
         /\ Len(Append(q, k)) = Len(q) + 1
         /\ \A i \in 1..Len(q) : Append(q, k)[i] = q[i]
         /\ Append(q, k)[Len(q) + 1] = k
         /\ \A i \in 1..Len(Append(q, k)) : i \in 1..Len(q) \/ i = Len(q) + 1
         /\ Elements(Append(q, k)) = Elements(q) \cup {k}
<1>1. /\ Append(q, k) \in Seq(Nat) /\ Append(q, k) # <<>> /\ Len(q) \in Nat
      /\ Len(Append(q, k)) = Len(q) + 1
      /\ \A i \in 1..Len(q) : Append(q, k)[i] = q[i]
      /\ Append(q, k)[Len(q) + 1] = k
  BY AppendProperties
<1>2. /\ \A i \in 1..Len(Append(q, k)) : i \in 1..Len(q) \/ i = Len(q) + 1
      /\ \A i \in 1..Len(q) : i \in 1..Len(Append(q, k))
      /\ Len(q) + 1 \in 1..Len(Append(q, k))
  BY <1>1
<1>3. DOMAIN q = 1..Len(q) /\ DOMAIN Append(q, k) = 1..Len(Append(q, k))
  BY <1>1, LenProperties
<1>4. Elements(Append(q, k)) = Elements(q) \cup {k}
  BY <1>1, <1>2, <1>3 DEF Elements
<1> QED
  BY <1>1, <1>2, <1>4

\* The first number taken.
LEMMA TakeNumber ==
  ASSUME NEW q \in Seq(Nat), q # <<>>
  PROVE  /\ Head(q) \in Nat /\ Head(q) = q[1] /\ Len(q) \in Nat /\ Len(q) >= 1 /\ 1 \in 1..Len(q)
         /\ Tail(q) \in Seq(Nat) /\ Len(Tail(q)) = Len(q) - 1
         /\ \A i \in 1..Len(Tail(q)) : Tail(q)[i] = q[i + 1] /\ i + 1 \in 1..Len(q)
         /\ Elements(q) = {Head(q)} \cup Elements(Tail(q))
<1>1. /\ Head(q) \in Nat /\ Head(q) = q[1]
      /\ Tail(q) \in Seq(Nat) /\ Len(Tail(q)) = Len(q) - 1
      /\ \A i \in 1..Len(Tail(q)) : Tail(q)[i] = q[i + 1]
  BY HeadTailProperties
<1>2. Len(q) \in Nat /\ Len(q) >= 1
  BY EmptySeq
<1>3. /\ 1 \in 1..Len(q)
      /\ \A i \in 1..Len(Tail(q)) : i + 1 \in 1..Len(q)
      /\ \A i \in 1..Len(q) : i = 1 \/ (i - 1 \in 1..Len(Tail(q)) /\ Tail(q)[i - 1] = q[i])
  BY <1>1, <1>2
<1>4. DOMAIN q = 1..Len(q) /\ DOMAIN Tail(q) = 1..Len(Tail(q))
  BY <1>1, LenProperties
<1>5. Elements(q) = {Head(q)} \cup Elements(Tail(q))
  <2>1. ASSUME NEW i \in 1..Len(q) PROVE q[i] = Head(q) \/ q[i] \in Elements(Tail(q))
    <3>1. CASE i = 1
      BY <1>1, <3>1
    <3>2. CASE i - 1 \in 1..Len(Tail(q)) /\ Tail(q)[i - 1] = q[i]
      BY <1>4, <3>2, ZenonT(30) DEF Elements
    <3> QED
      BY <1>3, <3>1, <3>2
  <2>2. ASSUME NEW i \in 1..Len(Tail(q)) PROVE Tail(q)[i] \in Elements(q)
    BY <1>1, <1>3, <1>4 DEF Elements
  <2>3. Head(q) \in Elements(q)
    BY <1>1, <1>3, <1>4 DEF Elements
  <2>4. /\ \A x \in Elements(q) : \E i \in 1..Len(q) : x = q[i]
        /\ \A x \in Elements(Tail(q)) : \E i \in 1..Len(Tail(q)) : x = Tail(q)[i]
    BY <1>4 DEF Elements
  <2> QED
    BY <2>1, <2>2, <2>3, <2>4
<1> QED
  BY <1>1, <1>2, <1>3, <1>5

-----------------------------------------------------------------------------
(* Type correctness.                                                       *)

\* The initial state is well typed.
LEMMA InitTypeOK == Init => TypeOK
BY EmptySeq DEF Init, TypeOK

\* The steps of the source keep the types.
LEMMA SourceTypeOK ==
  ASSUME TypeOK, Source \/ CopyChunk \/ CopyFails \/ ClientEnds \/ SourceOpens \/ DirectOfferFails \/ SourceLost
  PROVE  TypeOK'
<1> USE DEF TypeOK, sPath, tPath, target, channel, server, queues, ctl, notSource, notReceive, notChannelS
<1>1. CASE Connect \/ StartDirectOffer \/ DirectOfferFails \/ SelectDone \/ SelectRelay \/ SelectTimeout
           \/ ReadForwardEnds \/ ClientEnds
  BY <1>1, ZenonT(30) DEF Connect, StartDirectOffer, DirectOfferFails, SelectDone, SelectRelay, SelectTimeout,
     ReadForwardEnds,
     ClientEnds, Finish
<1>2. CASE SelectDirect
  BY <1>2 DEF SelectDirect, Finish
<1>3. CASE CopyChunk
  <2>1. up' \in Nat /\ c2s' = Append(c2s, up') 
    BY <1>3 DEF CopyChunk
  <2>2. c2s' \in Seq(Nat)
    BY <2>1, AppendNumber
  <2> QED
    BY <1>3, <2>1, <2>2 DEF CopyChunk
<1>4. CASE CopyEnds \/ CopyFails
  <2>1. src' = "done" /\ client' = "closed" /\ sChan' = "closed" /\ (up' = up \/ up' = up + 1)
    BY <1>4 DEF CopyEnds, CopyFails, CopyStops, Finish
  <2>2. UNCHANGED <<tChan, bridge, svc, sCtl, tCtl, sPend, down, heard, tPend, flush, got, c2s, s2c>>
    BY <1>4 DEF CopyEnds, CopyFails, CopyStops
  <2> QED
    BY <2>1, <2>2
<1>5. CASE ReceiveAnswer \/ ReceiveOpen \/ ReceiveError \/ ReceiveClose
  BY <1>5 DEF ReceiveAnswer, ReceiveOpen, ReceiveError, ReceiveClose
<1>6. CASE ReceiveData
  <2>1. heard' = heard \/ heard' = Append(heard, Relayed)
    BY <1>6 DEF ReceiveData
  <2>2. Append(heard, Relayed) \in Seq(Nat)
    BY AppendNumber DEF Relayed
  <2>3. heard' \in Seq(Nat)
    BY <2>1, <2>2, ZenonT(30)
  <2> QED
    BY <1>6, <2>3 DEF ReceiveData
<1>7. CASE SourceMessage
  <2>1. s2c # <<>> /\ s2c' = Tail(s2c) /\ (heard' = heard \/ heard' = Append(heard, Head(s2c)))
    BY <1>7 DEF SourceMessage
  <2>2. Head(s2c) \in Nat /\ s2c' \in Seq(Nat)
    BY <2>1, TakeNumber
  <2>3. Append(heard, Head(s2c)) \in Seq(Nat)
    BY <2>2, AppendNumber
  <2>4. heard' \in Seq(Nat)
    BY <2>1, <2>3, ZenonT(30)
  <2>5. sPend' \in Nat
    BY <1>7 DEF SourceMessage
  <2> QED
    BY <1>7, <2>2, <2>4, <2>5 DEF SourceMessage
<1>8. CASE CleanupSource \/ SourceOpens
  <2>1. (client' = client \/ client' = "closed") /\ (sPend' = sPend \/ sPend' = 0)
    BY <1>8 DEF CleanupSource, SourceOpens
  <2>2. (sChan' = sChan \/ sChan' = "open" \/ sChan' = "closed") /\ (sCtl' = sCtl \/ sCtl' = "clean")
    BY <1>8 DEF CleanupSource, SourceOpens
  <2>3. UNCHANGED <<src, up, tChan, bridge, svc, tCtl, down, heard, tPend, flush, got, c2s, s2c>>
    BY <1>8 DEF CleanupSource, SourceOpens
  <2> QED
    BY <2>1, <2>2, <2>3
<1>9. CASE SourceLost
  BY <1>9 DEF SourceLost, source
<1> QED
  BY <1>1, <1>2, <1>3, <1>4, <1>5, <1>6, <1>7, <1>8, <1>9 DEF Source

\* The steps of the target keep the types.
LEMMA TargetTypeOK ==
  ASSUME TypeOK,
         \/ Target \/ BridgeChunk \/ BridgeFails \/ RelayChunk \/ TargetChannel \/ ChannelCloses \/ ServiceEnds
         \/ RelayServiceEnds \/ ChannelBreaks \/ HandleDirectOfferFails \/ BridgeDialFails \/ RelayDialFails
         \/ TargetLost
  PROVE  TypeOK'
<1> USE DEF TypeOK, sPath, tPath, source, channel, server, queues, ctl, notTarget, notBridge, notRelay
<1>1. CASE ReceiveOffer \/ HandleDirectOffer \/ HandleDirectOfferFails \/ TargetChannel \/ OnDataChannel
           \/ TargetOpens \/ BridgeDialFails
           \/ ServiceEnds
  BY <1>1, ZenonT(30) DEF ReceiveOffer, HandleDirectOffer, HandleDirectOfferFails, TargetChannel, OnDataChannel,
     TargetOpens, notCallback, BridgeDialFails,
     ServiceEnds
<1>2. CASE BridgeDial
  BY <1>2, EmptySeq DEF BridgeDial
<1>3. CASE BridgeFlush
  <2>1. flush # <<>> /\ flush' = Tail(flush) /\ (got' = got \/ got' = Append(got, Head(flush)))
    BY <1>3 DEF BridgeFlush, Written
  <2>2. Head(flush) \in Nat /\ flush' \in Seq(Nat)
    BY <2>1, TakeNumber
  <2>3. Append(got, Head(flush)) \in Seq(Nat)
    BY <2>2, AppendNumber
  <2>4. got' \in Seq(Nat)
    BY <2>1, <2>3, ZenonT(30)
  <2> QED
    BY <1>3, <2>2, <2>4 DEF BridgeFlush
<1>4. CASE BridgeStart \/ BridgeEnds \/ BridgeFails
  <2>1. bridge' \in {"read", "done"} /\ svc' \in {svc, "closed"}
    BY <1>4 DEF BridgeStart, BridgeEnds, BridgeFails, BridgeStops
  <2>2. down' = down \/ down' = down + 1
    BY <1>4 DEF BridgeStart, BridgeEnds, BridgeFails, BridgeStops
  <2>3. UNCHANGED <<src, client, sChan, tChan, sCtl, tCtl, sPend, up, heard, tPend, flush, got, c2s, s2c>>
    BY <1>4 DEF BridgeStart, BridgeEnds, BridgeFails, BridgeStops
  <2> QED
    BY <2>1, <2>2, <2>3
<1>5. CASE BridgeChunk
  <2>1. down' \in Nat /\ s2c' = Append(s2c, down')
    BY <1>5 DEF BridgeChunk
  <2>2. s2c' \in Seq(Nat)
    BY <2>1, AppendNumber
  <2> QED
    BY <1>5, <2>1, <2>2 DEF BridgeChunk
<1>6. CASE TargetMessage
  <2>1. /\ c2s # <<>> /\ c2s' = Tail(c2s) /\ (got' = got \/ got' = Append(got, Head(c2s)))
        /\ tPend' = tPend \/ tPend' = Append(tPend, Head(c2s))
    BY <1>6 DEF TargetMessage, Written
  <2>2. Head(c2s) \in Nat /\ c2s' \in Seq(Nat)
    BY <2>1, TakeNumber
  <2>3. Append(got, Head(c2s)) \in Seq(Nat) /\ Append(tPend, Head(c2s)) \in Seq(Nat)
    BY <2>2, AppendNumber
  <2>4. got' \in Seq(Nat) /\ tPend' \in Seq(Nat)
    BY <2>1, <2>3, ZenonT(30)
  <2> QED
    BY <1>6, <2>2, <2>4 DEF TargetMessage
<1>7. CASE ChannelCloses \/ ChannelBreaks
  BY <1>7, EmptySeq, ZenonT(30), ZenonT(30) DEF ChannelCloses, ChannelBreaks
<1>8. CASE ReceiveConnect \/ ReceiveCloseT \/ RelayDial \/ RelayDialFails \/ RelayChunk \/ RelayServiceEnds
  BY <1>8, ZenonT(30) DEF ReceiveConnect, ReceiveCloseT, RelayDial, RelayDialFails, RelayChunk, RelayServiceEnds
<1>9. CASE TargetLost
  BY <1>9 DEF TargetLost, target
<1>10. CASE CleanupTarget
  BY <1>10, EmptySeq DEF CleanupTarget
<1> QED
  BY <1>1, <1>2, <1>3, <1>4, <1>5, <1>6, <1>7, <1>8, <1>9, <1>10 DEF Target

\* Every step does.
LEMMA NextTypeOK == ASSUME TypeOK, Next PROVE TypeOK'
<1>1. CASE Server
  <2>1. UNCHANGED notServer
    BY <1>1, ZenonT(30) DEF Server, ServeConnect, ServeDirectOK, RelayFromSource, RelayFromTarget, Fallback,
       CloseAgentForwards
  <2> QED
    BY <2>1 DEF notServer, source, target, channel, ctl, sPath, tPath, TypeOK
<1> QED
  BY <1>1, SourceTypeOK, TargetTypeOK DEF Next, Step, Free, Event

-----------------------------------------------------------------------------
(* The messages between the agents and the server.                         *)

\* A queue is left alone, gets a message, loses its first or loses its end.
Queued(q, r, kinds) ==
  \/ r = q
  \/ \E m \in kinds : r = Append(q, m)
  \/ q # <<>> /\ r = Tail(q)
  \/ \E n \in 0..Len(q) : r = SubSeq(q, 1, n)

\* Its messages keep their kinds.
LEMMA QueuedKinds ==
  ASSUME NEW S, NEW q \in Seq(S), NEW r, NEW kinds, kinds \subseteq S, Queued(q, r, kinds) \/ r = <<>>
  PROVE  r \in Seq(S)
BY Queues, ZenonT(30) DEF Queued

\* The source's messages to the server: forward:connect, the offer, direct-ok, close.
LEMMA SourceQueue == ASSUME Next PROVE Queued(sq, sq', FromSourceKinds)
<1> USE DEF Queued, FromSourceKinds, SendS
<1>1. CASE Connect \/ StartDirectOffer \/ CopyEnds \/ CopyFails \/ ReadForwardEnds \/ SourceOpens
  BY <1>1 DEF Connect, StartDirectOffer, CopyEnds, CopyFails, CopyStops, ReadForwardEnds, SourceOpens
<1>2. CASE DirectOfferFails \/ SelectDone \/ SelectRelay \/ SelectDirect \/ SelectTimeout \/ CopyChunk \/ ClientEnds
           \/ ReceiveAnswer \/ ReceiveOpen \/ ReceiveError \/ ReceiveData \/ ReceiveClose \/ SourceMessage
           \/ CleanupSource
  BY <1>2 DEF DirectOfferFails, SelectDone, SelectRelay, SelectDirect, SelectTimeout, CopyChunk, ClientEnds,
     ReceiveAnswer, ReceiveOpen, ReceiveError, ReceiveData, ReceiveClose, SourceMessage, CleanupSource,
     notReceive, queues
<1>3. CASE Target \/ BridgeChunk \/ BridgeFails \/ RelayChunk \/ TargetChannel \/ ChannelCloses \/ ServiceEnds
           \/ RelayServiceEnds \/ ChannelBreaks \/ HandleDirectOfferFails \/ BridgeDialFails \/ RelayDialFails
           \/ TargetLost
  BY <1>3, ZenonT(30) DEF Target, ReceiveOffer, HandleDirectOffer, BridgeDial, BridgeFlush, BridgeStart, BridgeEnds,
     TargetMessage, ReceiveConnect, ReceiveCloseT, RelayDial, CleanupTarget, BridgeChunk, BridgeFails, BridgeStops,
     RelayChunk, TargetChannel, OnDataChannel, TargetOpens, notCallback, ChannelCloses, ServiceEnds,
     RelayServiceEnds, ChannelBreaks, HandleDirectOfferFails,
     BridgeDialFails, RelayDialFails, TargetLost, notTarget, notBridge, notRelay, queues
<1>4. CASE ServeConnect \/ ServeDirectOK \/ RelayFromSource
  BY <1>4 DEF ServeConnect, ServeDirectOK, RelayFromSource
<1>5. CASE RelayFromTarget \/ Fallback \/ CloseAgentForwards
  BY <1>5 DEF RelayFromTarget, Fallback, CloseAgentForwards
<1>6. CASE SourceLost
  BY <1>6 DEF SourceLost
<1> QED
  BY <1>1, <1>2, <1>3, <1>4, <1>5, <1>6, ZenonT(30) DEF Next, Step, Free, Event, Source, Server

\* The target's messages to the server; those of the relay only with a relay.
LEMMA TargetQueue ==
  ASSUME Next
  PROVE  \/ Queued(tq, tq', {"answer", "direct-ok", "close", "error"})
         \/ relay # "none" /\ Queued(tq, tq', {"open", "data"})
<1> USE DEF Queued, SendT
<1>1. CASE Source \/ CopyChunk \/ CopyFails \/ ClientEnds \/ SourceOpens \/ DirectOfferFails \/ SourceLost
  BY <1>1, ZenonT(30) DEF Source, Connect, StartDirectOffer, SelectDone, SelectRelay, SelectDirect, SelectTimeout,
     CopyEnds,
     ReadForwardEnds, ReceiveAnswer, ReceiveOpen, ReceiveError, ReceiveData, ReceiveClose, SourceMessage,
     CleanupSource, CopyChunk, CopyFails, CopyStops, ClientEnds, SourceOpens, DirectOfferFails, SourceLost,
     notSource, notReceive, notChannelS, queues
<1>2. CASE HandleDirectOffer \/ HandleDirectOfferFails \/ TargetChannel \/ OnDataChannel \/ TargetOpens
           \/ BridgeDialFails \/ BridgeEnds
           \/ BridgeFails \/ RelayDialFails \/ RelayServiceEnds
  BY <1>2 DEF HandleDirectOffer, HandleDirectOfferFails, TargetChannel, OnDataChannel, TargetOpens, notCallback,
     BridgeDialFails, BridgeEnds, BridgeFails,
     BridgeStops, RelayDialFails, RelayServiceEnds
<1>3. CASE RelayDial \/ RelayChunk
  BY <1>3, ZenonT(30) DEF RelayDial, RelayChunk
<1>4. CASE ReceiveOffer \/ BridgeDial \/ BridgeFlush \/ BridgeStart \/ TargetMessage \/ ReceiveConnect
           \/ ReceiveCloseT \/ CleanupTarget \/ BridgeChunk \/ ChannelCloses \/ ServiceEnds \/ ChannelBreaks
  BY <1>4 DEF ReceiveOffer, BridgeDial, BridgeFlush, BridgeStart, TargetMessage, ReceiveConnect, ReceiveCloseT,
     CleanupTarget, BridgeChunk, ChannelCloses, ServiceEnds, ChannelBreaks, queues
<1>5. CASE ServeDirectOK \/ RelayFromTarget
  BY <1>5 DEF ServeDirectOK, RelayFromTarget
<1>6. CASE ServeConnect \/ RelayFromSource \/ Fallback \/ CloseAgentForwards
  BY <1>6 DEF ServeConnect, RelayFromSource, Fallback, CloseAgentForwards
<1>7. CASE TargetLost
  BY <1>7 DEF TargetLost
<1> QED
  BY <1>1, <1>2, <1>3, <1>4, <1>5, <1>6, <1>7, ZenonT(30) DEF Next, Step, Free, Event, Target, Server

\* The server's messages to the source: those of the target, and its own.
LEMMA ToSourceQueue ==
  ASSUME Next
  PROVE  \/ Queued(ts, ts', {"close", "error"}) \/ ts' = <<>>
         \/ tq # <<>> /\ Head(tq) # "direct-ok" /\ Queued(ts, ts', {Head(tq)})
<1> USE DEF Queued, ToSource
<1>1. CASE Connect \/ StartDirectOffer \/ SelectDone \/ SelectRelay \/ SelectDirect \/ SelectTimeout \/ CopyEnds
           \/ ReadForwardEnds \/ SourceMessage \/ CleanupSource \/ CopyChunk \/ CopyFails \/ ClientEnds
           \/ SourceOpens \/ DirectOfferFails
  BY <1>1 DEF Connect, StartDirectOffer, SelectDone, SelectRelay, SelectDirect, SelectTimeout, CopyEnds,
     ReadForwardEnds, SourceMessage, CleanupSource, CopyChunk, CopyFails, CopyStops, ClientEnds, SourceOpens,
     DirectOfferFails, notSource, notChannelS, queues
<1>2. CASE ReceiveAnswer \/ ReceiveOpen \/ ReceiveError \/ ReceiveData \/ ReceiveClose
  BY <1>2, ZenonT(30) DEF ReceiveAnswer, ReceiveOpen, ReceiveError, ReceiveData, ReceiveClose, FromServer
<1>3. CASE Target \/ BridgeChunk \/ BridgeFails \/ RelayChunk \/ TargetChannel \/ ChannelCloses \/ ServiceEnds
           \/ RelayServiceEnds \/ ChannelBreaks \/ HandleDirectOfferFails \/ BridgeDialFails \/ RelayDialFails
           \/ TargetLost
  BY <1>3, ZenonT(30) DEF Target, ReceiveOffer, HandleDirectOffer, BridgeDial, BridgeFlush, BridgeStart, BridgeEnds,
     TargetMessage, ReceiveConnect, ReceiveCloseT, RelayDial, CleanupTarget, BridgeChunk, BridgeFails, BridgeStops,
     RelayChunk, TargetChannel, OnDataChannel, TargetOpens, notCallback, ChannelCloses, ServiceEnds,
     RelayServiceEnds, ChannelBreaks, HandleDirectOfferFails,
     BridgeDialFails, RelayDialFails, TargetLost, notTarget, notBridge, notRelay, queues
<1>4. CASE ServeConnect \/ ServeDirectOK \/ RelayFromSource \/ Fallback \/ CloseAgentForwards
  BY <1>4, ZenonT(30) DEF ServeConnect, ServeDirectOK, RelayFromSource, Fallback, CloseAgentForwards
<1>5. CASE RelayFromTarget
  BY <1>5, ZenonT(30) DEF RelayFromTarget
<1>6. CASE SourceLost
  BY <1>6 DEF SourceLost
<1> QED
  BY <1>1, <1>2, <1>3, <1>4, <1>5, <1>6, ZenonT(30) DEF Next, Step, Free, Event, Source, Server

\* The server's messages to the target: those of the source, its own, and
\* forward:connect when it falls back.
LEMMA ToTargetQueue ==
  ASSUME Next
  PROVE  \/ Queued(tt, tt', {"close"}) \/ tt' = <<>>
         \/ sq # <<>> /\ Head(sq) \notin {"connect", "direct-ok"} /\ Queued(tt, tt', {Head(sq)})
         \/ Fallback /\ Queued(tt, tt', {"connect"})
<1> USE DEF Queued, ToTarget
<1>1. CASE Source \/ CopyChunk \/ CopyFails \/ ClientEnds \/ SourceOpens \/ DirectOfferFails \/ SourceLost
  BY <1>1, ZenonT(30) DEF Source, Connect, StartDirectOffer, SelectDone, SelectRelay, SelectDirect, SelectTimeout,
     CopyEnds,
     ReadForwardEnds, ReceiveAnswer, ReceiveOpen, ReceiveError, ReceiveData, ReceiveClose, SourceMessage,
     CleanupSource, CopyChunk, CopyFails, CopyStops, ClientEnds, SourceOpens, DirectOfferFails, SourceLost,
     notSource, notReceive, notChannelS, queues
<1>2. CASE ReceiveOffer \/ ReceiveConnect \/ ReceiveCloseT
  BY <1>2, ZenonT(30) DEF ReceiveOffer, ReceiveConnect, ReceiveCloseT, ForTarget
<1>3. CASE HandleDirectOffer \/ BridgeDial \/ BridgeFlush \/ BridgeStart \/ BridgeEnds \/ TargetMessage \/ RelayDial
           \/ CleanupTarget \/ BridgeChunk \/ BridgeFails \/ RelayChunk \/ TargetChannel \/ OnDataChannel
           \/ TargetOpens \/ ChannelCloses
           \/ ServiceEnds \/ RelayServiceEnds \/ ChannelBreaks \/ HandleDirectOfferFails \/ BridgeDialFails
           \/ RelayDialFails
  BY <1>3, ZenonT(30) DEF HandleDirectOffer, BridgeDial, BridgeFlush, BridgeStart, BridgeEnds, TargetMessage, RelayDial,
     CleanupTarget, BridgeChunk, BridgeFails, BridgeStops, RelayChunk, TargetChannel, OnDataChannel, TargetOpens,
     notCallback, ChannelCloses, ServiceEnds,
     RelayServiceEnds, ChannelBreaks, HandleDirectOfferFails, BridgeDialFails, RelayDialFails, notBridge, queues
<1>4. CASE ServeConnect \/ ServeDirectOK \/ RelayFromTarget \/ CloseAgentForwards
  BY <1>4 DEF ServeConnect, ServeDirectOK, RelayFromTarget, CloseAgentForwards
<1>5. CASE RelayFromSource
  BY <1>5 DEF RelayFromSource
<1>6. CASE Fallback
  BY <1>6 DEF Fallback
<1>7. CASE TargetLost
  BY <1>7 DEF TargetLost
<1> QED
  BY <1>1, <1>2, <1>3, <1>4, <1>5, <1>6, <1>7, ZenonT(30) DEF Next, Step, Free, Event, Target, Server

\* Only the server's timer falls back, and only forward:connect starts the relay.
LEMMA RelayStarts ==
  ASSUME Next
  PROVE  /\ fell' = fell \/ (Fallback /\ fell' = TRUE)
         /\ relay = "none" => relay' = "none" \/ ReceiveConnect
<1>1. CASE Source \/ CopyChunk \/ CopyFails \/ ClientEnds \/ SourceOpens \/ DirectOfferFails \/ SourceLost
  <2>1. fell' = fell
    BY <1>1, ZenonT(30), ZenonT(30) DEF Source, Connect, StartDirectOffer, SelectDone, SelectRelay, SelectDirect,
       SelectTimeout, CopyEnds,
     ReadForwardEnds, ReceiveAnswer, ReceiveOpen, ReceiveError, ReceiveData, ReceiveClose, SourceMessage,
     CleanupSource, CopyChunk, CopyFails, CopyStops, ClientEnds, SourceOpens, DirectOfferFails, SourceLost,
     notSource, notReceive, notChannelS, server
  <2>2. relay' = relay
    BY <1>1, ZenonT(30) DEF Source, Connect, StartDirectOffer, SelectDone, SelectRelay, SelectDirect,
       SelectTimeout, CopyEnds,
     ReadForwardEnds, ReceiveAnswer, ReceiveOpen, ReceiveError, ReceiveData, ReceiveClose, SourceMessage,
     CleanupSource, CopyChunk, CopyFails, CopyStops, ClientEnds, SourceOpens, DirectOfferFails, SourceLost,
     notSource, notReceive, notChannelS, target
  <2> QED
    BY <2>1, <2>2
<1>2. CASE Target \/ BridgeChunk \/ BridgeFails \/ RelayChunk \/ TargetChannel \/ ChannelCloses \/ ServiceEnds
           \/ RelayServiceEnds \/ ChannelBreaks \/ HandleDirectOfferFails \/ BridgeDialFails \/ RelayDialFails
           \/ TargetLost
  <2>1. fell' = fell
    BY <1>2, ZenonT(30), ZenonT(30) DEF Target, ReceiveOffer, HandleDirectOffer, BridgeDial, BridgeFlush,
       BridgeStart, BridgeEnds,
     TargetMessage, ReceiveConnect, ReceiveCloseT, RelayDial, CleanupTarget, BridgeChunk, BridgeFails, BridgeStops,
     RelayChunk, TargetChannel, OnDataChannel, TargetOpens, notCallback, ChannelCloses, ServiceEnds,
     RelayServiceEnds, ChannelBreaks, HandleDirectOfferFails,
     BridgeDialFails, RelayDialFails, TargetLost, notTarget, notBridge, notRelay, server
  <2>2. relay = "none" => relay' = "none" \/ ReceiveConnect
    BY <1>2, ZenonT(30) DEF Target, ReceiveOffer, HandleDirectOffer, BridgeDial, BridgeFlush, BridgeStart, BridgeEnds,
     TargetMessage, ReceiveCloseT, RelayDial, CleanupTarget, BridgeChunk, BridgeFails, BridgeStops,
     RelayChunk, TargetChannel, OnDataChannel, TargetOpens, notCallback, ChannelCloses, ServiceEnds,
     RelayServiceEnds, ChannelBreaks, HandleDirectOfferFails,
     BridgeDialFails, RelayDialFails, TargetLost, notBridge, target
  <2> QED
    BY <2>1, <2>2
<1>3. CASE Server
  <2>1. fell' = fell \/ (Fallback /\ fell' = TRUE)
    BY <1>3 DEF Server, ServeConnect, ServeDirectOK, RelayFromSource, RelayFromTarget, Fallback,
     CloseAgentForwards
  <2>2. relay' = relay
    BY <1>3 DEF Server, ServeConnect, ServeDirectOK, RelayFromSource, RelayFromTarget, Fallback,
     CloseAgentForwards, notServer, target
  <2> QED
    BY <2>1, <2>2
<1> QED
  BY <1>1, <1>2, <1>3, ZenonT(30) DEF Next, Step, Free, Event

\* No step puts a message of the relay on a queue before the server has fallen back.
LEMMA NextQueueInv == ASSUME QueueInv, Next PROVE QueueInv'
<1>1. fell' = fell \/ (Fallback /\ fell' = TRUE)
  BY RelayStarts
<1>2. /\ FromTargetKinds \subseteq FromTargetKinds' /\ ToSourceKinds \subseteq ToSourceKinds'
      /\ ToTargetKinds \subseteq ToTargetKinds' /\ FromSourceKinds' = FromSourceKinds
  BY <1>1 DEF FromTargetKinds, ToSourceKinds, ToTargetKinds, FromSourceKinds, IfFell
<1>3. /\ tq \in Seq(FromTargetKinds') /\ ts \in Seq(ToSourceKinds') /\ tt \in Seq(ToTargetKinds')
      /\ sq \in Seq(FromSourceKinds)
  <2>1. tq \in Seq(FromTargetKinds) /\ ts \in Seq(ToSourceKinds) /\ tt \in Seq(ToTargetKinds)
        /\ sq \in Seq(FromSourceKinds)
    BY DEF QueueInv
  <2>2. ASSUME NEW S, NEW T, S \subseteq T, NEW q \in Seq(S) PROVE q \in Seq(T)
    <3>1. Len(q) \in Nat /\ q \in [1..Len(q) -> S]
      BY LenProperties
    <3>2. q \in [1..Len(q) -> T]
      BY <2>2, <3>1
    <3> QED
      BY <3>1, <3>2, SeqDef
  <2> QED
    BY <1>2, <2>1, <2>2
<1>4. sq' \in Seq(FromSourceKinds)
  BY <1>3, SourceQueue, QueuedKinds
<1>5. tq' \in Seq(FromTargetKinds')
  <2>1. CASE Queued(tq, tq', {"answer", "direct-ok", "close", "error"})
    <3>1. {"answer", "direct-ok", "close", "error"} \subseteq FromTargetKinds'
      BY DEF FromTargetKinds
    <3> QED
      BY <1>3, <2>1, <3>1, QueuedKinds
  <2>2. CASE relay # "none" /\ Queued(tq, tq', {"open", "data"})
    <3>1. {"open", "data"} \subseteq FromTargetKinds'
      BY <1>1, <2>2 DEF FromTargetKinds, IfFell, QueueInv
    <3> QED
      BY <1>3, <2>2, <3>1, QueuedKinds
  <2> QED
    BY <2>1, <2>2, TargetQueue
<1>6. ts' \in Seq(ToSourceKinds')
  <2>1. CASE Queued(ts, ts', {"close", "error"}) \/ ts' = <<>>
    <3>1. {"close", "error"} \subseteq ToSourceKinds'
      BY DEF ToSourceKinds
    <3> QED
      BY <1>3, <2>1, <3>1, QueuedKinds, ZenonT(30)
  <2>2. CASE tq # <<>> /\ Head(tq) # "direct-ok" /\ Queued(ts, ts', {Head(tq)})
    <3>1. Head(tq) \in FromTargetKinds'
      BY <1>3, <2>2, Queues
    <3>2. {Head(tq)} \subseteq ToSourceKinds'
      BY <2>2, <3>1 DEF FromTargetKinds, ToSourceKinds
    <3> QED
      BY <1>3, <2>2, <3>2, QueuedKinds
  <2> QED
    BY <2>1, <2>2, ToSourceQueue
<1>7. tt' \in Seq(ToTargetKinds')
  <2>1. CASE Queued(tt, tt', {"close"}) \/ tt' = <<>>
    <3>1. {"close"} \subseteq ToTargetKinds'
      BY DEF ToTargetKinds
    <3> QED
      BY <1>3, <2>1, <3>1, QueuedKinds
  <2>2. CASE sq # <<>> /\ Head(sq) \notin {"connect", "direct-ok"} /\ Queued(tt, tt', {Head(sq)})
    <3>1. Head(sq) \in FromSourceKinds
      BY <1>3, <2>2, Queues
    <3>2. {Head(sq)} \subseteq ToTargetKinds'
      BY <2>2, <3>1 DEF FromSourceKinds, ToTargetKinds
    <3> QED
      BY <1>3, <2>2, <3>2, QueuedKinds
  <2>3. CASE Fallback /\ Queued(tt, tt', {"connect"})
    <3>1. {"connect"} \subseteq ToTargetKinds'
      BY <2>3 DEF ToTargetKinds, IfFell, Fallback
    <3> QED
      BY <1>3, <2>3, <3>1, QueuedKinds
  <2> QED
    BY <2>1, <2>2, <2>3, ToTargetQueue
<1>8. ~fell' => relay' = "none"
  <2>1. SUFFICES ASSUME ~fell' PROVE relay' = "none"
    OBVIOUS
  <2>2. ~fell /\ relay = "none"
    BY <1>1, <2>1 DEF QueueInv
  <2>3. ~ReceiveConnect
    <3>1. ASSUME ReceiveConnect PROVE FALSE
      <4>1. tt # <<>> /\ Head(tt) = "connect"
        BY <3>1 DEF ReceiveConnect, ForTarget
      <4>2. Head(tt) \in ToTargetKinds'
        BY <1>3, <4>1, Queues
      <4> QED
        BY <2>1, <4>1, <4>2 DEF ToTargetKinds, IfFell
    <3> QED
      BY <3>1
  <2> QED
    BY <2>2, <2>3, RelayStarts
<1> QED
  BY <1>2, <1>4, <1>5, <1>6, <1>7, <1>8 DEF QueueInv

-----------------------------------------------------------------------------
(* The source and its client.                                              *)

\* The target and the server leave the source's tunnel alone.
LEMMA NotTheSource ==
  ASSUME \/ Target \/ BridgeChunk \/ BridgeFails \/ RelayChunk \/ TargetChannel \/ ServiceEnds
         \/ RelayServiceEnds \/ HandleDirectOfferFails \/ BridgeDialFails \/ RelayDialFails
         \/ TargetLost \/ Server
  PROVE  UNCHANGED source
<1>1. CASE Server
  BY <1>1, ZenonT(30) DEF Server, ServeConnect, ServeDirectOK, RelayFromSource, RelayFromTarget, Fallback,
     CloseAgentForwards, notServer
<1>2. CASE Target
  BY <1>2, ZenonT(30) DEF Target, ReceiveOffer, HandleDirectOffer, BridgeDial, BridgeFlush, BridgeStart, BridgeEnds,
     TargetMessage, ReceiveConnect, ReceiveCloseT, RelayDial, CleanupTarget, BridgeStops, OnDataChannel, TargetOpens,
     notCallback, notTarget, notBridge, notRelay
<1> QED
  BY <1>1, <1>2 DEF BridgeChunk, BridgeFails, BridgeStops,
     RelayChunk, TargetChannel, OnDataChannel, TargetOpens, notCallback, ServiceEnds, RelayServiceEnds,
     HandleDirectOfferFails,
     BridgeDialFails, RelayDialFails, TargetLost, notTarget, notBridge, notRelay

\* Nothing of the channel reaches the client before the channel is chosen.
LEMMA NextClientInv == ASSUME TypeOK, ClientInv, Next PROVE ClientInv'
<1> DEFINE Early == {"start", "offer", "select", "relay"}
<1>1. ASSUME UNCHANGED <<src, fwd, client, sLocal, heard>> PROVE ClientInv'
  BY <1>1 DEF ClientInv
<1>2. CASE \/ Target \/ BridgeChunk \/ BridgeFails \/ RelayChunk \/ TargetChannel \/ ServiceEnds
           \/ RelayServiceEnds \/ HandleDirectOfferFails \/ BridgeDialFails \/ RelayDialFails
           \/ TargetLost \/ Server
  BY <1>1, <1>2, NotTheSource, ZenonT(30) DEF source, sPath
<1>3. CASE ChannelCloses \/ ChannelBreaks \/ SourceLost \/ CopyChunk \/ SourceOpens \/ ReceiveAnswer \/ ReceiveOpen
  BY <1>1, <1>3 DEF ChannelCloses, ChannelBreaks, SourceLost, CopyChunk, SourceOpens, ReceiveAnswer,
     ReceiveOpen, source, sPath, notChannelS, notReceive
<1>5. ASSUME client' = "closed", src' \notin Early PROVE ClientInv'
  BY <1>5 DEF ClientInv
<1>6. CASE SelectDone \/ SelectTimeout \/ ReadForwardEnds \/ CopyEnds \/ CopyFails
  <2>1. client' = "closed" /\ src' = "done"
    BY <1>6 DEF SelectDone, SelectTimeout, ReadForwardEnds, CopyEnds, CopyFails, CopyStops, Finish
  <2> QED
    BY <1>5, <2>1
<1>7. CASE Connect \/ SelectRelay
  <2>1. \/ client' = "closed" /\ src' = "done"
        \/ src \in Early /\ UNCHANGED <<fwd, client, sLocal, heard>>
    BY <1>7 DEF Connect, SelectRelay, Finish, sPath
  <2>2. ASSUME src \in Early, UNCHANGED <<fwd, client, sLocal, heard>> PROVE ClientInv'
    BY <2>2 DEF ClientInv
  <2> QED
    BY <1>5, <2>1, <2>2
<1>8. CASE StartDirectOffer \/ DirectOfferFails
  <2>1. src \in Early /\ UNCHANGED <<fwd, client, sLocal, heard>>
    BY <1>8 DEF StartDirectOffer, DirectOfferFails
  <2> QED
    BY <2>1 DEF ClientInv
<1>9. CASE SelectDirect
  <2>1. \/ client' = "closed" /\ src' = "done"
        \/ src' = "direct" /\ UNCHANGED <<fwd, client>>
    BY <1>9 DEF SelectDirect, Finish
  <2> QED
    BY <1>5, <2>1 DEF ClientInv
<1>10. CASE ClientEnds
  <2>1. client = "open" /\ UNCHANGED <<src, fwd, sLocal, heard>>
    BY <1>10 DEF ClientEnds, sPath
  <2> QED
    BY <2>1 DEF ClientInv
<1>11. CASE ReceiveError \/ ReceiveClose
  <2>1. (client' = "closed" \/ (~fwd /\ client' = client)) /\ UNCHANGED <<src, sLocal, heard>>
    BY <1>11 DEF ReceiveError, ReceiveClose, sPath, notReceive
  <2> QED
    BY <2>1 DEF ClientInv
<1>12. CASE ReceiveData
  <2>1. (heard' = heard \/ heard' = Append(heard, Relayed)) /\ UNCHANGED <<src, fwd, client, sLocal>>
    BY <1>12 DEF ReceiveData, sPath, notReceive
  <2>2. ASSUME heard' = Append(heard, Relayed), src \in Early PROVE \A i \in 1..Len(heard') : heard'[i] = Relayed
    <3>1. heard \in Seq(Nat) /\ Relayed \in Nat
      BY DEF TypeOK, Relayed
    <3>2. \A i \in 1..Len(heard) : heard[i] = Relayed
      BY <2>2 DEF ClientInv
    <3> QED
      BY <2>2, <3>1, <3>2, AppendNumber
  <2> QED
    BY <1>1, <2>1, <2>2 DEF ClientInv
<1>13. CASE SourceMessage
  <2>1. (sLocal \/ heard' = heard) /\ UNCHANGED <<src, fwd, client, sLocal>>
    BY <1>13 DEF SourceMessage, notChannelS
  <2> QED
    BY <1>1, <2>1 DEF ClientInv
<1>14. CASE CleanupSource
  <2>1. (client' = "closed" \/ (~fwd /\ client' = client)) /\ sLocal' = FALSE /\ UNCHANGED <<src, heard>>
    BY <1>14 DEF CleanupSource
  <2> QED
    BY <2>1 DEF ClientInv
<1> QED
  BY <1>2, <1>3, <1>6, <1>7, <1>8, <1>9, <1>10, <1>11, <1>12, <1>13, <1>14 DEF Next, Step, Free, Event, Source

\* A step that leaves the stream to the client alone keeps it in order.
LEMMA HeardKept ==
  ASSUME HeardInv, UNCHANGED <<s2c, sPend, heard>>, tChan' = tChan \/ tChan' = "closed",
         down' = down \/ tChan = "closed", bridge' = bridge \/ bridge # "none",
         client = "closed" => client' = "closed", fell => fell', sLocal => sLocal'
  PROVE  HeardInv'
<1>1. tChan' = "none" => tChan = "none" /\ bridge' = "none" /\ down' = 0 /\ s2c' = <<>> /\ sPend' = 0
  BY DEF HeardInv
<1>2. ASSUME client' # "closed", ~fell'
      PROVE  /\ \A i \in 1..Len(heard) : heard[i] = sPend + i
             /\ \A i \in 1..Len(s2c) : s2c[i] = sPend + Len(heard) + i
             /\ tChan' = "open" => down' = sPend + Len(heard) + Len(s2c)
             /\ tChan' = "none" \/ ~sLocal' => heard = <<>>
  BY <1>2 DEF HeardInv
<1> QED
  BY <1>1, <1>2 DEF HeardInv

\* OnMessage of the source: the chunk is the next one of the stream.
LEMMA SourceMessageHeard == ASSUME TypeOK, HeardInv, SourceMessage PROVE HeardInv'
<1>1. /\ s2c # <<>> /\ s2c' = Tail(s2c) /\ UNCHANGED <<tChan, bridge, down, client>>
      /\ \/ sLocal /\ client # "closed" /\ heard' = Append(heard, Head(s2c)) /\ sPend' = sPend
         \/ client = "closed"
         \/ ~sLocal /\ sPend' = sPend + 1 /\ heard' = heard
  BY DEF SourceMessage, notChannelS, target, tPath
<1>2. fell' = fell
  BY DEF SourceMessage, notChannelS, server
<1>3. sLocal' = sLocal
  BY DEF SourceMessage
<1>4. tChan # "none"
  BY <1>1 DEF HeardInv
<1>5. CASE client = "closed" \/ fell
  BY <1>1, <1>2, <1>4, <1>5 DEF HeardInv
<1>6. CASE client # "closed" /\ ~fell
  <2>1. /\ \A i \in 1..Len(heard) : heard[i] = sPend + i
        /\ \A i \in 1..Len(s2c) : s2c[i] = sPend + Len(heard) + i
        /\ tChan = "open" => down = sPend + Len(heard) + Len(s2c)
        /\ ~sLocal => heard = <<>>
    BY <1>6 DEF HeardInv
  <2>2. sPend \in Nat /\ down \in Nat /\ heard \in Seq(Nat) /\ s2c \in Seq(Nat) /\ Len(heard) \in Nat
    BY LenProperties DEF TypeOK
  <2>3. /\ Head(s2c) \in Nat /\ Head(s2c) = s2c[1] /\ Len(s2c) \in Nat /\ Len(s2c) >= 1 /\ 1 \in 1..Len(s2c)
        /\ Len(s2c') = Len(s2c) - 1
        /\ \A i \in 1..Len(s2c') : s2c'[i] = s2c[i + 1] /\ i + 1 \in 1..Len(s2c)
    BY <1>1, <2>2, TakeNumber
  <2>4. Head(s2c) = sPend + Len(heard) + 1
    BY <2>1, <2>3
  <2>5. \A i \in 1..Len(s2c') : s2c'[i] = sPend + Len(heard) + (i + 1)
    BY <2>1, <2>3
  <2>6. CASE sLocal /\ heard' = Append(heard, Head(s2c)) /\ sPend' = sPend
    <3>1. /\ Len(heard') = Len(heard) + 1
          /\ \A i \in 1..Len(heard) : heard'[i] = heard[i]
          /\ heard'[Len(heard) + 1] = Head(s2c)
          /\ \A i \in 1..Len(heard') : i \in 1..Len(heard) \/ i = Len(heard) + 1
      BY <2>2, <2>3, <2>6, AppendNumber
    <3>2. \A i \in 1..Len(heard') : heard'[i] = sPend' + i
      <4>1. ASSUME NEW i \in 1..Len(heard') PROVE heard'[i] = sPend' + i
        <5>1. CASE i \in 1..Len(heard)
          BY <2>1, <2>6, <3>1, <5>1
        <5>2. CASE i = Len(heard) + 1
          BY <2>2, <2>4, <2>6, <3>1, <5>2
        <5> QED
          BY <3>1, <5>1, <5>2
      <4> QED
        BY <4>1
    <3>3. \A i \in 1..Len(s2c') : s2c'[i] = sPend' + Len(heard') + i
      BY <2>2, <2>5, <2>6, <3>1
    <3>4. tChan' = "open" => down' = sPend' + Len(heard') + Len(s2c')
      BY <1>1, <2>1, <2>2, <2>3, <2>6, <3>1
    <3>5. sLocal'
      BY <1>3, <2>6
    <3> QED
      BY <1>1, <1>4, <3>2, <3>3, <3>4, <3>5 DEF HeardInv
  <2>7. CASE ~sLocal /\ sPend' = sPend + 1 /\ heard' = heard
    <3>1. heard = <<>>
      BY <2>1, <2>7
    <3>2. heard' = <<>> /\ Len(heard) = 0 /\ Len(heard') = 0
      BY <2>7, <3>1, EmptySeq
    <3>3. \A i \in 1..Len(heard') : heard'[i] = sPend' + i
      BY <3>2
    <3>4. \A i \in 1..Len(s2c') : s2c'[i] = sPend' + Len(heard') + i
      BY <2>2, <2>5, <2>7, <3>2
    <3>5. tChan' = "open" => down' = sPend' + Len(heard') + Len(s2c')
      BY <1>1, <2>1, <2>2, <2>3, <2>7, <3>2
    <3> QED
      BY <1>1, <1>4, <3>2, <3>3, <3>4, <3>5 DEF HeardInv
  <2> QED
    BY <1>1, <1>6, <2>6, <2>7
<1> QED
  BY <1>5, <1>6

\* A read of the service is the next chunk of the stream.
LEMMA BridgeChunkHeard == ASSUME TypeOK, HeardInv, BridgeChunk PROVE HeardInv'
<1>1. /\ tChan = "open" /\ down' = down + 1 /\ s2c' = Append(s2c, down + 1)
      /\ UNCHANGED <<tChan, client, sPend, heard>>
  BY DEF BridgeChunk, notBridge, notTarget, source, sPath
<1>2. fell' = fell
  BY DEF BridgeChunk, notBridge, notTarget, server
<1>3. sLocal' = sLocal
  BY DEF BridgeChunk, notBridge, notTarget, source, sPath
<1>4. SUFFICES ASSUME client # "closed", ~fell
      PROVE  /\ \A i \in 1..Len(s2c') : s2c'[i] = sPend + Len(heard) + i
             /\ down' = sPend + Len(heard) + Len(s2c')
  <2>1. tChan' # "none"
    BY <1>1
  <2>2. ASSUME client # "closed", ~fell
        PROVE  (\A i \in 1..Len(heard) : heard[i] = sPend + i) /\ (~sLocal => heard = <<>>)
    BY <2>2 DEF HeardInv
  <2> QED
    BY <1>1, <1>2, <1>3, <2>1, <2>2 DEF HeardInv
<1>5. /\ \A i \in 1..Len(s2c) : s2c[i] = sPend + Len(heard) + i
      /\ down = sPend + Len(heard) + Len(s2c)
  BY <1>1, <1>4 DEF HeardInv
<1>6. sPend \in Nat /\ down \in Nat /\ down + 1 \in Nat /\ s2c \in Seq(Nat) /\ Len(heard) \in Nat
  BY LenProperties DEF TypeOK
<1>7. /\ Len(s2c) \in Nat /\ Len(s2c') = Len(s2c) + 1
      /\ \A i \in 1..Len(s2c) : s2c'[i] = s2c[i]
      /\ s2c'[Len(s2c) + 1] = down + 1
      /\ \A i \in 1..Len(s2c') : i \in 1..Len(s2c) \/ i = Len(s2c) + 1
  BY <1>1, <1>6, AppendNumber
<1>8. ASSUME NEW i \in 1..Len(s2c') PROVE s2c'[i] = sPend + Len(heard) + i
  <2>1. CASE i \in 1..Len(s2c)
    BY <1>5, <1>7, <2>1
  <2>2. CASE i = Len(s2c) + 1
    BY <1>5, <1>6, <1>7, <2>2
  <2> QED
    BY <1>7, <2>1, <2>2
<1> QED
  BY <1>1, <1>5, <1>6, <1>7, <1>8

\* Every step keeps the client's stream in order.
LEMMA NextHeardInv == ASSUME TypeOK, QueueInv, ClientInv, HeardInv, Next PROVE HeardInv'
<1>1. fell => fell'
  BY RelayStarts, ZenonT(30)
<1>2. CASE \/ Connect \/ StartDirectOffer \/ SelectDone \/ SelectRelay \/ SelectDirect \/ SelectTimeout
           \/ CopyEnds \/ CopyFails \/ ReadForwardEnds \/ DirectOfferFails
  <2>1. UNCHANGED <<s2c, sPend, heard, tChan, down, bridge>>
    BY <1>2, ZenonT(30) DEF Connect, StartDirectOffer, SelectDone, SelectRelay, SelectDirect, SelectTimeout,
       CopyEnds, CopyFails, CopyStops, ReadForwardEnds, DirectOfferFails, sPath, notSource, target, tPath, channel
  <2>2. client = "closed" => client' = "closed"
    BY <1>2, ZenonT(30) DEF Connect, StartDirectOffer, SelectDone, SelectRelay, SelectDirect, SelectTimeout,
       CopyEnds, CopyFails, CopyStops, ReadForwardEnds, DirectOfferFails, Finish
  <2>3. sLocal => sLocal'
    BY <1>2, ZenonT(30) DEF Connect, StartDirectOffer, SelectDone, SelectRelay, SelectDirect, SelectTimeout,
       CopyEnds, CopyFails, CopyStops, ReadForwardEnds, DirectOfferFails, sPath
  <2> QED
    BY <1>1, <2>1, <2>2, <2>3, HeardKept
<1>3. CASE CopyChunk \/ ClientEnds \/ SourceOpens \/ ReceiveAnswer \/ ReceiveOpen \/ ReceiveError \/ ReceiveClose
           \/ SourceLost
  <2>1. UNCHANGED <<s2c, sPend, heard, tChan, down, bridge>>
    BY <1>3, ZenonT(30) DEF CopyChunk, ClientEnds, SourceOpens, ReceiveAnswer, ReceiveOpen, ReceiveError, ReceiveClose,
       SourceLost, source, sPath, notSource, notReceive, notChannelS, target, tPath, channel
  <2>2. client = "closed" => client' = "closed"
    BY <1>3, ZenonT(30) DEF CopyChunk, ClientEnds, SourceOpens, ReceiveAnswer, ReceiveOpen, ReceiveError, ReceiveClose,
       SourceLost, source, notChannelS
  <2>3. sLocal' = sLocal
    BY <1>3 DEF CopyChunk, ClientEnds, SourceOpens, ReceiveAnswer, ReceiveOpen, ReceiveError, ReceiveClose,
       SourceLost, source, sPath
  <2> QED
    BY <1>1, <2>1, <2>2, <2>3, HeardKept
<1>4. CASE ReceiveData
  <2>1. UNCHANGED <<s2c, sPend, tChan, down, bridge, client>>
    BY <1>4 DEF ReceiveData, sPath, notReceive, target, tPath, channel
  <2>2. fell
    <3>1. ts # <<>> /\ Head(ts) = "data"
      BY <1>4 DEF ReceiveData, FromServer
    <3>2. Head(ts) \in ToSourceKinds
      BY <3>1, Queues DEF QueueInv
    <3> QED
      BY <3>1, <3>2 DEF ToSourceKinds, IfFell
  <2> QED
    BY <1>1, <2>1, <2>2 DEF HeardInv
<1>5. CASE SourceMessage
  BY <1>5, SourceMessageHeard
<1>6. CASE CleanupSource
  <2>1. UNCHANGED <<s2c, heard, tChan, down, bridge>> /\ sPend' = 0
    BY <1>6 DEF CleanupSource, target, tPath, channel
  <2>2. client' = "closed"
    BY <1>6 DEF CleanupSource, ClientInv
  <2> QED
    BY <2>1, <2>2 DEF HeardInv
<1>7. CASE Server
  <2>1. UNCHANGED <<s2c, sPend, heard, tChan, down, bridge, client>>
    BY <1>7, ZenonT(30) DEF Server, ServeConnect, ServeDirectOK, RelayFromSource, RelayFromTarget, Fallback,
       CloseAgentForwards, notServer, source, sPath, target, tPath, channel
  <2>2. sLocal' = sLocal
    BY <1>7, NotTheSource DEF source, sPath
  <2> QED
    BY <1>1, <2>1, <2>2, HeardKept, ZenonT(30)
<1>8. CASE \/ ReceiveOffer \/ HandleDirectOffer \/ HandleDirectOfferFails \/ OnDataChannel \/ TargetOpens
           \/ BridgeDial \/ BridgeDialFails \/ BridgeFlush \/ BridgeStart \/ BridgeEnds \/ BridgeFails
           \/ ServiceEnds \/ TargetMessage
  <2>1. UNCHANGED <<sPend, heard, client>> /\ sLocal' = sLocal
    <3>1. UNCHANGED source
      BY <1>8, NotTheSource DEF Target
    <3> QED
      BY <3>1 DEF source, sPath
  <2>2. UNCHANGED <<s2c, tChan>>
    BY <1>8, ZenonT(30), ZenonT(30) DEF ReceiveOffer, HandleDirectOffer, HandleDirectOfferFails, OnDataChannel,
       TargetOpens, notCallback, notTarget, BridgeDial, BridgeDialFails,
       BridgeFlush, BridgeStart, BridgeEnds, BridgeFails, BridgeStops, ServiceEnds, TargetMessage, notBridge,
       tPath, channel
  <2>3. (down' = down \/ tChan = "closed") /\ (bridge' = bridge \/ bridge # "none")
    BY <1>8 DEF ReceiveOffer, HandleDirectOffer, HandleDirectOfferFails, OnDataChannel, TargetOpens, notCallback,
       notTarget, BridgeDial, BridgeDialFails,
       BridgeFlush, BridgeStart, BridgeEnds, BridgeFails, BridgeStops, ServiceEnds, TargetMessage
  <2> QED
    BY <1>1, <2>1, <2>2, <2>3, HeardKept
<1>9. CASE \/ ReceiveConnect \/ ReceiveCloseT \/ RelayDial \/ RelayDialFails \/ RelayChunk \/ RelayServiceEnds
           \/ TargetLost \/ CleanupTarget
  <2>1. UNCHANGED <<sPend, heard, client>> /\ sLocal' = sLocal
    <3>1. UNCHANGED source
      BY <1>9, NotTheSource, ZenonT(30) DEF Target
    <3> QED
      BY <3>1 DEF source, sPath
  <2>2. UNCHANGED <<s2c, down, bridge>> /\ (tChan' = tChan \/ tChan' = "closed")
    BY <1>9 DEF ReceiveConnect, ReceiveCloseT, RelayDial, RelayDialFails, RelayChunk, RelayServiceEnds,
       TargetLost, CleanupTarget, notRelay, target, tPath, channel
  <2> QED
    BY <1>1, <2>1, <2>2, HeardKept
<1>10. CASE BridgeChunk
  BY <1>10, BridgeChunkHeard
<1>11. CASE TargetChannel
  <2>1. tChan = "none" /\ tChan' = "open" /\ UNCHANGED <<s2c, down, sPend, heard, client>>
    BY <1>11 DEF TargetChannel, notCallback, channel, notTarget, source, sPath
  <2>2. down' = 0 /\ sPend' = 0 /\ s2c' = <<>> /\ Len(s2c') = 0
    BY <2>1, EmptySeq DEF HeardInv
  <2>3. ASSUME client' # "closed", ~fell' PROVE heard' = <<>> /\ Len(heard') = 0
    BY <1>1, <2>1, <2>3, EmptySeq DEF HeardInv
  <2>4. ASSUME client' # "closed", ~fell'
        PROVE  /\ \A i \in 1..Len(heard') : heard'[i] = sPend' + i
               /\ \A i \in 1..Len(s2c') : s2c'[i] = sPend' + Len(heard') + i
               /\ down' = sPend' + Len(heard') + Len(s2c')
    BY <2>2, <2>3, <2>4
  <2> QED
    BY <2>1, <2>3, <2>4 DEF HeardInv
<1>12. CASE ChannelCloses
  <2>1. UNCHANGED <<s2c, sPend, heard, down, bridge, client>> /\ (tChan' = tChan \/ tChan' = "closed")
    BY <1>12, ZenonT(30) DEF ChannelCloses, channel
  <2>2. sLocal' = sLocal
    BY <1>12 DEF ChannelCloses
  <2> QED
    BY <1>1, <2>1, <2>2, HeardKept
<1>13. CASE ChannelBreaks
  <2>1. tChan = "open" /\ tChan' = "closed" /\ s2c' = <<>> /\ UNCHANGED <<sPend, heard, client>>
    BY <1>13 DEF ChannelBreaks
  <2>2. sLocal' = sLocal
    BY <1>13 DEF ChannelBreaks
  <2>3. Len(s2c') = 0
    BY <2>1, EmptySeq
  <2>4. \A i \in 1..Len(s2c') : s2c'[i] = sPend' + Len(heard') + i
    BY <2>3
  <2> QED
    BY <1>1, <2>1, <2>2, <2>4 DEF HeardInv
<1> QED
  BY <1>2, <1>3, <1>4, <1>5, <1>6, <1>7, <1>8, <1>9, <1>10, <1>11, <1>12, <1>13
     DEF Next, Step, Free, Event, Source, Target

-----------------------------------------------------------------------------
(* The bridge and its service.                                             *)

\* The source and the server leave the target's bridge alone.
LEMMA NotTheTarget ==
  ASSUME \/ Source \/ CopyChunk \/ CopyFails \/ ClientEnds \/ SourceOpens \/ DirectOfferFails \/ SourceLost
         \/ Server
  PROVE  UNCHANGED <<target, tCtl>>
<1>1. CASE Server
  BY <1>1, ZenonT(30), ZenonT(30) DEF Server, ServeConnect, ServeDirectOK, RelayFromSource, RelayFromTarget, Fallback,
     CloseAgentForwards, notServer, ctl
<1>2. CASE Source
  BY <1>2, ZenonT(30) DEF Source, Connect, StartDirectOffer, SelectDone, SelectRelay, SelectDirect, SelectTimeout,
     CopyEnds,
     ReadForwardEnds, ReceiveAnswer, ReceiveOpen, ReceiveError, ReceiveData, ReceiveClose, SourceMessage,
     CleanupSource, CopyStops, notSource, notReceive, notChannelS, ctl
<1> QED
  BY <1>1, <1>2 DEF CopyChunk, CopyFails, CopyStops, ClientEnds, SourceOpens, DirectOfferFails, SourceLost,
     notSource, notChannelS, ctl

\* The steps that leave the bridge, its socket and the chunks it has alone.
LEMMA NotTheBridge ==
  ASSUME \/ Source \/ CopyChunk \/ CopyFails \/ ClientEnds \/ SourceOpens \/ DirectOfferFails \/ SourceLost
         \/ Server \/ ReceiveOffer \/ HandleDirectOffer \/ HandleDirectOfferFails \/ ReceiveConnect
         \/ ReceiveCloseT \/ RelayDial \/ RelayDialFails \/ RelayChunk \/ RelayServiceEnds \/ ChannelCloses
         \/ ChannelBreaks
  PROVE  UNCHANGED <<bridge, svc, flush, got, raced, tLocal, tPend, tCtl>>
<1>1. CASE Source \/ CopyChunk \/ CopyFails \/ ClientEnds \/ SourceOpens \/ DirectOfferFails \/ SourceLost
           \/ Server
  BY <1>1, NotTheTarget, ZenonT(30) DEF target, tPath
<1>2. CASE ReceiveOffer \/ HandleDirectOffer \/ HandleDirectOfferFails
  BY <1>2 DEF ReceiveOffer, HandleDirectOffer, HandleDirectOfferFails, tPath, notTarget, ctl
<1>3. CASE \/ ReceiveConnect \/ ReceiveCloseT \/ RelayDial \/ RelayDialFails \/ RelayChunk \/ RelayServiceEnds
  BY <1>3, ZenonT(30), ZenonT(30) DEF ReceiveConnect, ReceiveCloseT, RelayDial, RelayDialFails, RelayChunk,
     RelayServiceEnds,
     notRelay, tPath, notTarget, ctl
<1>4. CASE ChannelCloses \/ ChannelBreaks
  BY <1>4, ZenonT(30) DEF ChannelCloses, ChannelBreaks, ctl
<1> QED
  BY <1>1, <1>2, <1>3, <1>4

\* A socket of the bridge is known to OnMessage, which then leaves nothing pending.
LEMMA NextBridgeInv == ASSUME TypeOK, HeardInv, BridgeInv, Next PROVE BridgeInv'
<1>1. CASE \/ Source \/ CopyChunk \/ CopyFails \/ ClientEnds \/ SourceOpens \/ DirectOfferFails \/ SourceLost
           \/ Server \/ ReceiveOffer \/ HandleDirectOffer \/ HandleDirectOfferFails \/ ReceiveConnect
           \/ ReceiveCloseT \/ RelayDial \/ RelayDialFails \/ RelayChunk \/ RelayServiceEnds \/ ChannelCloses
           \/ ChannelBreaks
  <2>1. UNCHANGED <<bridge, svc, flush, got, raced, tLocal, tPend, tCtl>>
    BY <1>1, NotTheBridge
  <2> QED
    BY <2>1 DEF BridgeInv
<1>2. CASE TargetChannel \/ OnDataChannel \/ TargetOpens
  <2>1. /\ tChan = "none" \/ bridge \in {"accept", "opened"}
        /\ bridge' \in {"accept", "opened", "dial"}
        /\ UNCHANGED <<svc, flush, got, tPend, tCtl>>
    BY <1>2 DEF TargetChannel, OnDataChannel, TargetOpens, notCallback, notTarget, ctl
  <2>2. UNCHANGED <<raced, tLocal>>
    BY <1>2 DEF TargetChannel, OnDataChannel, TargetOpens, notCallback
  <2>3. svc = "none"
    BY <2>1 DEF HeardInv, BridgeInv
  <2> QED
    BY <2>1, <2>2, <2>3 DEF BridgeInv
<1>3. CASE BridgeDial
  <2>1. bridge' = "flush" /\ svc' = "open" /\ tPend' = <<>> /\ tLocal' = TRUE
    BY <1>3 DEF BridgeDial
  <2> QED
    BY <2>1 DEF BridgeInv
<1>4. CASE BridgeDialFails
  <2>1. bridge = "dial" /\ bridge' = "done" /\ UNCHANGED <<svc, flush, got, tPend, tCtl>>
    BY <1>4 DEF BridgeDialFails, notBridge, notTarget, ctl
  <2>2. UNCHANGED <<raced, tLocal>>
    BY <1>4 DEF BridgeDialFails
  <2> QED
    BY <2>1, <2>2 DEF BridgeInv
<1>5. CASE BridgeFlush
  <2>1. bridge = "flush" /\ UNCHANGED <<bridge, svc, tPend, tCtl>>
    BY <1>5 DEF BridgeFlush, notBridge, notTarget, ctl
  <2>2. tLocal' = tLocal
    BY <1>5 DEF BridgeFlush
  <2>3. svc # "none"
    BY <2>1 DEF BridgeInv
  <2> QED
    BY <2>1, <2>2, <2>3 DEF BridgeInv
<1>6. CASE BridgeStart \/ BridgeEnds \/ BridgeFails \/ ServiceEnds
  <2>1. /\ bridge \in {"flush", "read"} \/ (svc = "open" /\ bridge' = bridge)
        /\ svc' = svc \/ svc' = "closed" \/ (svc = "open" /\ svc' = "eof")
        /\ bridge' \in {"read", "done"} \/ bridge' = bridge
        /\ UNCHANGED <<tPend, tCtl>>
    BY <1>6 DEF BridgeStart, BridgeEnds, BridgeFails, BridgeStops, ServiceEnds, notBridge, notTarget, ctl
  <2>2. tLocal' = tLocal
    BY <1>6 DEF BridgeStart, BridgeEnds, BridgeFails, BridgeStops, ServiceEnds
  <2>3. svc # "none" /\ svc' # "none"
    BY <2>1 DEF BridgeInv
  <2>4. bridge' \notin {"none", "accept", "opened", "dial"}
    BY <2>1, <2>3 DEF BridgeInv
  <2> QED
    BY <2>1, <2>2, <2>3, <2>4, ZenonT(30) DEF BridgeInv
<1>7. CASE BridgeChunk \/ TargetLost
  <2>1. UNCHANGED <<bridge, svc, flush, got, tPend>> /\ (tCtl' = "clean" => tCtl = "clean")
    BY <1>7 DEF BridgeChunk, TargetLost, target, tPath, notBridge, notTarget, ctl
  <2>2. UNCHANGED <<raced, tLocal>>
    BY <1>7 DEF BridgeChunk, TargetLost, target, tPath
  <2>3. tCtl' # "clean" => tCtl # "clean"
    BY <1>7 DEF BridgeChunk, TargetLost, notBridge, notTarget, ctl
  <2> QED
    BY <2>1, <2>2, <2>3 DEF BridgeInv
<1>8. CASE TargetMessage
  <2>1. UNCHANGED <<bridge, svc, flush, tCtl>>
    BY <1>8 DEF TargetMessage, notBridge, notTarget, ctl
  <2>2. tLocal' = tLocal
    BY <1>8 DEF TargetMessage
  <2>3. (tLocal /\ tPend' = tPend) \/ (~tLocal /\ got' = got /\ raced' = raced)
    BY <1>8 DEF TargetMessage
  <2>4. CASE tLocal /\ tPend' = tPend
    BY <2>1, <2>2, <2>4 DEF BridgeInv
  <2>5. CASE ~tLocal /\ got' = got /\ raced' = raced
    BY <2>1, <2>2, <2>5 DEF BridgeInv
  <2> QED
    BY <2>3, <2>4, <2>5
<1>9. CASE CleanupTarget
  <2>1. tCtl' = "clean" /\ UNCHANGED <<bridge, flush, got>>
    BY <1>9 DEF CleanupTarget
  <2>2. raced' = raced /\ tLocal' = FALSE
    BY <1>9 DEF CleanupTarget
  <2>3. (tLocal /\ svc' = "closed") \/ (~tLocal /\ svc' = svc)
    BY <1>9 DEF CleanupTarget
  <2>4. svc = "none" => svc' = "none"
    BY <2>3 DEF BridgeInv
  <2>5. svc' = "none" => svc = "none"
    BY <2>3, ZenonT(30)
  <2> QED
    BY <2>1, <2>2, <2>4, <2>5 DEF BridgeInv
<1> QED
  BY <1>1, <1>2, <1>3, <1>4, <1>5, <1>6, <1>7, <1>8, <1>9 DEF Next, Step, Free, Event, Target

\* A step that leaves the stream to the service alone keeps it in order.
LEMMA ServiceKept ==
  ASSUME ServiceInv, UNCHANGED <<c2s, got, flush, tPend>>, raced' = raced,
         sChan' = sChan \/ sChan' = "closed", up' = up \/ sChan = "closed", Lasts' => Lasts
  PROVE  ServiceInv'
<1>1. Taken' = Taken
  BY DEF Taken
<1>2. sChan' = "none" => up' = 0 /\ c2s' = <<>> /\ Taken' = 0
  BY <1>1, ZenonT(30) DEF ServiceInv
<1>3. ASSUME Lasts'
      PROVE  /\ \A i \in 1..Len(tPend) : tPend[i] = i
             /\ raced => Elements(got) \cup Elements(flush) = 1..(Len(got) + Len(flush))
             /\ ~raced => /\ \A i \in 1..Len(got) : got[i] = i
                          /\ \A i \in 1..Len(flush) : flush[i] = Len(got) + i
             /\ \A i \in 1..Len(c2s) : c2s[i] = Taken + i
             /\ sChan' = "open" => up' = Taken + Len(c2s)
  <2>1. Lasts
    BY <1>3
  <2> QED
    BY <2>1 DEF ServiceInv
<1>4. Elements(got)' = Elements(got) /\ Elements(flush)' = Elements(flush)
  BY DEF Elements
<1> QED
  BY <1>1, <1>2, <1>3, <1>4 DEF ServiceInv

\* Chunks that are in order are complete.
LEMMA Ordered ==
  ASSUME TypeOK, \A i \in 1..Len(got) : got[i] = i, \A i \in 1..Len(flush) : flush[i] = Len(got) + i
  PROVE  Elements(got) \cup Elements(flush) = 1..(Len(got) + Len(flush))
<1>1. /\ Len(got) \in Nat /\ Len(flush) \in Nat
      /\ DOMAIN got = 1..Len(got) /\ DOMAIN flush = 1..Len(flush)
  BY LenProperties DEF TypeOK
<1>2. /\ \A x \in Elements(got) : \E i \in 1..Len(got) : x = i
      /\ \A x \in Elements(flush) : \E i \in 1..Len(flush) : x = Len(got) + i
  BY <1>1 DEF Elements
<1>3. /\ \A x \in Elements(got) : x \in 1..(Len(got) + Len(flush))
      /\ \A x \in Elements(flush) : x \in 1..(Len(got) + Len(flush))
  BY <1>1, <1>2
<1>4. ASSUME NEW x \in 1..(Len(got) + Len(flush)) PROVE x \in Elements(got) \cup Elements(flush)
  <2>1. CASE x \in 1..Len(got)
    <3>1. got[x] = x
      BY <2>1
    <3> QED
      BY <1>1, <2>1, <3>1 DEF Elements
  <2>2. CASE x - Len(got) \in 1..Len(flush)
    <3>1. flush[x - Len(got)] = x
      BY <1>1, <2>2
    <3> QED
      BY <1>1, <2>2, <3>1 DEF Elements
  <2>3. x \in 1..Len(got) \/ x - Len(got) \in 1..Len(flush)
    BY <1>1
  <2> QED
    BY <2>1, <2>2, <2>3
<1> QED
  BY <1>3, <1>4

\* A read of the client is the next chunk for the service.
LEMMA CopyChunkService == ASSUME TypeOK, ServiceInv, CopyChunk PROVE ServiceInv'
<1>1. /\ sChan = "open" /\ up' = up + 1 /\ c2s' = Append(c2s, up + 1)
      /\ UNCHANGED <<sChan, got, flush, tPend, svc, tCtl>>
  BY DEF CopyChunk, sPath, target, tPath, ctl
<1>2. raced' = raced
  BY DEF CopyChunk, target
<1>3. Taken' = Taken /\ Lasts' = Lasts /\ Elements(got)' = Elements(got) /\ Elements(flush)' = Elements(flush)
  BY <1>1 DEF Taken, Lasts, Elements
<1>4. up \in Nat /\ up + 1 \in Nat /\ c2s \in Seq(Nat) /\ Taken \in Nat
  <2>1. Len(got) \in Nat /\ Len(flush) \in Nat /\ Len(tPend) \in Nat
    BY LenProperties DEF TypeOK
  <2> QED
    BY <2>1 DEF TypeOK, Taken
<1>5. /\ Len(c2s) \in Nat /\ Len(c2s') = Len(c2s) + 1
      /\ \A i \in 1..Len(c2s) : c2s'[i] = c2s[i]
      /\ c2s'[Len(c2s) + 1] = up + 1
      /\ \A i \in 1..Len(c2s') : i \in 1..Len(c2s) \/ i = Len(c2s) + 1
  BY <1>1, <1>4, AppendNumber
<1>6. ASSUME Lasts
      PROVE  (\A i \in 1..Len(c2s') : c2s'[i] = Taken + i) /\ up' = Taken + Len(c2s')
  <2>1. up = Taken + Len(c2s) /\ \A i \in 1..Len(c2s) : c2s[i] = Taken + i
    BY <1>1, <1>6 DEF ServiceInv
  <2>2. ASSUME NEW i \in 1..Len(c2s') PROVE c2s'[i] = Taken + i
    <3>1. CASE i \in 1..Len(c2s)
      BY <1>5, <2>1, <3>1
    <3>2. CASE i = Len(c2s) + 1
      BY <1>4, <1>5, <2>1, <3>2
    <3> QED
      BY <1>5, <3>1, <3>2
  <2>3. up' = Taken + Len(c2s')
    BY <1>1, <1>4, <1>5, <2>1
  <2> QED
    BY <2>2, <2>3
<1>7. ASSUME Lasts
      PROVE  /\ \A i \in 1..Len(tPend) : tPend[i] = i
             /\ raced => Elements(got) \cup Elements(flush) = 1..(Len(got) + Len(flush))
             /\ ~raced => /\ \A i \in 1..Len(got) : got[i] = i
                          /\ \A i \in 1..Len(flush) : flush[i] = Len(got) + i
  BY <1>7 DEF ServiceInv
<1> QED
  BY <1>1, <1>2, <1>3, <1>6, <1>7 DEF ServiceInv

\* The lengths that the chunks are counted with.
LEMMA Lengths ==
  ASSUME TypeOK
  PROVE  /\ Len(got) \in Nat /\ Len(flush) \in Nat /\ Len(tPend) \in Nat /\ Len(c2s) \in Nat
         /\ Taken \in Nat /\ up \in Nat
<1>1. Len(got) \in Nat /\ Len(flush) \in Nat /\ Len(tPend) \in Nat /\ Len(c2s) \in Nat
  BY LenProperties, ZenonT(30) DEF TypeOK
<1> QED
  BY <1>1 DEF Taken, TypeOK

\* The dial takes the pending chunks to be flushed.
LEMMA BridgeDialService == ASSUME TypeOK, BridgeInv, ServiceInv, BridgeDial PROVE ServiceInv'
<1>1. /\ bridge = "dial" /\ flush' = tPend /\ tPend' = <<>> /\ svc' = "open"
      /\ UNCHANGED <<sChan, up, c2s, got, tCtl>>
  BY DEF BridgeDial, channel, notBridge, notTarget, source, sPath, ctl
<1>2. raced' = raced
  BY DEF BridgeDial
<1>3. svc = "none" /\ got = <<>> /\ flush = <<>> /\ ~raced
  BY <1>1 DEF BridgeInv
<1>4. Len(got) = 0 /\ Len(flush) = 0 /\ Len(tPend') = 0 /\ Len(got') = 0 /\ Len(flush') = Len(tPend)
  BY <1>1, <1>3, EmptySeq
<1>5. Taken' = Taken /\ Taken = Len(tPend)
  <2>1. Taken = Len(got) + Len(flush) + Len(tPend) /\ Taken' = Len(got') + Len(flush') + Len(tPend')
    BY DEF Taken
  <2>2. Len(tPend) \in Nat
    BY Lengths
  <2> QED
    BY <1>4, <2>1, <2>2
<1>6. ASSUME Lasts'
      PROVE  /\ \A i \in 1..Len(tPend) : tPend[i] = i
             /\ \A i \in 1..Len(c2s) : c2s[i] = Taken + i
             /\ sChan = "open" => up = Taken + Len(c2s)
  <2>1. Lasts
    BY <1>1, <1>3, <1>6 DEF Lasts
  <2> QED
    BY <2>1 DEF ServiceInv
<1>7. ASSUME Lasts' PROVE \A i \in 1..Len(flush') : flush'[i] = Len(got') + i
  BY <1>1, <1>4, <1>6, <1>7
<1>8. (\A i \in 1..Len(got') : got'[i] = i) /\ (\A i \in 1..Len(tPend') : tPend'[i] = i)
  BY <1>4
<1>9. ~raced'
  BY <1>2, <1>3
<1>10. sChan = "none" => up = 0 /\ c2s = <<>> /\ Taken = 0
  BY DEF ServiceInv
<1> QED
  BY <1>1, <1>5, <1>6, <1>7, <1>8, <1>9, <1>10 DEF ServiceInv

\* The flush writes the oldest of the pending chunks.
LEMMA BridgeFlushService == ASSUME TypeOK, BridgeInv, ServiceInv, BridgeFlush PROVE ServiceInv'
<1>1. /\ bridge = "flush" /\ flush # <<>> /\ flush' = Tail(flush)
      /\ got' = IF svc \in {"open", "eof"} THEN Append(got, Head(flush)) ELSE got
      /\ UNCHANGED <<sChan, up, c2s, tPend, svc, tCtl>>
  BY DEF BridgeFlush, Written, channel, notBridge, notTarget, source, sPath, ctl
<1>2. raced' = raced
  BY DEF BridgeFlush
<1>3. got \in Seq(Nat) /\ flush \in Seq(Nat)
  BY DEF TypeOK
<1>4. /\ Len(got) \in Nat /\ Len(flush) \in Nat /\ Len(tPend) \in Nat
      /\ Taken = Len(got) + Len(flush) + Len(tPend) /\ Taken' = Len(got') + Len(flush') + Len(tPend')
  BY Lengths DEF Taken
<1>5. /\ Head(flush) \in Nat /\ Head(flush) = flush[1] /\ Len(flush) >= 1 /\ 1 \in 1..Len(flush)
      /\ Len(flush') = Len(flush) - 1
      /\ \A i \in 1..Len(flush') : flush'[i] = flush[i + 1] /\ i + 1 \in 1..Len(flush)
      /\ Elements(flush) = {Head(flush)} \cup Elements(Tail(flush))
  BY <1>1, <1>3, TakeNumber
<1>6. sChan # "none"
  <2>1. Taken # 0
    BY <1>4, <1>5
  <2> QED
    BY <2>1 DEF ServiceInv
<1>7. CASE ~Lasts
  <2>1. ~Lasts'
    BY <1>1, <1>7, ZenonT(30) DEF Lasts
  <2> QED
    BY <1>1, <1>6, <2>1 DEF ServiceInv
<1>8. CASE Lasts
  <2>1. svc = "open"
    BY <1>1, <1>8 DEF BridgeInv, Lasts
  <2>2. got' = Append(got, Head(flush))
    BY <1>1, <2>1
  <2>3. /\ Len(got') = Len(got) + 1
        /\ \A i \in 1..Len(got) : got'[i] = got[i]
        /\ got'[Len(got) + 1] = Head(flush)
        /\ \A i \in 1..Len(got') : i \in 1..Len(got) \/ i = Len(got) + 1
        /\ Elements(got') = Elements(got) \cup {Head(flush)}
    BY <1>3, <1>5, <2>2, AppendNumber
  <2>4. Taken' = Taken /\ Len(got') + Len(flush') = Len(got) + Len(flush)
    <3>1. Len(tPend') = Len(tPend)
      BY <1>1
    <3> QED
      BY <1>4, <1>5, <2>3, <3>1
  <2>5. Elements(got') \cup Elements(flush') = Elements(got) \cup Elements(flush)
    BY <1>1, <1>5, <2>3
  <2>6. raced' => Elements(got') \cup Elements(flush') = 1..(Len(got') + Len(flush'))
    <3>1. raced => Elements(got) \cup Elements(flush) = 1..(Len(got) + Len(flush))
      BY <1>8 DEF ServiceInv
    <3> QED
      BY <1>2, <2>4, <2>5, <3>1
  <2>7. ASSUME ~raced
        PROVE  /\ \A i \in 1..Len(got') : got'[i] = i
               /\ \A i \in 1..Len(flush') : flush'[i] = Len(got') + i
    <3>1. /\ \A i \in 1..Len(got) : got[i] = i
          /\ \A i \in 1..Len(flush) : flush[i] = Len(got) + i
      BY <1>8, <2>7 DEF ServiceInv
    <3>2. Head(flush) = Len(got) + 1
      BY <1>5, <3>1
    <3>3. ASSUME NEW i \in 1..Len(got') PROVE got'[i] = i
      <4>1. CASE i \in 1..Len(got)
        BY <2>3, <3>1, <4>1
      <4>2. CASE i = Len(got) + 1
        BY <2>3, <3>2, <4>2
      <4> QED
        BY <2>3, <4>1, <4>2
    <3>4. ASSUME NEW i \in 1..Len(flush') PROVE flush'[i] = Len(got') + i
      <4>1. flush'[i] = Len(got) + (i + 1) /\ i \in Int
        BY <1>5, <3>1
      <4> QED
        BY <1>4, <2>3, <4>1
    <3> QED
      BY <3>3, <3>4
  <2>8. /\ \A i \in 1..Len(tPend) : tPend[i] = i
        /\ \A i \in 1..Len(c2s) : c2s[i] = Taken + i
        /\ sChan = "open" => up = Taken + Len(c2s)
    BY <1>8 DEF ServiceInv
  <2>9. Elements(got)' = Elements(got') /\ Elements(flush)' = Elements(flush')
    BY DEF Elements
  <2> QED
    BY <1>1, <1>2, <1>6, <2>4, <2>6, <2>7, <2>8, <2>9 DEF ServiceInv
<1> QED
  BY <1>7, <1>8

\* OnMessage of the target: the chunk is the next one, for the service or to wait.
LEMMA TargetMessageService == ASSUME TypeOK, BridgeInv, ServiceInv, TargetMessage PROVE ServiceInv'
<1>1. c2s # <<>> /\ c2s' = Tail(c2s) /\ UNCHANGED <<sChan, up, flush, svc, tCtl>>
  BY DEF TargetMessage, notBridge, notTarget, source, sPath, ctl
<1>2. got \in Seq(Nat) /\ flush \in Seq(Nat) /\ tPend \in Seq(Nat) /\ c2s \in Seq(Nat)
  BY DEF TypeOK
<1>3. /\ Len(got) \in Nat /\ Len(flush) \in Nat /\ Len(tPend) \in Nat /\ Taken \in Nat /\ up \in Nat
      /\ Taken = Len(got) + Len(flush) + Len(tPend) /\ Taken' = Len(got') + Len(flush) + Len(tPend')
  BY <1>1, Lengths DEF Taken
<1>4. /\ Head(c2s) \in Nat /\ Head(c2s) = c2s[1] /\ Len(c2s) \in Nat /\ Len(c2s) >= 1 /\ 1 \in 1..Len(c2s)
      /\ Len(c2s') = Len(c2s) - 1
      /\ \A i \in 1..Len(c2s') : c2s'[i] = c2s[i + 1] /\ i + 1 \in 1..Len(c2s)
  BY <1>1, <1>2, TakeNumber
<1>5. sChan # "none"
  BY <1>1 DEF ServiceInv
<1>6. CASE ~Lasts
  <2>1. ~Lasts'
    BY <1>1, <1>6 DEF Lasts
  <2> QED
    BY <1>1, <1>5, <2>1 DEF ServiceInv
<1>7. CASE Lasts
  <2>1. /\ \A i \in 1..Len(c2s) : c2s[i] = Taken + i
        /\ sChan = "open" => up = Taken + Len(c2s)
        /\ \A i \in 1..Len(tPend) : tPend[i] = i
    BY <1>7 DEF ServiceInv
  <2>2. Head(c2s) = Taken + 1 /\ \A i \in 1..Len(c2s') : c2s'[i] = Taken + (i + 1)
    BY <1>4, <2>1
  <2>3. ASSUME Taken' = Taken + 1
        PROVE  /\ \A i \in 1..Len(c2s') : c2s'[i] = Taken' + i
               /\ sChan = "open" => up = Taken' + Len(c2s')
    <3>1. Taken \in Nat /\ Len(c2s) \in Nat /\ Len(c2s') = Len(c2s) - 1
      BY <1>3, <1>4
    <3>2. ASSUME NEW i \in 1..Len(c2s') PROVE c2s'[i] = Taken' + i
      <4>1. c2s'[i] = Taken + (i + 1) /\ i \in Int
        BY <2>2
      <4> QED
        BY <2>3, <3>1, <4>1
    <3>3. Taken + Len(c2s) = Taken' + Len(c2s')
      BY <2>3, <3>1
    <3> QED
      BY <2>1, <3>2, <3>3
  <2>4. Elements(got)' = Elements(got') /\ Elements(flush)' = Elements(flush)
    BY <1>1, ZenonT(30) DEF Elements
  <2>5. CASE tLocal
    <3>1. svc = "open" /\ tPend = <<>>
      BY <1>7, <2>5 DEF BridgeInv, Lasts
    <3>2. got' = Append(got, Head(c2s)) /\ tPend' = <<>>
      BY <2>5, <3>1 DEF TargetMessage, Written
    <3>3. raced' = (raced \/ flush # <<>>)
      BY <2>5, ZenonT(30) DEF TargetMessage
    <3>4. /\ Len(got') = Len(got) + 1
          /\ \A i \in 1..Len(got) : got'[i] = got[i]
          /\ got'[Len(got) + 1] = Head(c2s)
          /\ \A i \in 1..Len(got') : i \in 1..Len(got) \/ i = Len(got) + 1
          /\ Elements(got') = Elements(got) \cup {Head(c2s)}
      BY <1>2, <1>4, <3>2, AppendNumber
    <3>5. Len(tPend) = 0 /\ Len(tPend') = 0
      BY <3>1, <3>2, EmptySeq
    <3>6. Taken' = Taken + 1 /\ Taken = Len(got) + Len(flush)
      BY <1>3, <3>4, <3>5
    <3>7. Elements(got') \cup Elements(flush) = 1..(Len(got') + Len(flush))
      <4>1. Elements(got) \cup Elements(flush) = 1..(Len(got) + Len(flush))
        <5>1. CASE raced
          BY <1>7, <5>1 DEF ServiceInv
        <5>2. CASE ~raced
          <6>1. /\ \A i \in 1..Len(got) : got[i] = i
                /\ \A i \in 1..Len(flush) : flush[i] = Len(got) + i
            BY <1>7, <5>2 DEF ServiceInv
          <6> QED
            BY <6>1, Ordered
        <5> QED
          BY <5>1, <5>2
      <4>2. Head(c2s) = (Len(got) + Len(flush)) + 1 /\ Len(got') + Len(flush) = (Len(got) + Len(flush)) + 1
        BY <1>3, <2>2, <3>4, <3>6
      <4>3. 1..(Len(got') + Len(flush)) = 1..(Len(got) + Len(flush)) \cup {Head(c2s)}
        <5>1. ASSUME NEW n \in Nat PROVE 1..(n + 1) = (1..n) \cup {n + 1}
          OBVIOUS
        <5>2. Len(got) + Len(flush) \in Nat
          BY <1>3
        <5> QED
          BY <4>2, <5>1, <5>2
      <4> QED
        BY <3>4, <4>1, <4>3
    <3>8. ASSUME ~raced'
          PROVE  /\ \A i \in 1..Len(got') : got'[i] = i
                 /\ \A i \in 1..Len(flush) : flush[i] = Len(got') + i
      <4>1. ~raced /\ flush = <<>>
        BY <3>3, <3>8, ZenonT(30)
      <4>2. Len(flush) = 0
        BY <4>1, EmptySeq
      <4>3. \A i \in 1..Len(got) : got[i] = i
        BY <1>7, <4>1 DEF ServiceInv
      <4>4. Head(c2s) = Len(got) + 1
        BY <1>3, <2>2, <3>6, <4>2
      <4>5. ASSUME NEW i \in 1..Len(got') PROVE got'[i] = i
        <5>1. CASE i \in 1..Len(got)
          BY <3>4, <4>3, <5>1
        <5>2. CASE i = Len(got) + 1
          BY <3>4, <4>4, <5>2
        <5> QED
          BY <3>4, <5>1, <5>2
      <4> QED
        BY <4>2, <4>5
    <3>9. \A i \in 1..Len(tPend') : tPend'[i] = i
      BY <3>5
    <3> QED
      BY <1>1, <1>5, <2>3, <2>4, <3>6, <3>7, <3>8, <3>9 DEF ServiceInv
  <2>6. CASE ~tLocal
    <3>1. svc = "none" /\ got = <<>> /\ flush = <<>> /\ ~raced
      BY <1>7, <2>6 DEF BridgeInv, Lasts
    <3>2. tPend' = Append(tPend, Head(c2s)) /\ got' = got
      BY <2>6 DEF TargetMessage
    <3>3. raced' = raced
      BY <2>6, ZenonT(30) DEF TargetMessage
    <3>4. /\ Len(tPend') = Len(tPend) + 1
          /\ \A i \in 1..Len(tPend) : tPend'[i] = tPend[i]
          /\ tPend'[Len(tPend) + 1] = Head(c2s)
          /\ \A i \in 1..Len(tPend') : i \in 1..Len(tPend) \/ i = Len(tPend) + 1
      BY <1>2, <1>4, <3>2, AppendNumber
    <3>5. Len(got) = 0 /\ Len(flush) = 0 /\ Len(got') = 0
      BY <3>1, <3>2, EmptySeq
    <3>6. Taken' = Taken + 1 /\ Taken = Len(tPend)
      BY <1>3, <3>4, <3>5
    <3>7. ASSUME NEW i \in 1..Len(tPend') PROVE tPend'[i] = i
      <4>1. CASE i \in 1..Len(tPend)
        BY <2>1, <3>4, <4>1
      <4>2. CASE i = Len(tPend) + 1
        BY <2>2, <3>4, <3>6, <4>2
      <4> QED
        BY <3>4, <4>1, <4>2
    <3>8. /\ \A i \in 1..Len(got') : got'[i] = i
          /\ \A i \in 1..Len(flush) : flush[i] = Len(got') + i
      BY <3>5
    <3>9. ~raced'
      BY <3>1, <3>3
    <3> QED
      BY <1>1, <1>5, <2>3, <2>4, <3>6, <3>7, <3>8, <3>9 DEF ServiceInv
  <2> QED
    BY <2>5, <2>6
<1> QED
  BY <1>6, <1>7

\* Every step keeps the stream to the service in order.
LEMMA NextServiceInv == ASSUME TypeOK, BridgeInv, ServiceInv, Next PROVE ServiceInv'
<1>1. CASE \/ Connect \/ StartDirectOffer \/ SelectDone \/ SelectRelay \/ SelectDirect \/ SelectTimeout
           \/ CopyEnds \/ CopyFails \/ ReadForwardEnds \/ DirectOfferFails \/ ClientEnds \/ ReceiveAnswer
           \/ ReceiveOpen \/ ReceiveError \/ ReceiveData \/ ReceiveClose \/ SourceMessage \/ CleanupSource
           \/ SourceLost \/ Server
  <2>1. UNCHANGED <<svc, flush, got, raced, tPend, tCtl>>
    BY <1>1, NotTheBridge, ZenonT(30) DEF Source
  <2>2. CASE Server
    BY <2>1, <2>2, NotTheSource, ServiceKept, ZenonT(30) DEF Server, ServeConnect, ServeDirectOK, RelayFromSource,
       RelayFromTarget, Fallback, CloseAgentForwards, notServer, channel, source, sPath, Lasts
  <2>3. CASE ~Server
    <3>1. c2s' = c2s
      BY <1>1, <2>3, ZenonT(30), ZenonT(30) DEF Connect, StartDirectOffer, SelectDone, SelectRelay, SelectDirect,
         SelectTimeout,
         CopyEnds, CopyFails, CopyStops, ReadForwardEnds, DirectOfferFails, ClientEnds, ReceiveAnswer, ReceiveOpen,
         ReceiveError, ReceiveData, ReceiveClose, SourceMessage, CleanupSource, SourceLost, notSource, notReceive,
         notChannelS, channel
    <3>2. (sChan' = sChan \/ sChan' = "closed") /\ (up' = up \/ sChan = "closed")
      BY <1>1, <2>3, ZenonT(30) DEF Connect, StartDirectOffer, SelectDone, SelectRelay, SelectDirect, SelectTimeout,
         CopyEnds, CopyFails, CopyStops, ReadForwardEnds, DirectOfferFails, ClientEnds, ReceiveAnswer, ReceiveOpen,
         ReceiveError, ReceiveData, ReceiveClose, SourceMessage, CleanupSource, SourceLost, sPath, source,
         notReceive, notChannelS
    <3>3. Lasts' => Lasts
      BY <2>1 DEF Lasts
    <3> QED
      BY <2>1, <3>1, <3>2, <3>3, ServiceKept
  <2> QED
    BY <2>2, <2>3
<1>2. CASE \/ ReceiveOffer \/ HandleDirectOffer \/ HandleDirectOfferFails \/ ReceiveConnect
           \/ ReceiveCloseT \/ RelayDial \/ RelayDialFails \/ RelayChunk \/ RelayServiceEnds \/ ChannelCloses
  <2>1. UNCHANGED <<svc, flush, got, raced, tPend, tCtl>>
    BY <1>2, NotTheBridge, ZenonT(30)
  <2>2. UNCHANGED <<c2s, up>> /\ (sChan' = sChan \/ sChan' = "closed")
    BY <1>2, ZenonT(30) DEF ReceiveOffer, HandleDirectOffer, HandleDirectOfferFails, ReceiveConnect, ReceiveCloseT,
       RelayDial, RelayDialFails, RelayChunk, RelayServiceEnds, ChannelCloses, channel, notRelay, notTarget, source,
       sPath
  <2>3. Lasts' => Lasts
    BY <2>1 DEF Lasts
  <2> QED
    BY <2>1, <2>2, <2>3, ServiceKept
<1>3. CASE \/ TargetChannel \/ OnDataChannel \/ TargetOpens \/ BridgeDialFails \/ BridgeStart \/ BridgeEnds
           \/ BridgeFails \/ ServiceEnds
           \/ BridgeChunk \/ TargetLost
  <2>1. UNCHANGED <<flush, got, tPend, c2s, up, sChan>>
    BY <1>3, ZenonT(30) DEF TargetChannel, OnDataChannel, TargetOpens, notCallback, BridgeDialFails, BridgeStart,
       BridgeEnds, BridgeFails, BridgeStops, ServiceEnds,
       BridgeChunk, TargetLost, channel, notBridge, notTarget, source, sPath, target, tPath
  <2>2. raced' = raced
    BY <1>3 DEF TargetChannel, OnDataChannel, TargetOpens, notCallback, BridgeDialFails, BridgeStart, BridgeEnds,
       BridgeFails, BridgeStops, ServiceEnds,
       BridgeChunk, TargetLost, target
  <2>3. svc' = svc \/ svc' = "closed" \/ svc' = "eof"
    BY <1>3, ZenonT(30) DEF TargetChannel, OnDataChannel, TargetOpens, notCallback, BridgeDialFails, BridgeStart,
       BridgeEnds, BridgeFails, BridgeStops, ServiceEnds,
       BridgeChunk, TargetLost, target
  <2>4. tCtl' = tCtl \/ tCtl = "up"
    BY <1>3, ZenonT(30) DEF TargetChannel, OnDataChannel, TargetOpens, notCallback, BridgeDialFails, BridgeStart,
       BridgeEnds, BridgeFails, BridgeStops, ServiceEnds,
       BridgeChunk, TargetLost, notBridge, notTarget, ctl
  <2>5. Lasts' => Lasts
    BY <2>3, <2>4, ZenonT(30) DEF Lasts
  <2> QED
    BY <2>1, <2>2, <2>5, ServiceKept
<1>4. CASE SourceOpens
  <2>1. UNCHANGED <<svc, flush, got, raced, tPend, tCtl>>
    BY <1>4, NotTheBridge
  <2>2. sChan = "none" /\ sChan' = "open" /\ UNCHANGED <<c2s, up>>
    BY <1>4 DEF SourceOpens, notChannelS
  <2>3. up = 0 /\ c2s = <<>> /\ Taken = 0
    BY <2>2 DEF ServiceInv
  <2>4. Len(c2s) = 0
    BY <2>3, EmptySeq
  <2>5. up = Taken + Len(c2s)
    BY <2>3, <2>4
  <2>6. Taken' = Taken /\ Lasts' = Lasts /\ Elements(got)' = Elements(got) /\ Elements(flush)' = Elements(flush)
    BY <2>1, ZenonT(30) DEF Taken, Lasts, Elements
  <2> QED
    BY <2>1, <2>2, <2>5, <2>6 DEF ServiceInv
<1>5. CASE ChannelBreaks
  <2>1. UNCHANGED <<svc, flush, got, raced, tPend, tCtl>>
    BY <1>5, NotTheBridge
  <2>2. sChan' = "closed" /\ c2s' = <<>>
    BY <1>5 DEF ChannelBreaks
  <2>3. Len(c2s') = 0
    BY <2>2, EmptySeq
  <2>4. \A i \in 1..Len(c2s') : c2s'[i] = Taken' + i
    BY <2>3
  <2>5. Lasts' = Lasts /\ Elements(got)' = Elements(got) /\ Elements(flush)' = Elements(flush)
    BY <2>1 DEF Lasts, Elements
  <2> QED
    BY <2>1, <2>2, <2>4, <2>5 DEF ServiceInv
<1>6. CASE CleanupTarget
  <2>1. tCtl' = "clean" /\ tPend' = <<>> /\ UNCHANGED <<sChan, up, c2s, got, flush>>
    BY <1>6 DEF CleanupTarget, source, sPath, channel
  <2>2. ~Lasts'
    BY <2>1 DEF Lasts
  <2>3. Taken = 0 => Taken' = 0
    <3>1. /\ Len(got) \in Nat /\ Len(flush) \in Nat /\ Len(tPend) \in Nat /\ Len(tPend') = 0
          /\ Len(got') = Len(got) /\ Len(flush') = Len(flush)
      BY <2>1, Lengths, EmptySeq
    <3>2. Taken = Len(got) + Len(flush) + Len(tPend) /\ Taken' = Len(got') + Len(flush') + Len(tPend')
      BY DEF Taken
    <3> QED
      BY <3>1, <3>2
  <2> QED
    BY <2>1, <2>2, <2>3, ZenonT(30) DEF ServiceInv
<1> QED
  BY <1>1, <1>2, <1>3, <1>4, <1>5, <1>6, CopyChunkService, BridgeDialService, BridgeFlushService,
     TargetMessageService DEF Next, Step, Free, Event, Source, Target

-----------------------------------------------------------------------------
(* The theorems.                                                           *)

\* The invariant holds before the first step.
LEMMA InitIInv == Init => IInv
<1>1. SUFFICES ASSUME Init PROVE IInv
  OBVIOUS
<1>2. TypeOK
  BY <1>1, InitTypeOK
<1>3. /\ heard = <<>> /\ s2c = <<>> /\ got = <<>> /\ flush = <<>> /\ tPend = <<>> /\ c2s = <<>>
      /\ Len(heard) = 0 /\ Len(s2c) = 0 /\ Len(got) = 0 /\ Len(flush) = 0 /\ Len(tPend) = 0 /\ Len(c2s) = 0
  BY <1>1, EmptySeq DEF Init
<1>4. QueueInv
  BY <1>1, EmptySeq DEF Init, QueueInv
<1>5. ClientInv
  BY <1>1, <1>3 DEF Init, ClientInv
<1>6. HeardInv
  BY <1>1, <1>3 DEF Init, HeardInv
<1>7. BridgeInv
  BY <1>1 DEF Init, BridgeInv
<1>8. ServiceInv
  <2>1. Taken = 0 /\ up = 0 /\ sChan = "none" /\ ~raced
    BY <1>1, <1>3 DEF Taken, Init
  <2> QED
    BY <1>3, <2>1 DEF ServiceInv
<1> QED
  BY <1>2, <1>4, <1>5, <1>6, <1>7, <1>8 DEF IInv

\* Every step keeps it.
LEMMA NextIInv == IInv /\ [Next]_vars => IInv'
<1>1. SUFFICES ASSUME IInv, [Next]_vars PROVE IInv'
  OBVIOUS
<1>2. CASE Next
  BY <1>1, <1>2, NextTypeOK, NextQueueInv, NextClientInv, NextHeardInv, NextBridgeInv, NextServiceInv DEF IInv
<1>3. CASE UNCHANGED vars
  <2>1. UNCHANGED <<src, client, fwd, sChan, sLocal, sPend, heard, up, tChan, bridge, svc, tLocal, tPend, flush,
                    got, raced, down, relay, c2s, s2c, fell, sq, tq, ts, tt, sCtl, tCtl>>
    BY <1>3, ZenonT(30) DEF vars, source, target, channel, server, queues, ctl, sPath, tPath
  <2>2. TypeOK' /\ QueueInv' /\ ClientInv'
    BY <1>1, <2>1 DEF IInv, TypeOK, QueueInv, ClientInv, FromSourceKinds, FromTargetKinds, ToSourceKinds,
       ToTargetKinds, IfFell
  <2>3. HeardInv'
    BY <1>1, <2>1, HeardKept, ZenonT(30) DEF IInv
  <2>4. BridgeInv'
    BY <1>1, <2>1 DEF IInv, BridgeInv
  <2>5. Lasts' => Lasts
    BY <2>1 DEF Lasts
  <2>6. ServiceInv'
    BY <1>1, <2>1, <2>5, ServiceKept DEF IInv
  <2> QED
    BY <2>2, <2>3, <2>4, <2>6 DEF IInv
<1> QED
  BY <1>1, <1>2, <1>3

\* The invariant holds throughout.
LEMMA Invariance == Spec => []IInv
BY InitIInv, NextIInv, PTL DEF Spec

\* Type correctness of the direct path's state.
THEOREM TypeCorrect == Spec => []TypeOK
<1>1. IInv => TypeOK
  BY DEF IInv
<1> QED
  BY <1>1, Invariance, PTL

\* What OnMessage of the target and bridgeTargetChannel do together writes every chunk
\* of the channel to the service once, and in order unless one arrived during the flush.
THEOREM ServiceComplete == Spec => []ServiceGetsAll
<1>1. ASSUME IInv PROVE ServiceGetsAll
  <2>1. TypeOK /\ BridgeInv /\ ServiceInv
    BY <1>1 DEF IInv
  <2> DEFINE all == got \o flush \o tPend
  <2>2. SUFFICES ASSUME tCtl = "up", svc \in {"none", "open"}
        PROVE  /\ raced => Elements(all) = 1..Len(all)
               /\ ~raced => all = UpTo(Len(all))
               /\ bridge = "read" => tPend = <<>>
    BY DEF ServiceGetsAll
  <2>3. got \in Seq(Nat) /\ flush \in Seq(Nat) /\ tPend \in Seq(Nat)
    BY <2>1 DEF TypeOK
  <2>4. Lasts
    BY <2>2 DEF Lasts
  <2>5. ASSUME NEW s \in Seq(Nat), \A i \in 1..Len(s) : s[i] = i PROVE s = UpTo(Len(s))
    <3>1. s \in [1..Len(s) -> Nat]
      BY LenProperties
    <3> QED
      BY <2>5, <3>1 DEF UpTo
  <2>6. CASE svc = "none"
    <3>1. got = <<>> /\ flush = <<>> /\ ~raced /\ bridge # "read"
      BY <2>1, <2>6 DEF BridgeInv
    <3>2. <<>> \o flush = flush /\ <<>> \o tPend = tPend
      BY <2>3, ConcatEmptySeq
    <3>3. all = tPend
      BY <3>1, <3>2
    <3>4. \A i \in 1..Len(tPend) : tPend[i] = i
      BY <2>1, <2>4 DEF ServiceInv
    <3>5. tPend = UpTo(Len(tPend))
      BY <2>3, <2>5, <3>4
    <3> QED
      BY <3>1, <3>3, <3>5
  <2>7. CASE svc = "open"
    <3>1. tPend = <<>>
      BY <2>1, <2>2, <2>7, ZenonT(30) DEF BridgeInv
    <3> DEFINE both == got \o flush
    <3>2. /\ both \in Seq(Nat) /\ Len(both) = Len(got) + Len(flush)
          /\ \A i \in 1..(Len(got) + Len(flush)) : both[i] = IF i <= Len(got) THEN got[i] ELSE flush[i - Len(got)]
      BY <2>3, ConcatProperties
    <3>3. all = both
      <4>1. both \o <<>> = both
        BY <3>2, ConcatEmptySeq
      <4> QED
        BY <3>1, <4>1
    <3>4. Len(got) \in Nat /\ Len(flush) \in Nat
      BY <2>3, LenProperties
    <3>5. ASSUME ~raced PROVE both = UpTo(Len(both))
      <4>1. /\ \A i \in 1..Len(got) : got[i] = i
            /\ \A i \in 1..Len(flush) : flush[i] = Len(got) + i
        BY <2>1, <2>4, <3>5 DEF ServiceInv
      <4>2. ASSUME NEW i \in 1..Len(both) PROVE both[i] = i
        <5>1. CASE i <= Len(got)
          <6>1. i \in 1..Len(got) /\ i \in 1..(Len(got) + Len(flush))
            BY <3>2, <3>4, <5>1
          <6> QED
            BY <3>2, <4>1, <5>1, <6>1
        <5>2. CASE ~(i <= Len(got))
          <6>1. i - Len(got) \in 1..Len(flush) /\ i \in 1..(Len(got) + Len(flush)) /\ Len(got) + (i - Len(got)) = i
            BY <3>2, <3>4, <5>2
          <6> QED
            BY <3>2, <4>1, <5>2, <6>1, ZenonT(30)
        <5> QED
          BY <5>1, <5>2
      <4> HIDE DEF both
      <4> QED
        BY <2>5, <3>2, <4>2
    <3>6. ASSUME raced PROVE Elements(both) = 1..Len(both)
      <4>1. Elements(got) \cup Elements(flush) = 1..(Len(got) + Len(flush))
        BY <2>1, <2>4, <3>6 DEF ServiceInv
      <4>2. DOMAIN got = 1..Len(got) /\ DOMAIN flush = 1..Len(flush)
        BY <2>3, LenProperties, ZenonT(30)
      <4>3. DOMAIN both = 1..(Len(got) + Len(flush))
        <5> HIDE DEF both
        <5> QED
          BY <3>2, LenProperties
      <4> HIDE DEF both
      <4>4. ASSUME NEW i \in 1..(Len(got) + Len(flush)) PROVE both[i] \in Elements(got) \cup Elements(flush)
        <5>1. CASE i <= Len(got)
          <6>1. i \in 1..Len(got) /\ both[i] = got[i]
            BY <3>2, <3>4, <5>1
          <6> QED
            BY <4>2, <6>1 DEF Elements
        <5>2. CASE ~(i <= Len(got))
          <6>1. i - Len(got) \in 1..Len(flush) /\ both[i] = flush[i - Len(got)]
            BY <3>2, <3>4, <5>2
          <6> QED
            BY <4>2, <6>1, ZenonT(30) DEF Elements
        <5> QED
          BY <5>1, <5>2, ZenonT(30)
      <4>5. ASSUME NEW i \in 1..Len(got) PROVE got[i] \in Elements(both)
        <5>1. i \in 1..(Len(got) + Len(flush)) /\ both[i] = got[i]
          BY <3>2, <3>4
        <5> QED
          BY <4>3, <5>1 DEF Elements
      <4>6. ASSUME NEW i \in 1..Len(flush) PROVE flush[i] \in Elements(both)
        <5>1. /\ Len(got) + i \in 1..(Len(got) + Len(flush)) /\ ~(Len(got) + i <= Len(got))
              /\ (Len(got) + i) - Len(got) = i
          BY <3>4
        <5>2. both[Len(got) + i] = flush[i]
          BY <3>2, <5>1, ZenonT(30)
        <5> QED
          BY <4>3, <5>1, <5>2 DEF Elements
      <4>7. /\ \A x \in Elements(both) : \E i \in 1..(Len(got) + Len(flush)) : x = both[i]
            /\ \A x \in Elements(got) : \E i \in 1..Len(got) : x = got[i]
            /\ \A x \in Elements(flush) : \E i \in 1..Len(flush) : x = flush[i]
        BY <4>2, <4>3 DEF Elements
      <4>8. Elements(both) = Elements(got) \cup Elements(flush)
        BY <4>4, <4>5, <4>6, <4>7
      <4> QED
        BY <3>2, <4>1, <4>8
    <3> HIDE DEF both, all
    <3> QED
      BY <3>1, <3>3, <3>5, <3>6
  <2> QED
    BY <2>2, <2>6, <2>7
<1> QED
  BY <1>1, Invariance, PTL

\* However the select of handleForwardClient goes, the client hears nothing of the channel
\* before it is chosen, and then its stream without a gap, unless the server had fallen
\* back as well.
THEOREM OneConnection == Spec => []ClientHearsOne
<1>1. ASSUME IInv PROVE ClientHearsOne
  <2>1. heard \in Seq(Nat)
    BY <1>1 DEF IInv, TypeOK
  <2>2. Len(heard) \in Nat /\ DOMAIN heard = 1..Len(heard) /\ heard \in [1..Len(heard) -> Nat]
    BY <2>1, LenProperties
  <2>3. ASSUME src \in {"start", "offer", "select", "relay"} PROVE Elements(heard) \subseteq {Relayed}
    <3>1. \A i \in 1..Len(heard) : heard[i] = Relayed
      BY <1>1, <2>3 DEF IInv, ClientInv
    <3> QED
      BY <2>2, <3>1 DEF Elements
  <2>4. ASSUME client # "closed", ~fell PROVE heard = [i \in 1..Len(heard) |-> sPend + i]
    <3>1. \A i \in 1..Len(heard) : heard[i] = sPend + i
      BY <1>1, <2>4 DEF IInv, HeardInv
    <3> QED
      BY <2>2, <3>1
  <2> QED
    BY <2>3, <2>4 DEF ClientHearsOne
<1> QED
  BY <1>1, Invariance, PTL

=============================================================================
