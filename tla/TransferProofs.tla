--------------------------- MODULE TransferProofs ---------------------------
(***************************************************************************)
(* Proofs about Transfer, for files of any size, any browser limit and any *)
(* number of device connections: an upload or a change that succeeds is on *)
(* the device, a download that succeeds is whole, and its row says so.     *)
(* The inductive invariant, and its parts for uploads and for the file     *)
(* manager, are in TransferUploadProofs.                                   *)
(***************************************************************************)
EXTENDS TransferUploadProofs

-----------------------------------------------------------------------------
(* Downloads.                                                              *)

\* The messages of a download, in order: its chunks and then the end.
LEMMA PartKinds ==
  ASSUME size \in Nat, NEW k \in Nat
  PROVE  /\ Part(k) \in Message
         /\ k <= size => Part(k).kind = "chunk" /\ Part(k) = Chunk(k) /\ Part(k).n = k
         /\ k > size => Part(k).kind = "done" /\ Part(k) = Msg("done")
BY MessageTypes DEF Part, Kinds

\* In these states and steps of a download:
LEMMA DownTypes ==
  ASSUME IInv, Next, op = "download"
  PROVE  /\ op' = "download" /\ size' = size /\ size \in Nat /\ counted \in Nat /\ counted <= size
         /\ ~Managed /\ row # "none" /\ pos \in Nat /\ stream \in {0, 1}
         /\ toAgent \in Seq(Message) /\ fromAgent \in Seq(Message) /\ down \in Seq(Message)
         /\ Len(toAgent) \in Nat /\ Len(fromAgent) \in Nat /\ Len(down) \in Nat
         /\ got \in Seq(Nat) /\ Len(got) \in Nat
         /\ \A k : Part(k)' = Part(k)
         /\ Only(toAgent, {"download", "error"}) /\ Only(fromAgent, {"chunk", "done", "error"})
         /\ Only(down, {"chunk", "done", "error"})
<1>1. /\ op' = "download" /\ size' = size /\ size \in Nat /\ counted \in Nat /\ pos \in Nat
      /\ toAgent \in Seq(Message) /\ fromAgent \in Seq(Message) /\ down \in Seq(Message)
      /\ got \in Seq(Nat) /\ stream \in {0, 1}
  BY TransferFixed DEF IInv, TypeOK
<1>2. counted <= size
  BY DEF IInv, StreamInv
<1>3. ~Managed /\ row # "none"
  BY DEF Managed, IInv, RowInv
<1>4. \A k : Part(k)' = Part(k)
  BY <1>1 DEF Part, Msg, Chunk
<1>5. /\ Only(toAgent, {"download", "error"}) /\ Only(fromAgent, {"chunk", "done", "error"})
      /\ Only(down, {"chunk", "done", "error"})
  BY KindsByOp, ZenonT(30) DEF IInv, KindInv
<1> QED
  BY <1>1, <1>2, <1>3, <1>4, <1>5

\* A download that has not reached the device is at its beginning.
LEMMA DownloadAsked ==
  ASSUME IInv, op = "download", Has(toAgent, "download")
  PROVE  /\ toAgent[1].kind = "download" /\ \A i \in 1..Len(toAgent) : toAgent[i].kind = "download" => i = 1
         /\ stream = 0 /\ fromAgent = <<>> /\ down = <<>> /\ got = <<>> /\ counted = 0
         /\ router = "idle" /\ browser # "ok"
BY DEF IInv, StreamInv, Has

\* What is under way from the device.
LEMMA DownloadStreams ==
  ASSUME IInv, op = "download"
  PROVE  /\ \A i \in 1..Len(fromAgent) : Final(fromAgent[i]) => i = Len(fromAgent) /\ stream = 0
         /\ listed /\ router = "idle" =>
              /\ \A i \in 1..Len(fromAgent) :
                   fromAgent[i] = Part(counted + i) \/ fromAgent[i] = Msg("error")
              /\ First /\ stream = 1 => pos = counted + Len(fromAgent)
         /\ router # "idle" => Quiet
BY ZenonT(30) DEF IInv, StreamInv

\* The device takes the request of a download, or an abort it ignores.
LEMMA DownloadHandled ==
  ASSUME IInv, Next, op = "download", Control
  PROVE  /\ ~Has(toAgent', "download") /\ fromAgent' = fromAgent /\ First
         /\ UNCHANGED <<op, size, browser, sent, got, up, down, closed, handler, endState, listed,
                        router, routed, row, counted, conn, link>>
         /\ \/ UNCHANGED <<stream, pos>>
            \/ Has(toAgent, "download") /\ stream' = 1 /\ pos' = 0
<1>1. PICK kind : Handle(kind)
  BY DEF Control, OpenUpload, WriteChunk, EndUpload, AbortUpload, StartDownload, Change, List
<1>2. ~Handle("upload") /\ ~Handle("chunk") /\ ~Handle("end") /\ ~Handle("change") /\ ~Handle("list")
  BY Handled, KindsByOp
<1>3. AbortUpload \/ StartDownload
  BY <1>2 DEF Control, OpenUpload, WriteChunk, EndUpload, Change, List
<1>4. fromAgent' = fromAgent
  BY <1>3 DEF AbortUpload, StartDownload
<1>5. /\ First
      /\ Len(toAgent') = Len(toAgent) - 1 /\ Len(toAgent) >= 1
      /\ \A i \in 1..Len(toAgent') : toAgent'[i] = toAgent[i + 1] /\ i + 1 \in 1..Len(toAgent)
  BY <1>1, Handled
<1>6. UNCHANGED <<op, size, browser, sent, got, up, down, closed, handler, endState, listed,
                  router, routed, row, counted, conn, link>>
  BY <1>1, Handled
<1>7. ASSUME Has(toAgent', "download") PROVE FALSE
  <2>1. PICK i \in 1..Len(toAgent') : toAgent'[i].kind = "download"
    BY <1>7 DEF Has
  <2>2. toAgent[i + 1].kind = "download" /\ i + 1 \in 1..Len(toAgent) /\ i + 1 # 1
    BY <1>5, <2>1
  <2>3. Has(toAgent, "download")
    BY <2>2 DEF Has
  <2> QED
    BY <2>2, <2>3, DownloadAsked
<1>8. CASE StartDownload
  <2>1. Handle("download") /\ stream' = conn /\ pos' = 0
    BY <1>8 DEF StartDownload
  <2>2. Has(toAgent, "download") /\ conn = 1
    BY <1>5, <2>1, Handled DEF First
  <2> QED
    BY <1>4, <1>5, <1>6, <1>7, <2>1, <2>2
<1>9. CASE AbortUpload
  <2>1. UNCHANGED <<stream, pos>>
    BY <1>9 DEF AbortUpload
  <2> QED
    BY <1>4, <1>5, <1>6, <1>7, <2>1
<1> QED
  BY <1>3, <1>8, <1>9

\* A download that is over stays so.
LEMMA QuietStays == ASSUME IInv, Next, op = "download", Quiet, ~Start PROVE Quiet'
<1>0. /\ stream = 0 /\ fromAgent = <<>> /\ ~Has(toAgent, "download") /\ toAgent \in Seq(Message) /\ ~Managed
  BY DownTypes DEF Quiet
<1>1. ASSUME stream' = 0, fromAgent' = <<>>, ~Has(toAgent', "download") PROVE Quiet'
  BY <1>1 DEF Quiet, Has
<1>2. CASE SendUpload \/ SocketCloses \/ GiveUp \/ SocketBreaks \/ Receive \/ Refuse \/ Delete \/ CloseTraffic
           \/ HangUp \/ RouteClose \/ RouteDelete \/ Cleanup \/ Reconnect \/ Done
  <2>1. UNCHANGED <<stream, toAgent>> /\ fromAgent' \in {fromAgent, <<>>}
    BY <1>2, ZenonT(30) DEF SendUpload, SocketCloses, GiveUp, SocketBreaks, Receive, Refuse, Delete, CloseTraffic, HangUp,
       RouteClose, RouteDelete, Cleanup, Reconnect, Done, vars, agent
  <2> QED
    BY <1>0, <1>1, <2>1
<1>3. CASE SendRequest \/ ReadFrame \/ StartManager \/ ReadRequest \/ ManagerLeaves \/ Route \/ RouteManager
           \/ Stream
  BY <1>0, <1>3, ZenonT(30) DEF SendRequest, ReadFrame, StartManager, ReadRequest, ManagerLeaves, Route,
     RouteManager, Stream
<1>4. CASE ReadError
  <2>1. UNCHANGED <<stream, fromAgent>>
    BY <1>4 DEF ReadError, agent
  <2>2. toAgent' \in {toAgent, Append(toAgent, Msg("error"))}
    BY <1>4 DEF ReadError, WriteAgent
  <2>3. Msg("error") \in Message /\ Msg("error").kind = "error"
    BY MessageTypes DEF Kinds
  <2>4. ~Has(Append(toAgent, Msg("error")), "download")
    BY <1>0, <2>3, AppendMessage, ZenonT(30)
  <2> QED
    BY <1>0, <1>1, <2>1, <2>2, <2>4, ZenonT(30)
<1>5. CASE Control
  BY <1>0, <1>1, <1>5, DownloadHandled
<1>6. CASE LinkLost
  <2>1. toAgent' = <<>> /\ stream' = stream
    BY <1>6, LinkLostKeeps
  <2>2. fromAgent' = <<>>
    BY <1>0, <1>6 DEF LinkLost
  <2> QED
    BY <1>0, <1>1, <2>1, <2>2, NoMessage
<1> QED
  BY <1>2, <1>3, <1>4, <1>5, <1>6 DEF Next, Browser, Handler, Router

\* What the router does with a message of a download: the next chunk is counted, and
\* after a final message there is nothing more.
LEMMA DownloadRouted ==
  ASSUME IInv, Next, op = "download", Route
  PROVE  /\ router = "idle" /\ fromAgent # <<>> /\ Head(fromAgent) \in Message
         /\ Len(fromAgent') = Len(fromAgent) - 1 /\ Len(fromAgent) >= 1
         /\ \A i \in 1..Len(fromAgent') : fromAgent'[i] = fromAgent[i + 1] /\ i + 1 \in 1..Len(fromAgent)
         /\ \A i \in 1..Len(fromAgent') : i + 1 = Len(fromAgent) => i = Len(fromAgent')
         /\ ~Has(toAgent, "download")
         /\ UNCHANGED <<browser, got, handler, endState, listed, row, conn, link, toAgent, stream, pos>>
         /\ \/ ~listed /\ UNCHANGED <<down, closed, counted, router, routed>>
            \/ /\ listed /\ Head(fromAgent) = Part(counted + 1) /\ counted + 1 <= size
               /\ counted' = counted + 1 /\ ToBrowser(Head(fromAgent)) /\ UNCHANGED <<router, routed>>
            \/ /\ listed /\ Head(fromAgent) \in {Part(counted + 1), Msg("error")}
               /\ Head(fromAgent).kind = "done" => counted = size /\ routed' = "closed"
               /\ ToBrowser(Head(fromAgent)) /\ router' = "close" /\ counted' = counted
               /\ stream = 0 /\ fromAgent' = <<>> /\ row = "active"
<1>0. /\ size \in Nat /\ counted \in Nat /\ counted <= size /\ row # "none"
      /\ fromAgent \in Seq(Message) /\ Len(fromAgent) \in Nat
  BY DownTypes
<1>1. router = "idle" /\ fromAgent # <<>> /\ fromAgent' = Tail(fromAgent)
  BY DEF Route
<1>2. /\ Head(fromAgent) \in Message /\ Head(fromAgent) = fromAgent[1]
      /\ Len(fromAgent') = Len(fromAgent) - 1 /\ Len(fromAgent) >= 1
      /\ \A i \in 1..Len(fromAgent') : fromAgent'[i] = fromAgent[i + 1] /\ i + 1 \in 1..Len(fromAgent)
      /\ \A i \in 1..Len(fromAgent') : i + 1 = Len(fromAgent) => i = Len(fromAgent')
      /\ fromAgent' \in Seq(Message)
  BY <1>0, <1>1, TakeMessage
<1>3. ~Has(toAgent, "download")
  BY <1>1, DownloadAsked, ZenonT(30)
<1>4. UNCHANGED <<browser, got, handler, endState, listed, row, conn, link, toAgent, stream, pos>>
  BY DEF Route, console, device, agent
<1>5. 1 \in 1..Len(fromAgent) /\ counted + 1 \in Nat
  BY <1>0, <1>2
<1>6. listed => Head(fromAgent) \in {Part(counted + 1), Msg("error")}
  BY <1>1, <1>2, <1>5, DownloadStreams, ZenonT(30)
<1>7. listed => row = "active"
  BY <1>0, <1>1 DEF IInv, RowInv, TypeOK, Managed
<1>8. Msg("error").kind = "error"
  BY MessageTypes DEF Kinds
<1>9. CASE ~listed
  <2>1. UNCHANGED <<down, closed, counted, router, routed>>
    BY <1>9 DEF Route
  <2> QED
    BY <1>1, <1>2, <1>3, <1>4, <1>9, <2>1, ZenonT(30)
<1>10. CASE listed /\ Head(fromAgent).kind = "chunk"
  <2>1. Head(fromAgent) = Part(counted + 1)
    BY <1>6, <1>8, <1>10
  <2>2. counted + 1 <= size
    BY <1>0, <1>5, <1>10, <2>1, PartKinds
  <2>3. Add /\ ToBrowser(Head(fromAgent)) /\ UNCHANGED <<router, routed>>
    BY <1>10 DEF Route
  <2>4. counted' = counted + 1
    BY <1>7, <1>10, <2>3, ZenonT(30) DEF Add
  <2> QED
    BY <1>1, <1>2, <1>3, <1>4, <1>10, <2>1, <2>2, <2>3, <2>4, ZenonT(30)
<1>11. CASE listed /\ Head(fromAgent).kind \in {"done", "error"}
  <2>1. /\ ToBrowser(Head(fromAgent)) /\ router' = "close" /\ counted' = counted
        /\ Head(fromAgent).kind = "done" => routed' = "closed"
    BY <1>11 DEF Route
  <2>2. 1 = Len(fromAgent) /\ stream = 0
    BY <1>2, <1>5, <1>11, DownloadStreams, ZenonT(30) DEF Final
  <2>3. fromAgent' = <<>>
    <3>1. Len(fromAgent) = 1 /\ Len(fromAgent') = Len(fromAgent) - 1
      BY <1>2, <2>2, ZenonT(30)
    <3>2. Len(fromAgent') = 0
      BY <3>1
    <3> QED
      BY <1>2, <3>2, NoPlace
  <2>4. Head(fromAgent).kind = "done" => counted = size
    <3> SUFFICES ASSUME Head(fromAgent).kind = "done" PROVE counted = size
      OBVIOUS
    <3>1. Part(counted + 1).kind = "done"
      BY <1>6, <1>8, <1>11
    <3>2. ~(counted + 1 <= size)
      BY <1>0, <1>5, <3>1, PartKinds
    <3> QED
      BY <1>0, <3>2
  <2> QED
    BY <1>1, <1>2, <1>3, <1>4, <1>6, <1>7, <1>11, <2>1, <2>2, <2>3, <2>4, ZenonT(30)
<1>12. Head(fromAgent).kind \in {"chunk", "done", "error"}
  BY <1>0, <1>1, DownTypes, TakeMessage, ZenonT(30)
<1> QED
  BY <1>9, <1>10, <1>11, <1>12, ZenonT(30)

\* The messages of a download follow each other without a gap, a final one is the
\* last, and the goroutine that sends them reads on from there.
LEMMA StreamRoute == ASSUME IInv, Next, op = "download", Route PROVE StreamInv'
<1>0. /\ size' = size /\ size \in Nat /\ counted \in Nat /\ counted <= size /\ (\A k : Part(k)' = Part(k))
      /\ Len(fromAgent) \in Nat /\ Msg("error")' = Msg("error")
  BY DownTypes DEF Msg
<1>1. /\ Len(fromAgent') = Len(fromAgent) - 1 /\ router = "idle"
      /\ \A i \in 1..Len(fromAgent') : fromAgent'[i] = fromAgent[i + 1] /\ i + 1 \in 1..Len(fromAgent)
      /\ \A i \in 1..Len(fromAgent') : i + 1 = Len(fromAgent) => i = Len(fromAgent')
      /\ UNCHANGED <<listed, conn, link, toAgent, stream, pos>>
      /\ ~Has(toAgent, "download")
  BY DownloadRouted
<1>2. \A i \in 1..Len(toAgent') : toAgent'[i].kind # "download"
  BY <1>1 DEF Has
<1>3. \A i \in 1..Len(fromAgent') : Final(fromAgent'[i]) => i = Len(fromAgent') /\ stream' = 0
  <2>1. \A i \in 1..Len(fromAgent') : i + 1 = Len(fromAgent) => i = Len(fromAgent')
    BY <1>1, ZenonT(30)
  <2> QED
    BY <1>1, <2>1, DownloadStreams, ZenonT(30)
<1>4. CASE ~listed /\ UNCHANGED <<counted, router>>
  BY <1>0, <1>1, <1>2, <1>3, <1>4, ZenonT(30) DEF StreamInv, Final
<1>5. CASE listed /\ counted + 1 <= size /\ counted' = counted + 1 /\ UNCHANGED router
  <2>1. \A i \in 1..Len(fromAgent') : counted' + i = counted + (i + 1)
    <3>1. counted \in Int /\ counted' = counted + 1
      BY <1>0, <1>5
    <3> QED
      BY <3>1, OneLess, ZenonT(30)
  <2>2. \A i \in 1..Len(fromAgent') : fromAgent'[i] = Part(counted' + i) \/ fromAgent'[i] = Msg("error")
    BY <1>1, <1>5, <2>1, DownloadStreams, ZenonT(30)
  <2>3. First' <=> First
    BY <1>1 DEF First
  <2>4. First /\ stream = 1 => pos = counted' + Len(fromAgent')
    <3>1. First /\ stream = 1 => pos = counted + Len(fromAgent)
      BY <1>1, <1>5, DownloadStreams
    <3>2. counted' + Len(fromAgent') = counted + Len(fromAgent)
      <4>1. counted \in Nat /\ Len(fromAgent) \in Nat
        BY <1>0, ZenonT(30)
      <4>2. counted' = counted + 1 /\ Len(fromAgent') = Len(fromAgent) - 1
        BY <1>1, <1>5, ZenonT(30)
      <4> QED
        BY <4>1, <4>2
    <3> QED
      BY <3>1, <3>2, ZenonT(30)
  <2> QED
    BY <1>0, <1>1, <1>2, <1>3, <1>5, <2>2, <2>3, <2>4, ZenonT(30) DEF StreamInv, Final
<1>6. CASE router' = "close" /\ counted' = counted /\ stream = 0 /\ fromAgent' = <<>>
  <2>1. Quiet'
    BY <1>1, <1>6 DEF Quiet, Has
  <2> QED
    BY <1>0, <1>2, <1>3, <1>6, <2>1, ZenonT(30) DEF StreamInv, Final
<1> QED
  BY <1>4, <1>5, <1>6, DownloadRouted

\* The goroutine sends the next of them.
LEMMA StreamStream == ASSUME IInv, Next, op = "download", Stream PROVE StreamInv'
<1>0. /\ size' = size /\ size \in Nat /\ counted \in Nat /\ counted <= size /\ (\A k : Part(k)' = Part(k))
      /\ Len(fromAgent) \in Nat /\ fromAgent \in Seq(Message) /\ Msg("error")' = Msg("error") /\ pos \in Nat
  BY DownTypes DEF Msg
<1>1. /\ stream = 1 /\ UNCHANGED <<listed, router, counted, conn, link, toAgent>>
      /\ ~First => fromAgent' = fromAgent
  BY Streamed
<1>2. /\ \A i \in 1..Len(toAgent') : toAgent'[i].kind # "download"
      /\ \A i \in 1..Len(fromAgent) : ~Final(fromAgent[i])
      /\ router = "idle" /\ (First' <=> First)
  BY <1>1, DownloadAsked, DownloadStreams DEF Quiet, Has, First
<1>3. CASE ~First
  <2>1. \A i \in 1..Len(fromAgent') : ~Final(fromAgent'[i])
    BY <1>1, <1>2, <1>3
  <2>2. listed => \A i \in 1..Len(fromAgent') : fromAgent'[i] = Part(counted + i) \/ fromAgent'[i] = Msg("error")
    BY <1>1, <1>2, <1>3, DownloadStreams, ZenonT(30)
  <2> QED
    BY <1>0, <1>1, <1>2, <1>3, <2>1, <2>2, ZenonT(30) DEF StreamInv, Final
<1>4. ASSUME First, NEW m \in Message, fromAgent' = Append(fromAgent, m), Final(m) => stream' = 0,
             listed => m = Part(counted + Len(fromAgent) + 1) \/ m = Msg("error"),
             listed /\ stream' = 1 => pos' = counted + Len(fromAgent) + 1
      PROVE  StreamInv'
  <2>1. /\ Len(fromAgent') = Len(fromAgent) + 1
        /\ \A i \in 1..Len(fromAgent) : fromAgent'[i] = fromAgent[i]
        /\ fromAgent'[Len(fromAgent) + 1] = m
        /\ \A i \in 1..Len(fromAgent') : i \in 1..Len(fromAgent) \/ i = Len(fromAgent) + 1
    <3>1. fromAgent \in Seq(Message) /\ m \in Message /\ fromAgent' = Append(fromAgent, m)
      BY <1>0, <1>4, ZenonT(30)
    <3>2. /\ Len(Append(fromAgent, m)) = Len(fromAgent) + 1
          /\ \A i \in 1..Len(fromAgent) : Append(fromAgent, m)[i] = fromAgent[i]
          /\ Append(fromAgent, m)[Len(fromAgent) + 1] = m
          /\ \A i \in 1..Len(Append(fromAgent, m)) :
               i \in 1..Len(fromAgent) \/ i = Len(fromAgent) + 1
      BY <3>1, AppendMessage, ZenonT(30)
    <3> QED
      BY <3>1, <3>2, ZenonT(30)
  <2>2. \A i \in 1..Len(fromAgent') : i \in 1..Len(fromAgent) \/ i = Len(fromAgent')
    BY <2>1, ZenonT(30)
  <2>3. \A i \in 1..Len(fromAgent') : Final(fromAgent'[i]) => i = Len(fromAgent') /\ stream' = 0
    BY <1>2, <1>4, <2>1, <2>2
  <2>4. counted + Len(fromAgent) + 1 = counted + Len(fromAgent')
    <3>1. counted \in Nat /\ Len(fromAgent) \in Nat /\ Len(fromAgent') = Len(fromAgent) + 1
      BY <1>0, <2>1, ZenonT(30)
    <3> QED
      BY <3>1
  <2>5. listed => \A i \in 1..Len(fromAgent') : fromAgent'[i] = Part(counted + i) \/ fromAgent'[i] = Msg("error")
    <3>1. listed => \A i \in 1..Len(fromAgent) : fromAgent[i] = Part(counted + i) \/ fromAgent[i] = Msg("error")
      BY <1>2, DownloadStreams, ZenonT(30)
    <3> QED
      BY <1>4, <2>1, <2>2, <2>4, <3>1, ZenonT(30)
  <2>6. listed /\ stream' = 1 => pos' = counted + Len(fromAgent')
    BY <1>4, <2>4, ZenonT(30)
  <2> QED
    BY <1>0, <1>1, <1>2, <2>3, <2>5, <2>6, ZenonT(30) DEF StreamInv, Final
<1>5. First /\ listed => pos = counted + Len(fromAgent)
  BY <1>1, <1>2, DownloadStreams
<1>6. CASE First /\ pos < size /\ fromAgent' = Append(fromAgent, Chunk(pos + 1)) /\ pos' = pos + 1 /\ stream' = 1
  <2>1. pos + 1 \in Nat /\ pos + 1 <= size
    BY <1>0, <1>6
  <2>2. Chunk(pos + 1) \in Message /\ Chunk(pos + 1).kind = "chunk" /\ Chunk(pos + 1) = Part(pos + 1)
    BY <1>0, <2>1, MessageTypes, PartKinds
  <2>3. ~Final(Chunk(pos + 1))
    BY <2>2 DEF Final
  <2>4. listed => pos + 1 = counted + Len(fromAgent) + 1
    BY <1>5, <1>6
  <2>5. listed => Chunk(pos + 1) = Part(counted + Len(fromAgent) + 1)
    BY <2>2, <2>4
  <2> QED
    BY <1>4, <1>6, <2>2, <2>3, <2>4, <2>5
<1>7. CASE First /\ pos = size /\ fromAgent' = Append(fromAgent, Msg("done")) /\ stream' = 0
  <2>1. pos + 1 \in Nat /\ pos + 1 > size
    BY <1>0, <1>7
  <2>2. Msg("done") \in Message /\ Msg("done") = Part(pos + 1)
    BY <1>0, <2>1, MessageTypes, PartKinds DEF Kinds
  <2>3. listed => pos + 1 = counted + Len(fromAgent) + 1
    BY <1>5, <1>7
  <2>4. listed => Msg("done") = Part(counted + Len(fromAgent) + 1)
    BY <2>2, <2>3
  <2> QED
    BY <1>4, <1>7, <2>2, <2>4
<1>8. CASE First /\ fromAgent' = Append(fromAgent, Msg("error")) /\ stream' = 0
  <2>1. Msg("error") \in Message
    BY MessageTypes DEF Kinds
  <2> QED
    BY <1>4, <1>8, <2>1
<1> QED
  BY <1>3, <1>6, <1>7, <1>8, Streamed

\* Every step keeps them so.
LEMMA NextStreamInv == ASSUME IInv, Next PROVE StreamInv'
<1> SUFFICES ASSUME op = "download" PROVE StreamInv'
  BY TransferFixed, ZenonT(30) DEF StreamInv
<1>0. /\ size' = size /\ size \in Nat /\ counted \in Nat /\ counted <= size /\ (\A k : Part(k)' = Part(k))
      /\ toAgent \in Seq(Message) /\ fromAgent \in Seq(Message) /\ Len(fromAgent) \in Nat
      /\ Msg("error")' = Msg("error") /\ ~Managed /\ conn \in Nat \ {0}
  BY DownTypes, ZenonT(30) DEF Msg, IInv, TypeOK
<1>1. ASSUME UNCHANGED <<toAgent, fromAgent, stream, pos, counted>>, router' = router, listed' => listed,
             First' => First, Has(toAgent, "download") => UNCHANGED <<down, got>> /\ browser' # "ok"
      PROVE  StreamInv'
  <2>1. \A i \in 1..Len(toAgent') :
         toAgent'[i].kind = "download" =>
           /\ i = 1 /\ stream' = 0 /\ fromAgent' = <<>> /\ down' = <<>> /\ got' = <<>> /\ counted' = 0
           /\ router' = "idle" /\ browser' # "ok"
    BY <1>1, DownloadAsked DEF Has
  <2>2. router' # "idle" => Quiet'
    BY <1>1, DownloadStreams DEF Quiet, Has
  <2>3. listed' /\ router' = "idle" =>
         /\ \A i \in 1..Len(fromAgent') :
              fromAgent'[i] = Part(counted' + i) \/ fromAgent'[i] = Msg("error")
         /\ First' /\ stream' = 1 => pos' = counted' + Len(fromAgent')
    BY <1>1, DownloadStreams
  <2>4. \A i \in 1..Len(fromAgent') : Final(fromAgent'[i]) => i = Len(fromAgent') /\ stream' = 0
    BY <1>1, DownloadStreams, ZenonT(30)
  <2> QED
    BY <1>0, <1>1, <2>1, <2>2, <2>3, <2>4, ZenonT(30) DEF StreamInv, Final
<1>2. ASSUME fromAgent' = <<>>, stream' = 0, counted' = counted, router' # "idle" => Quiet',
             \A i \in 1..Len(toAgent') :
               toAgent'[i].kind = "download" =>
                 i = 1 /\ down' = <<>> /\ got' = <<>> /\ counted = 0 /\ router' = "idle" /\ browser' # "ok"
      PROVE  StreamInv'
  <2>1. Len(fromAgent') = 0 /\ \A i : i \notin 1..Len(fromAgent')
    BY <1>2, NoMessage
  <2> QED
    BY <1>0, <1>2, <2>1 DEF StreamInv
<1>3. CASE Receive
  <2>1. UNCHANGED <<toAgent, fromAgent, stream, pos, counted, router, listed, conn, link>> /\ down # <<>>
    BY <1>3 DEF Receive, server, record, device, agent
  <2>2. ~Has(toAgent, "download") /\ (First' => First)
    BY <2>1, DownloadAsked, ZenonT(30) DEF First
  <2> QED
    BY <1>1, <2>1, <2>2
<1>4. CASE SocketCloses \/ GiveUp \/ SocketBreaks \/ Delete \/ CloseTraffic \/ HangUp \/ Done
  <2>1. UNCHANGED <<toAgent, fromAgent, stream, pos, counted, router, conn, link, down, got>>
    BY <1>4, ZenonT(30) DEF SocketCloses, GiveUp, SocketBreaks, Delete, CloseTraffic, HangUp, Done, vars, console, socket,
       server, record, device, agent
  <2>2. listed' => listed
    BY <1>4, ZenonT(30) DEF SocketCloses, GiveUp, SocketBreaks, Delete, CloseTraffic, HangUp, Done, vars, server
  <2>3. browser' = browser \/ browser' = "failed"
    BY <1>4 DEF SocketCloses, GiveUp, SocketBreaks, Delete, CloseTraffic, HangUp, Done, vars, console
  <2>4. First' => First
    BY <2>1 DEF First
  <2> QED
    BY <1>1, <2>1, <2>2, <2>3, <2>4, DownloadAsked
<1>5. CASE Start \/ Refuse
  <2>1. /\ toAgent = <<>> /\ fromAgent = <<>> /\ down = <<>> /\ got = <<>> /\ stream = 0 /\ counted = 0
        /\ router = "idle" /\ browser # "ok"
    BY <1>5 DEF Start, Refuse, IInv, LinkInv
  <2>2. UNCHANGED <<fromAgent, got, stream, counted, router, browser>>
    BY <1>5 DEF Start, Refuse, console, record, agent
  <2>3. CASE Refuse
    <3>1. toAgent' = <<>>
      BY <2>1, <2>3 DEF Refuse
    <3>2. \A i : i \notin 1..Len(toAgent')
      BY <3>1, NoMessage, ZenonT(30)
    <3> QED
      BY <1>2, <2>1, <2>2, <3>2, ZenonT(30)
  <2>4. CASE Start
    <3>1. down' = <<>> /\ (toAgent' = <<>> \/ toAgent' = Append(toAgent, Msg("download")))
      BY <2>1, <2>4 DEF Start, socket, WriteAgent
    <3>2. Len(Append(toAgent, Msg("download"))) = 1
      BY <2>1
    <3>3. Len(toAgent') = 0 \/ Len(toAgent') = 1
      BY <3>1, <3>2, NoMessage, ZenonT(30)
    <3>4. \A i \in 1..Len(toAgent') : i = 1
      <4>1. \A i \in 1..1 : i = 1
        OBVIOUS
      <4> QED
        BY <3>3, <4>1, Places, ZenonT(30)
    <3> QED
      BY <1>2, <2>1, <2>2, <3>1, <3>4, ZenonT(30)
  <2> QED
    BY <1>5, <2>3, <2>4
<1>6. CASE ReadError
  <2>1. UNCHANGED <<fromAgent, stream, pos, counted, router, listed, conn, link, down, got, browser>>
    BY <1>6 DEF ReadError, console, socket, record, device, agent
  <2>2. toAgent' \in {toAgent, Append(toAgent, Msg("error"))}
    BY <1>6 DEF ReadError, WriteAgent
  <2>3. Msg("error") \in Message /\ Msg("error").kind = "error"
    BY MessageTypes DEF Kinds
  <2>4. LET q == Append(toAgent, Msg("error"))
        IN  \A i \in 1..Len(q) : (i \in 1..Len(toAgent) /\ q[i] = toAgent[i]) \/ q[i].kind = "error"
    <3>1. /\ Len(Append(toAgent, Msg("error"))) = Len(toAgent) + 1 /\ Len(toAgent) \in Nat
          /\ \A i \in 1..Len(toAgent) : Append(toAgent, Msg("error"))[i] = toAgent[i]
          /\ Append(toAgent, Msg("error"))[Len(toAgent) + 1].kind = "error"
      <4>1. toAgent \in Seq(Message)
        BY <1>0, ZenonT(30)
      <4> QED
        BY <2>3, <4>1, AppendMessage, ZenonT(30)
    <3>2. \A i \in 1..(Len(toAgent) + 1) : i \in 1..Len(toAgent) \/ i = Len(toAgent) + 1
      BY <3>1, Places, ZenonT(30)
    <3> QED
      BY <3>1, <3>2, ZenonT(30)
  <2>5. \A i \in 1..Len(toAgent') : toAgent'[i].kind = "download" =>
          i \in 1..Len(toAgent) /\ toAgent[i].kind = "download"
    BY <2>2, <2>4
  <2>6. \A i \in 1..Len(toAgent') :
         toAgent'[i].kind = "download" =>
           /\ i = 1 /\ stream' = 0 /\ fromAgent' = <<>> /\ down' = <<>> /\ got' = <<>> /\ counted' = 0
           /\ router' = "idle" /\ browser' # "ok"
    BY <2>1, <2>5, DownloadAsked DEF Has
  <2>7. router' # "idle" => Quiet'
    <3>1. ~Start
      BY <1>6 DEF ReadError, ReadFails, Start
    <3> QED
      BY <2>1, <3>1, DownloadStreams, QuietStays
  <2>8. listed' /\ router' = "idle" =>
         /\ \A i \in 1..Len(fromAgent') :
              fromAgent'[i] = Part(counted' + i) \/ fromAgent'[i] = Msg("error")
         /\ First' /\ stream' = 1 => pos' = counted' + Len(fromAgent')
    BY <2>1, DownloadStreams DEF First
  <2>9. \A i \in 1..Len(fromAgent') : Final(fromAgent'[i]) => i = Len(fromAgent') /\ stream' = 0
    BY <2>1, DownloadStreams
  <2> QED
    BY <1>0, <2>1, <2>6, <2>7, <2>8, <2>9 DEF StreamInv, Final
<1>7. CASE SendUpload \/ SendRequest \/ ReadFrame \/ StartManager \/ ReadRequest \/ ManagerLeaves \/ RouteManager
  BY <1>0, <1>7, ZenonT(30) DEF SendUpload, SendRequest, ReadFrame, StartManager, ReadRequest, ManagerLeaves, RouteManager
<1>8. CASE RouteClose \/ RouteDelete
  <2>1. UNCHANGED <<toAgent, fromAgent, stream, counted>> /\ router # "idle" /\ ~Start
    BY <1>8 DEF RouteClose, RouteDelete, Start, record, agent, IInv, LinkInv
  <2>2. Quiet /\ Quiet'
    BY <2>1, DownloadStreams, QuietStays, ZenonT(30)
  <2>3. \A i \in 1..Len(toAgent') : toAgent'[i].kind # "download"
    BY <2>1, <2>2 DEF Quiet, Has
  <2> QED
    BY <1>2, <2>1, <2>2, <2>3, ZenonT(30) DEF Quiet
<1>9. CASE Control
  <2>1. /\ ~Has(toAgent', "download") /\ fromAgent' = fromAgent /\ First
        /\ UNCHANGED <<listed, router, counted, conn, link>>
        /\ \/ UNCHANGED <<stream, pos>>
           \/ Has(toAgent, "download") /\ stream' = 1 /\ pos' = 0
    BY <1>9, DownloadHandled
  <2>2. \A i \in 1..Len(toAgent') : toAgent'[i].kind # "download"
    BY <2>1 DEF Has
  <2>3. router' # "idle" => Quiet'
    <3>1. router # "idle" => Quiet /\ ~Start
      BY DownloadStreams, ZenonT(30) DEF Start, IInv, LinkInv
    <3> QED
      BY <2>1, <3>1, QuietStays
  <2>4. CASE UNCHANGED <<stream, pos>>
    <3>1. listed' /\ router' = "idle" =>
           /\ \A i \in 1..Len(fromAgent') :
                fromAgent'[i] = Part(counted' + i) \/ fromAgent'[i] = Msg("error")
           /\ First' /\ stream' = 1 => pos' = counted' + Len(fromAgent')
      BY <2>1, <2>4, DownloadStreams
    <3>2. \A i \in 1..Len(fromAgent') : Final(fromAgent'[i]) => i = Len(fromAgent') /\ stream' = 0
      BY <2>1, <2>4, DownloadStreams
    <3> QED
      BY <1>0, <2>1, <2>2, <2>3, <3>1, <3>2, ZenonT(30) DEF StreamInv, Final
  <2>5. CASE Has(toAgent, "download") /\ stream' = 1 /\ pos' = 0
    <3>1. counted = 0 /\ Len(fromAgent') = 0 /\ \A i : i \notin 1..Len(fromAgent')
      <4>1. counted = 0 /\ fromAgent' = <<>>
        BY <2>1, <2>5, DownloadAsked, ZenonT(30)
      <4> QED
        BY <4>1, NoMessage, ZenonT(30)
    <3>2. pos' = counted' + Len(fromAgent')
      <4>1. pos' = 0 /\ counted' = 0 /\ Len(fromAgent') = 0
        BY <2>1, <2>5, <3>1, ZenonT(30)
      <4> QED
        BY <4>1
    <3> QED
      BY <1>0, <2>1, <2>2, <2>3, <3>1, <3>2, ZenonT(30) DEF StreamInv
  <2> QED
    BY <2>1, <2>4, <2>5
<1>10. CASE LinkLost
  <2>1. /\ link' = "lost" /\ toAgent' = <<>> /\ fromAgent' \in Seq(Message) /\ Len(fromAgent') <= Len(fromAgent)
        /\ \A i \in 1..Len(fromAgent') : fromAgent'[i] = fromAgent[i] /\ i \in 1..Len(fromAgent)
        /\ UNCHANGED <<listed, router, counted, stream, pos>>
    BY <1>10, LinkLostKeeps
  <2>2. ~First' /\ \A i : i \notin 1..Len(toAgent')
    BY <2>1, NoMessage DEF First
  <2>3. \A i \in 1..Len(fromAgent') : i = Len(fromAgent) => i = Len(fromAgent')
    <3>1. Len(fromAgent) \in Nat /\ Len(fromAgent') \in Nat /\ Len(fromAgent') <= Len(fromAgent)
      BY <1>0, <2>1
    <3> QED
      BY <3>1
  <2>4. \A i \in 1..Len(fromAgent') : Final(fromAgent'[i]) => i = Len(fromAgent') /\ stream' = 0
    BY <2>1, <2>3, DownloadStreams
  <2>5. listed' /\ router' = "idle" => \A i \in 1..Len(fromAgent') :
              fromAgent'[i] = Part(counted' + i) \/ fromAgent'[i] = Msg("error")
    BY <2>1, DownloadStreams
  <2>6. router' # "idle" => Quiet'
    <3>1. router # "idle" => Quiet /\ ~Start
      BY DownloadStreams DEF Start, IInv, LinkInv
    <3> QED
      BY <2>1, <3>1, QuietStays, ZenonT(30)
  <2> QED
    BY <1>0, <2>1, <2>2, <2>4, <2>5, <2>6 DEF StreamInv, Final
<1>11. CASE Cleanup
  <2>1. UNCHANGED <<toAgent, fromAgent, stream, pos, counted, router, listed, down, got, browser>> /\ ~First'
    BY <1>11 DEF Cleanup, console, socket, server, record, First
  <2> QED
    BY <1>1, <2>1, DownloadAsked, ZenonT(30)
<1>12. CASE Reconnect
  <2>1. /\ UNCHANGED <<toAgent, stream, pos, counted, router, listed>> /\ ~First' /\ fromAgent' = <<>>
        /\ toAgent = <<>>
    BY <1>0, <1>12 DEF Reconnect, console, socket, server, record, agent, First, IInv, LinkInv
  <2>2. Len(fromAgent') = 0 /\ (\A i : i \notin 1..Len(fromAgent')) /\ \A i : i \notin 1..Len(toAgent')
    BY <2>1, NoMessage
  <2>3. router' # "idle" => Quiet'
    <3>1. router # "idle" => Quiet /\ ~Start
      BY DownloadStreams DEF Start, IInv, LinkInv
    <3> QED
      BY <2>1, <3>1, QuietStays, ZenonT(30)
  <2> QED
    BY <1>0, <2>1, <2>2, <2>3, ZenonT(30) DEF StreamInv
<1> QED
  BY <1>3, <1>4, <1>5, <1>6, <1>7, <1>8, <1>9, <1>10, <1>11, <1>12, StreamRoute, StreamStream
  DEF Next, Browser, Handler, Router

\* What the browser has of a download and what is on the socket to it.
LEMMA GotFacts ==
  ASSUME IInv, op = "download"
  PROVE  /\ got = [i \in 1..Len(got) |-> i] /\ Len(got) <= size
         /\ browser = "ok" => Len(got) = size
         /\ browser = "open" =>
              \A i \in 1..Len(down) : down[i] = Part(Len(got) + i) \/ down[i] = Msg("error")
         /\ listed /\ router = "idle" /\ browser = "open" /\ ~closed /\ ~Quiet =>
              Len(got) + Len(down) = counted
BY DEF IInv, GotInv

\* A message for the browser joins them in its place.
LEMMA GotAppend ==
  ASSUME IInv, Next, op = "download", NEW m \in Message, ToBrowser(m),
         UNCHANGED <<browser, got>>, m = Part(Len(got) + Len(down) + 1) \/ m = Msg("error") \/ browser # "open" \/ closed
  PROVE  /\ browser' = "open" =>
              \A i \in 1..Len(down') : down'[i] = Part(Len(got) + i) \/ down'[i] = Msg("error")
         /\ browser' = "open" /\ ~closed' => Len(down') = Len(down) + 1 /\ ~closed
<1>0. down \in Seq(Message) /\ Len(down) \in Nat /\ Len(got) \in Nat /\ TypeOK
  BY DownTypes DEF IInv
<1>1. CASE browser = "open" /\ ~closed
  <2>1. down' = Append(down, m)
    BY <1>0, <1>1, ToBrowserAppends, ZenonT(30)
  <2>2. /\ Len(down') = Len(down) + 1 /\ \A i \in 1..Len(down) : down'[i] = down[i]
        /\ down'[Len(down) + 1] = m
        /\ \A i \in 1..Len(down') : i \in 1..Len(down) \/ i = Len(down) + 1
    <3>1. down \in Seq(Message) /\ m \in Message
      BY <1>0, ZenonT(30)
    <3>2. /\ Len(Append(down, m)) = Len(down) + 1
          /\ \A i \in 1..Len(down) : Append(down, m)[i] = down[i]
          /\ Append(down, m)[Len(down) + 1] = m
          /\ \A i \in 1..Len(Append(down, m)) : i \in 1..Len(down) \/ i = Len(down) + 1
      BY <3>1, AppendMessage, ZenonT(30)
    <3> QED
      BY <2>1, <3>2, ZenonT(30)
  <2>3. \A i \in 1..Len(down') : i \in 1..Len(down) \/ i = Len(down) + 1
    BY <2>2, ZenonT(30)
  <2>4. Len(got) + Len(down) + 1 = Len(got) + (Len(down) + 1)
    BY <1>0
  <2> QED
    BY <1>1, <2>2, <2>3, <2>4, GotFacts, ZenonT(30)
<1>2. CASE browser # "open" \/ closed
  <2>1. down' = down
    BY <1>0, <1>2, ToBrowserAppends
  <2>2. browser' = "open" => closed'
    <3>1. closed' = closed \/ closed' = TRUE
      BY <1>2, ZenonT(30) DEF ToBrowser
    <3>2. closed \in BOOLEAN
      BY <1>0 DEF TypeOK
    <3> QED
      BY <1>2, <3>1, <3>2, ZenonT(30)
  <2> QED
    BY <2>1, <2>2, GotFacts
<1> QED
  BY <1>1, <1>2

\* The browser takes the next message.
LEMMA GotReceive == ASSUME IInv, Next, op = "download", Receive PROVE GotInv'
<1>0. /\ size' = size /\ size \in Nat /\ (\A k : Part(k)' = Part(k)) /\ Msg("error")' = Msg("error")
      /\ down \in Seq(Message) /\ Len(down) \in Nat /\ got \in Seq(Nat) /\ Len(got) \in Nat
      /\ Only(down, {"chunk", "done", "error"}) /\ counted \in Nat
  BY DownTypes DEF Msg
<1>1. /\ browser = "open" /\ down # <<>> /\ down' = Tail(down)
      /\ UNCHANGED <<closed, listed, router, counted, fromAgent, toAgent, stream>>
  BY DEF Receive, server, record, agent
<1>2. /\ Head(down) \in Message /\ Head(down) = down[1] /\ Len(down) >= 1 /\ Len(down') = Len(down) - 1
      /\ \A i \in 1..Len(down') : down'[i] = down[i + 1] /\ i + 1 \in 1..Len(down)
      /\ Head(down).kind \in {"chunk", "done", "error"}
  BY <1>0, <1>1, TakeMessage
<1>3. 1 \in 1..Len(down) /\ Len(got) + 1 \in Nat /\ Msg("error").kind = "error"
  BY <1>0, <1>2, MessageTypes DEF Kinds
<1>4. /\ Head(down) = Part(Len(got) + 1) \/ Head(down) = Msg("error")
      /\ got = [i \in 1..Len(got) |-> i] /\ Len(got) <= size
  BY <1>1, <1>2, <1>3, GotFacts
<1>5. CASE Head(down).kind = "done"
  <2>1. browser' = "ok" /\ got' = got
    BY <1>5 DEF Receive
  <2>2. ~(Len(got) + 1 <= size)
    BY <1>0, <1>3, <1>4, <1>5, PartKinds
  <2>3. Len(got) = size
    <3>1. Len(got) \in Nat /\ size \in Nat /\ Len(got) <= size
      BY <1>0, <1>4
    <3> QED
      BY <2>2, <3>1
  <2> QED
    BY <1>0, <1>4, <2>1, <2>3 DEF GotInv
<1>6. CASE Head(down).kind = "error"
  <2>1. browser' = "failed" /\ got' = got
    BY <1>6 DEF Receive
  <2> QED
    BY <1>0, <1>4, <2>1 DEF GotInv
<1>7. CASE Head(down).kind = "chunk" /\ browser' = "failed" /\ got' = got
  BY <1>0, <1>4, <1>7 DEF GotInv
<1>8. CASE Head(down).kind = "chunk" /\ browser' = browser /\ got' = Append(got, Head(down).n)
  <2>1. Head(down) = Part(Len(got) + 1)
    BY <1>3, <1>4, <1>8
  <2>2. Len(got) + 1 <= size /\ Head(down).n = Len(got) + 1
    <3>1. Len(got) + 1 > size => Part(Len(got) + 1).kind = "done"
      BY <1>0, <1>3, PartKinds
    <3>2. Len(got) + 1 <= size
      BY <1>0, <1>8, <2>1, <3>1
    <3> QED
      BY <1>0, <1>3, <2>1, <3>2, PartKinds
  <2>3. got' = [i \in 1..Len(got') |-> i] /\ Len(got') = Len(got) + 1
    BY <1>0, <1>4, <1>8, <2>2, NextChunk
  <2>4. \A i \in 1..Len(down') : Len(got') + i = Len(got) + (i + 1)
    BY <1>0, <1>2, <2>3
  <2>5. \A i \in 1..Len(down') : down'[i] = Part(Len(got') + i) \/ down'[i] = Msg("error")
    BY <1>1, <1>2, <2>4, GotFacts
  <2>6. Quiet' <=> Quiet
    BY <1>1 DEF Quiet, Has
  <2>7. listed /\ router = "idle" /\ ~closed /\ ~Quiet => Len(got') + Len(down') = counted
    <3>1. listed /\ router = "idle" /\ ~closed /\ ~Quiet => Len(got) + Len(down) = counted
      BY <1>1, GotFacts
    <3>2. Len(got') + Len(down') = Len(got) + Len(down)
      BY <1>0, <1>2, <2>3
    <3> QED
      BY <3>1, <3>2
  <2>8. Len(got') <= size'
    BY <1>0, <2>2, <2>3
  <2>9. browser' # "ok"
    BY <1>1, <1>8
  <2> QED
    BY <1>0, <1>1, <2>3, <2>5, <2>6, <2>7, <2>8, <2>9 DEF GotInv
<1>9. Head(down).kind = "chunk" => \/ browser' = "failed" /\ got' = got
                                   \/ browser' = browser /\ got' = Append(got, Head(down).n)
  BY DEF Receive
<1> QED
  BY <1>2, <1>5, <1>6, <1>7, <1>8, <1>9

\* A download arrives in order, chunk for chunk as it is counted.
LEMMA NextGotInv == ASSUME IInv, Next PROVE GotInv'
<1> SUFFICES ASSUME op = "download" PROVE GotInv'
  BY TransferFixed DEF GotInv
<1>0. /\ size' = size /\ size \in Nat /\ (\A k : Part(k)' = Part(k)) /\ Msg("error")' = Msg("error")
      /\ down \in Seq(Message) /\ Len(down) \in Nat /\ got \in Seq(Nat) /\ Len(got) \in Nat
      /\ ~Managed /\ counted \in Nat
      /\ got = [i \in 1..Len(got) |-> i] /\ Len(got) <= size
      /\ browser = "ok" => Len(got) = size
      /\ browser = "open" =>
           \A i \in 1..Len(down) : down[i] = Part(Len(got) + i) \/ down[i] = Msg("error")
  BY DownTypes, GotFacts, ZenonT(30) DEF Msg
<1>1. ASSUME UNCHANGED <<got, down, counted>>, browser' = browser \/ browser' = "failed",
             listed' /\ router' = "idle" /\ ~closed' => listed /\ router = "idle" /\ ~closed, Quiet => Quiet'
      PROVE  GotInv'
  <2>1. listed' /\ router' = "idle" /\ browser' = "open" /\ ~closed' /\ ~Quiet' => Len(got') + Len(down') = counted'
    BY <1>1, GotFacts
  <2> QED
    BY <1>0, <1>1, <2>1, ZenonT(30) DEF GotInv
<1>2. CASE SocketCloses \/ GiveUp \/ SocketBreaks \/ Delete \/ CloseTraffic \/ HangUp \/ ReadError
           \/ RouteClose \/ RouteDelete \/ Cleanup \/ Reconnect \/ Done
  <2>1. UNCHANGED <<got, down, counted>> /\ (browser' = browser \/ browser' = "failed")
    BY <1>2, ZenonT(30) DEF SocketCloses, GiveUp, SocketBreaks, Delete, CloseTraffic, HangUp, ReadError, RouteClose,
       RouteDelete, Cleanup, Reconnect, Done, vars, console, socket, record
  <2>2. listed' /\ router' = "idle" /\ ~closed' => listed /\ router = "idle" /\ ~closed
    BY <1>2, ZenonT(30) DEF SocketCloses, GiveUp, SocketBreaks, Delete, CloseTraffic, HangUp, ReadError, RouteClose,
       RouteDelete, Cleanup, Reconnect, Done, vars, socket, server
  <2>3. handler' = handler \/ handler # "start"
    BY <1>2, ZenonT(30) DEF SocketCloses, GiveUp, SocketBreaks, Delete, CloseTraffic, HangUp, ReadError, ReadFails, RouteClose,
       RouteDelete, Cleanup, Reconnect, Done, vars, server
  <2>4. ~Start
    BY <2>3 DEF Start
  <2> QED
    BY <1>1, <2>1, <2>2, <2>4, QuietStays
<1>3. CASE Start
  <2>1. down = <<>> /\ got = <<>> /\ counted = 0 /\ browser # "ok"
    BY <1>3 DEF Start, IInv, LinkInv
  <2>2. UNCHANGED <<got, down, counted, browser>>
    BY <1>3 DEF Start, console, socket, record
  <2>3. Len(got') + Len(down') = counted'
    BY <2>1, <2>2
  <2> QED
    BY <1>0, <2>2, <2>3, ZenonT(30) DEF GotInv
<1>4. CASE Refuse
  <2>1. down = <<>> /\ got = <<>> /\ fromAgent = <<>> /\ toAgent = <<>> /\ stream = 0
    BY <1>4 DEF Refuse, IInv, LinkInv
  <2>2. UNCHANGED <<got, browser, toAgent, fromAgent, stream>> /\ ToBrowser(Msg("error"))
    BY <1>4 DEF Refuse, console, agent
  <2>3. Quiet'
    BY <2>1, <2>2, NoMessage DEF Quiet, Has
  <2>4. Msg("error") \in Message
    BY MessageTypes DEF Kinds
  <2>5. browser' = "open" => \A i \in 1..Len(down') : down'[i] = Part(Len(got) + i) \/ down'[i] = Msg("error")
    BY <2>2, <2>4, GotAppend
  <2> QED
    BY <1>0, <2>2, <2>3, <2>5, ZenonT(30) DEF GotInv
<1>5. CASE SendUpload \/ SendRequest \/ ReadFrame \/ StartManager \/ ReadRequest \/ ManagerLeaves \/ RouteManager
  BY <1>0, <1>5, ZenonT(30) DEF SendUpload, SendRequest, ReadFrame, StartManager, ReadRequest, ManagerLeaves, RouteManager
<1>6. CASE Route
  <2>1. /\ router = "idle" /\ fromAgent # <<>> /\ Head(fromAgent) \in Message /\ UNCHANGED <<browser, got, listed>>
    BY <1>6, DownloadRouted
  <2>2. ~Quiet
    BY <2>1 DEF Quiet
  <2>3. CASE ~listed /\ UNCHANGED <<down, closed, counted, router>>
    BY <1>0, <2>1, <2>3, ZenonT(30) DEF GotInv
  <2>4. ASSUME listed, Head(fromAgent) \in {Part(counted + 1), Msg("error")}, ToBrowser(Head(fromAgent))
        PROVE  /\ browser' = "open" =>
                    \A i \in 1..Len(down') : down'[i] = Part(Len(got) + i) \/ down'[i] = Msg("error")
               /\ browser' = "open" /\ ~closed' => Len(got) + Len(down') = counted + 1
    <3>1. browser = "open" /\ ~closed => Len(got) + Len(down) = counted
      BY <2>1, <2>2, <2>4, GotFacts
    <3>2. \/ Head(fromAgent) = Part(Len(got) + Len(down) + 1) \/ Head(fromAgent) = Msg("error")
          \/ browser # "open" \/ closed
      BY <2>4, <3>1, ZenonT(30)
    <3>3. /\ browser' = "open" =>
               \A i \in 1..Len(down') : down'[i] = Part(Len(got) + i) \/ down'[i] = Msg("error")
          /\ browser' = "open" /\ ~closed' => Len(down') = Len(down) + 1 /\ ~closed
      BY <2>1, <2>4, <3>2, GotAppend
    <3>4. browser' = "open" /\ ~closed' => Len(got) + Len(down') = counted + 1
      <4> SUFFICES ASSUME browser' = "open", ~closed' PROVE Len(got) + Len(down') = counted + 1
        OBVIOUS
      <4>1. Len(down') = Len(down) + 1 /\ Len(got) + Len(down) = counted
        BY <2>1, <3>1, <3>3
      <4>2. Len(got) \in Nat /\ Len(down) \in Nat
        BY <1>0, ZenonT(30)
      <4> QED
        BY <4>1, <4>2
    <3> QED
      BY <3>3, <3>4
  <2>5. CASE listed /\ Head(fromAgent) = Part(counted + 1) /\ counted' = counted + 1 /\ ToBrowser(Head(fromAgent))
    BY <1>0, <2>1, <2>4, <2>5, ZenonT(30) DEF GotInv
  <2>6. CASE listed /\ Head(fromAgent) \in {Part(counted + 1), Msg("error")} /\ ToBrowser(Head(fromAgent))
             /\ router' = "close"
    BY <1>0, <2>1, <2>4, <2>6, ZenonT(30) DEF GotInv
  <2> QED
    BY <1>6, <2>3, <2>5, <2>6, DownloadRouted, ZenonT(30)
<1>7. CASE Control \/ Stream \/ LinkLost
  <2>1. UNCHANGED <<got, down, counted, browser, listed, router, closed, handler>>
    BY <1>7, DownloadHandled, Streamed, LinkLostKeeps, ZenonT(30)
  <2>2. ~Start
    BY <2>1 DEF Start
  <2> QED
    BY <1>1, <2>1, <2>2, QuietStays
<1> QED
  BY <1>2, <1>3, <1>4, <1>5, <1>6, <1>7, GotReceive, ZenonT(30) DEF Next, Browser, Handler, Router

-----------------------------------------------------------------------------
(* The row.                                                                *)

\* The sessions and rows of the two kinds of socket, as the handler and the router
\* leave them.
RowOwn ==
  /\ Managed <=> row = "none"
  /\ Managed => handler # "close" /\ router # "close"
  /\ ~Managed => /\ row # "active" => ~listed \/ router = "delete"
                 /\ handler \in {"close", "hangup", "gone"} => ~listed
                 /\ endState = "failed" => op = "upload"

\* A row is closed once its session is about to go or has gone, and only an upload
\* meets an error of the device connection.
LEMMA NextRowOwn == ASSUME IInv, Next PROVE RowOwn'
<1>0. /\ op' = op /\ (Managed' <=> Managed) /\ RowOwn
      /\ endState \in {"closed", "failed"} /\ routed \in {"closed", "failed"}
      /\ handler = "start" => row \in {"none", "active"}
  BY TransferFixed DEF IInv, RowInv, RowOwn, TypeOK, LinkInv
<1>1. ASSUME UNCHANGED <<row, endState>>, handler' = handler \/ handler' \in {"read", "delete"},
             router' = router, listed' => listed
      PROVE  RowOwn'
  BY <1>0, <1>1 DEF RowOwn
<1>2. CASE SendUpload \/ SendRequest \/ Receive \/ SocketCloses \/ GiveUp \/ SocketBreaks \/ ReadError
           \/ ReadRequest \/ ManagerLeaves \/ Done
  <2>1. UNCHANGED <<row, endState, router>> /\ (handler' = handler \/ handler' \in {"read", "delete"})
    BY <1>2, ZenonT(30) DEF SendUpload, SendRequest, Receive, SocketCloses, GiveUp, SocketBreaks, ReadError, ReadRequest,
       ManagerLeaves, Done, vars, server, record
  <2>2. listed' = listed
    BY <1>2, ZenonT(30) DEF SendUpload, SendRequest, Receive, SocketCloses, GiveUp, SocketBreaks, ReadError, ReadRequest,
       ManagerLeaves, Done, vars, server
  <2> QED
    BY <1>1, <2>1, <2>2
<1>3. CASE Start \/ Refuse \/ StartManager
  <2>1. UNCHANGED <<row, endState, router>> /\ handler = "start" /\ handler' \in {"read", "delete"}
    BY <1>3 DEF Start, Refuse, StartManager, record
  <2> QED
    BY <1>0, <2>1 DEF RowOwn
<1>4. CASE ReadFrame
  <2>1. UNCHANGED <<row, router>> /\ handler' \in {"read", "delete"} /\ op = "upload"
    BY <1>4 DEF ReadFrame
  <2>2. listed' = listed
    BY <1>4 DEF ReadFrame
  <2> QED
    BY <1>0, <2>1, <2>2 DEF RowOwn
<1>5. CASE Delete
  <2>1. UNCHANGED <<row, endState, router>> /\ (Managed => handler' # "close")
    BY <1>5 DEF Delete, record
  <2>2. ~listed'
    BY <1>5 DEF Delete
  <2> QED
    BY <1>0, <2>1, <2>2 DEF RowOwn
<1>6. CASE CloseTraffic
  <2>1. UNCHANGED <<endState, router>> /\ handler = "close" /\ handler' = "hangup"
        /\ row' = IF row = "active" THEN endState ELSE row
    BY <1>6 DEF CloseTraffic, CloseRow
  <2>2. listed' = listed
    BY <1>6 DEF CloseTraffic
  <2>3. ~Managed /\ ~listed'
    BY <1>0, <2>1, <2>2 DEF RowOwn
  <2>4. row' # "none"
    BY <1>0, <2>1, <2>3 DEF RowOwn
  <2> QED
    BY <1>0, <2>1, <2>3, <2>4 DEF RowOwn
<1>7. CASE HangUp
  <2>1. UNCHANGED <<row, endState, router>> /\ handler = "hangup" /\ handler' = "gone"
    BY <1>7 DEF HangUp, record
  <2>2. listed' = listed
    BY <1>7 DEF HangUp
  <2> QED
    BY <1>0, <2>1, <2>2 DEF RowOwn
<1>8. CASE Route
  <2>1. UNCHANGED <<row, endState, handler>> /\ router = "idle" /\ ~Managed /\ router' \in {"idle", "close"}
    BY <1>8 DEF Route
  <2>2. listed' = listed
    BY <1>8 DEF Route
  <2> QED
    BY <1>0, <2>1, <2>2 DEF RowOwn
<1>9. CASE RouteManager
  <2>1. UNCHANGED <<row, endState, handler>> /\ router = "idle" /\ Managed /\ router' \in {"idle", "delete"}
    BY <1>9 DEF RouteManager, record
  <2> QED
    BY <1>0, <2>1 DEF RowOwn
<1>10. CASE RouteClose
  <2>1. UNCHANGED <<endState, handler>> /\ router = "close" /\ router' = "delete"
        /\ row' = IF row = "active" THEN routed ELSE row
    BY <1>10 DEF RouteClose, CloseRow
  <2>2. listed' = listed
    BY <1>10 DEF RouteClose
  <2>3. ~Managed
    BY <1>0, <2>1 DEF RowOwn
  <2>4. row' # "none"
    BY <1>0, <2>1, <2>3 DEF RowOwn
  <2> QED
    BY <1>0, <2>1, <2>2, <2>3, <2>4 DEF RowOwn
<1>11. CASE RouteDelete
  <2>1. UNCHANGED <<row, endState, handler>> /\ router' = "idle"
    BY <1>11 DEF RouteDelete, record
  <2>2. ~listed'
    BY <1>11 DEF RouteDelete
  <2> QED
    BY <1>0, <2>1, <2>2 DEF RowOwn
<1>12. CASE Control
  <2>1. PICK kind : Handle(kind)
    BY <1>12, ZenonT(30) DEF Control, OpenUpload, WriteChunk, EndUpload, AbortUpload, StartDownload, Change, List
  <2> QED
    BY <1>1, <2>1 DEF Handle, server, record
<1>13. CASE Stream \/ LinkLost \/ Cleanup \/ Reconnect
  BY <1>1, <1>13, ZenonT(30) DEF Stream, LinkLost, Cleanup, Reconnect, server, record
<1> QED
  BY <1>2, <1>3, <1>4, <1>5, <1>6, <1>7, <1>8, <1>9, <1>10, <1>11, <1>12, <1>13
  DEF Next, Browser, Handler, Router

\* When the browser has been told, the device has nothing more to say, everything
\* has been counted and nobody closes the row as failed.
ToldAll ==
  /\ fromAgent = <<>> /\ Quiet /\ counted = size /\ routed = "closed"
  /\ endState = "closed" /\ row # "failed"

\* The router tells it so with the last message of the device.
LEMMA ToldFirst == ASSUME IInv, Next, ~Managed, ~Told, Told' PROVE ToldAll'
<1>0. /\ browser # "ok" /\ ~Has(down, "done") /\ down \in Seq(Message) /\ fromAgent \in Seq(Message)
      /\ op \in {"upload", "download"} /\ size' = size
      /\ op' = op /\ Only(down, {"chunk", "done", "error"}) /\ Len(fromAgent) \in Nat
      /\ op = "upload" => Only(fromAgent, {"done", "error"})
  <2>1. op \in {"upload", "download"} /\ browser # "ok" /\ ~Has(down, "done")
    BY DEF Told, IInv, TypeOK, Managed
  <2>2. Only(down, Answers) /\ down \in Seq(Message) /\ fromAgent \in Seq(Message)
    BY DEF IInv, KindInv, TypeOK
  <2>3. Only(down, {"chunk", "done", "error"})
    BY <2>1, <2>2, KindsByOp, Zenon DEF Only
  <2>4. op = "upload" => Only(fromAgent, {"done", "error"})
    BY KindsByOp DEF IInv, KindInv
  <2> QED
    BY <2>1, <2>2, <2>3, <2>4, TransferFixed
<1>1. browser' = "ok" \/ Has(down', "done")
  BY DEF Told, Has
<1>2. ~Receive
  <2> SUFFICES ASSUME Receive PROVE FALSE
    OBVIOUS
  <2>1. down # <<>> /\ down' = Tail(down)
    BY DEF Receive
  <2>2. Head(down).kind \in {"chunk", "error"} /\ ~Has(down', "done")
    BY <1>0, <2>1, TakeMessage
  <2> QED
    BY <1>0, <1>1, <2>2 DEF Receive
<1>3. ~Refuse
  <2> SUFFICES ASSUME Refuse PROVE FALSE
    OBVIOUS
  <2>1. browser' = browser /\ (down' = down \/ down' = Append(down, Msg("error")))
    BY ZenonT(30) DEF Refuse, ToBrowser, console
  <2>2. ~Has(Append(down, Msg("error")), "done")
    BY <1>0, AppendMessage, MessageTypes, ZenonT(30) DEF Kinds
  <2> QED
    BY <1>0, <1>1, <2>1, <2>2, ZenonT(30)
<1>4. Route
  <2>1. ~Control /\ ~Stream /\ ~LinkLost
    <3>1. Control => browser' = browser /\ down' = down
      BY ZenonT(30) DEF Control, OpenUpload, WriteChunk, EndUpload, AbortUpload, StartDownload, Change, List, Handle,
         console, socket
    <3> QED
      BY <1>0, <1>1, <3>1, Streamed, LinkLostKeeps
  <2>2. ~Browser /\ ~SocketBreaks
    BY <1>0, <1>1, <1>2 DEF Browser, SendUpload, SendRequest, SocketCloses, GiveUp, SocketBreaks, console, socket
  <2>3. ~Handler
    BY <1>0, <1>1, <1>3, ZenonT(30) DEF Handler, Start, ReadFrame, ReadError, Delete, CloseTraffic, HangUp, StartManager,
       ReadRequest, ManagerLeaves, console, socket
  <2>4. ~RouteManager /\ ~RouteClose /\ ~RouteDelete /\ ~Cleanup /\ ~Reconnect /\ ~Done
    BY <1>0, <1>1, ZenonT(30)
    DEF RouteManager, RouteClose, RouteDelete, Cleanup, Reconnect, Done, vars, console, socket
  <2> QED
    BY <2>1, <2>2, <2>3, <2>4, ZenonT(30) DEF Next, Router
<1>5. fromAgent # <<>> /\ fromAgent' = Tail(fromAgent) /\ router = "idle"
  BY <1>4 DEF Route
<1>6. UNCHANGED <<browser, endState, row, toAgent, stream>>
  BY <1>4 DEF Route, console, agent
<1>7. Head(fromAgent) \in Message /\ (down' = down \/ down' = Append(down, Head(fromAgent)))
  BY <1>0, <1>4, <1>5, TakeMessage, ZenonT(30) DEF Route, ToBrowser
<1>8. Head(fromAgent).kind = "done"
  <2>1. Has(Append(down, Head(fromAgent)), "done") => Head(fromAgent).kind = "done"
    BY <1>0, <1>7, AppendMessage, ZenonT(30)
  <2> QED
    BY <1>0, <1>1, <1>6, <1>7, <2>1, ZenonT(30)
<1>9. listed
  BY <1>0, <1>1, <1>4, <1>6 DEF Route
<1>10. routed' = "closed" /\ counted' = counted
  BY <1>4, <1>8, <1>9 DEF Route
<1>11. row = "active"
  BY <1>5, <1>9 DEF IInv, RowInv
<1>12. CASE op = "upload"
  <2>1. Has(fromAgent, "done")
    BY <1>0, <1>5, <1>8, TakeMessage
  <2>2. Len(fromAgent) <= 1 /\ counted = size /\ endState = "closed"
    BY <1>12, <2>1 DEF Succeeded, IInv, UploadDone
  <2>3. Len(fromAgent) >= 1 /\ Len(fromAgent') = Len(fromAgent) - 1 /\ fromAgent' \in Seq(Message)
    BY <1>0, <1>5, TakeMessage
  <2>4. Len(fromAgent') = 0
    BY <1>0, <2>2, <2>3
  <2>5. fromAgent' = <<>>
    BY <2>3, <2>4, NoPlace
  <2>6. stream = 0 /\ Only(toAgent, {"upload", "chunk", "end", "error"})
    BY <1>12, KindsByOp, ZenonT(30) DEF IInv, LinkInv, KindInv
  <2>7. Quiet'
    BY <1>6, <2>5, <2>6 DEF Quiet, Has, Only
  <2> QED
    BY <1>0, <1>6, <1>10, <1>11, <2>2, <2>5, <2>7 DEF ToldAll
<1>13. CASE op = "download"
  <2>1. counted = size /\ stream = 0 /\ fromAgent' = <<>> /\ ~Has(toAgent, "download")
    <3>1. size \in Nat /\ counted \in Nat
      BY <1>13, DownTypes
    <3>2. ~(Head(fromAgent) = Part(counted + 1) /\ counted + 1 <= size)
      BY <1>8, <3>1, PartKinds
    <3> QED
      BY <1>4, <1>8, <1>9, <1>13, <3>2, DownloadRouted
  <2>2. endState = "closed"
    BY <1>13 DEF IInv, TypeOK, RowInv, Managed
  <2>3. Quiet'
    BY <1>6, <2>1 DEF Quiet, Has
  <2> QED
    BY <1>0, <1>6, <1>10, <1>11, <2>1, <2>2, <2>3, ZenonT(30) DEF ToldAll
<1> QED
  BY <1>0, <1>12, <1>13

\* And that stays so.
LEMMA ToldStays == ASSUME IInv, Next, ~Managed, Told PROVE ToldAll'
<1>0. /\ size' = size /\ fromAgent = <<>> /\ Quiet /\ counted = size /\ routed = "closed"
      /\ endState = "closed" /\ row # "failed" /\ op \in {"upload", "download"}
      /\ stream = 0 /\ ~Has(toAgent, "download") /\ toAgent \in Seq(Message)
  BY TransferFixed DEF IInv, TypeOK, RowInv, Quiet, Managed
<1>1. handler # "start"
  BY NoMessage DEF Told, IInv, LinkInv
<1>2. op = "upload" => file = "shut" /\ ~Has(toAgent, "upload") /\ ~Has(toAgent, "end") /\ up = <<>>
  BY DEF Told, Succeeded, IInv, UploadDone
<1>3. ASSUME UNCHANGED <<counted, routed, endState>>, row' = row \/ row' = "closed", fromAgent' = <<>>,
             stream' = 0, ~Has(toAgent', "download")
      PROVE  ToldAll'
  BY <1>0, <1>3 DEF ToldAll, Quiet, Has
<1>4. CASE SendUpload \/ Receive \/ SocketCloses \/ GiveUp \/ SocketBreaks \/ Delete \/ CloseTraffic \/ HangUp
           \/ RouteClose \/ RouteDelete \/ Cleanup \/ Reconnect \/ Done
  <2>1. UNCHANGED <<counted, routed, endState, stream, toAgent>> /\ fromAgent' \in {fromAgent, <<>>}
    BY <1>4, ZenonT(30) DEF SendUpload, Receive, SocketCloses, GiveUp, SocketBreaks, Delete, CloseTraffic, HangUp, RouteClose,
       RouteDelete, Cleanup, Reconnect, Done, vars, server, record, agent
  <2>2. row' = row \/ row' = "closed"
    BY <1>0, <1>4, ZenonT(30) DEF SendUpload, Receive, SocketCloses, GiveUp, SocketBreaks, Delete, CloseTraffic, HangUp,
       RouteClose, RouteDelete, CloseRow, Cleanup, Reconnect, Done, vars, record
  <2> QED
    BY <1>0, <1>3, <2>1, <2>2
<1>5. CASE SendRequest \/ StartManager \/ ReadRequest \/ ManagerLeaves \/ RouteManager \/ Start \/ Refuse
           \/ ReadFrame \/ Route \/ Stream
  BY <1>0, <1>1, <1>2, <1>5, ZenonT(30) DEF SendRequest, StartManager, ReadRequest, ManagerLeaves, RouteManager, Start,
     Refuse, ReadFrame, Route, Stream
<1>6. CASE ReadError
  <2>1. UNCHANGED <<counted, routed, endState, stream, row, fromAgent>>
    BY <1>6 DEF ReadError, record, agent
  <2>2. toAgent' \in {toAgent, Append(toAgent, Msg("error"))}
    BY <1>6 DEF ReadError, WriteAgent
  <2>3. Msg("error") \in Message /\ Msg("error").kind = "error"
    BY MessageTypes DEF Kinds
  <2>4. ~Has(Append(toAgent, Msg("error")), "download")
    BY <1>0, <2>3, AppendMessage
  <2> QED
    BY <1>0, <1>3, <2>1, <2>2, <2>4, ZenonT(30)
<1>7. CASE Control
  <2>1. PICK kind : Handle(kind)
    BY <1>7 DEF Control, OpenUpload, WriteChunk, EndUpload, AbortUpload, StartDownload, Change, List
  <2>2. ~Has(toAgent', "download") /\ UNCHANGED <<counted, routed, endState, row>>
    BY <1>0, <2>1, Handled
  <2>3. ~Handle("download") /\ ~Handle("upload") /\ ~Handle("end")
    BY <1>0, <1>2, Handled, KindsByOp
  <2>4. ~Handle("change") /\ ~Handle("list")
    BY <1>0, Handled, KindsByOp
  <2>5. file # "open"
    BY <1>0, <1>2 DEF IInv, LinkInv
  <2>6. UNCHANGED <<fromAgent, stream>>
    BY <1>7, <2>3, <2>4, <2>5 DEF Control, OpenUpload, WriteChunk, EndUpload, AbortUpload, StartDownload,
       Change, List
  <2> QED
    BY <1>0, <1>3, <2>2, <2>6
<1>8. CASE LinkLost
  <2>1. UNCHANGED <<counted, routed, endState, row, stream>> /\ toAgent' = <<>>
    BY <1>8, LinkLostKeeps
  <2>2. fromAgent' = <<>>
    BY <1>0, <1>8 DEF LinkLost
  <2> QED
    BY <1>0, <1>3, <2>1, <2>2, NoMessage
<1> QED
  BY <1>4, <1>5, <1>6, <1>7, <1>8, ZenonT(30) DEF Next, Browser, Handler, Router

\* Together:
LEMMA NextRowInv == ASSUME IInv, Next PROVE RowInv'
<1>1. RowOwn' /\ (Managed' <=> Managed)
  BY NextRowOwn, TransferFixed
<1>2. ~Managed /\ Told' => ToldAll'
  BY ToldFirst, ToldStays
<1> QED
  BY <1>1, <1>2 DEF RowInv, RowOwn, ToldAll

-----------------------------------------------------------------------------
(* The invariant.                                                          *)

\* It holds when the transfer is asked for.
LEMMA InitIInv == Init => IInv
<1> SUFFICES ASSUME Init PROVE IInv
  OBVIOUS
<1>1. TypeOK
  BY InitTypeOK
<1>2. /\ op \in {"upload", "download", "change", "list"} /\ size \in Nat /\ (Managed => size = 1)
      /\ browser = "open" /\ sent = 0 /\ got = <<>> /\ up = <<>> /\ down = <<>>
      /\ handler = "start" /\ endState = "closed" /\ ~listed /\ router = "idle" /\ routed = "closed"
      /\ counted = 0 /\ toAgent = <<>> /\ fromAgent = <<>> /\ file = "none" /\ content = <<>> /\ stream = 0
  BY <1>1 DEF Init, TypeOK
<1>3. /\ Len(up) = 0 /\ Len(down) = 0 /\ Len(toAgent) = 0 /\ Len(fromAgent) = 0 /\ Len(content) = 0
      /\ Len(got) = 0 /\ \A i : i \notin 1..0
  BY <1>2
<1>4. /\ \A kind : ~Has(up, kind) /\ ~Has(down, kind) /\ ~Has(toAgent, kind) /\ ~Has(fromAgent, kind)
      /\ \A kinds : Only(up, kinds) /\ Only(down, kinds) /\ Only(toAgent, kinds) /\ Only(fromAgent, kinds)
  BY <1>2, NoMessage
<1>5. row = IF Managed THEN "none" ELSE "active"
  BY DEF Init
<1>6. KindInv /\ LinkInv
  BY <1>2, <1>4, <1>5 DEF KindInv, LinkInv
<1>7. UpInv
  <2>0. size \in Nat /\ sent = 0 /\ Len(up) = 0
    BY <1>2, <1>3
  <2>1. Read = 0 /\ sent <= size + 1 /\ Len(up) <= sent
    BY <2>0 DEF Read
  <2>2. counted <= Read /\ counted <= size /\ counted = IF Read <= size THEN Read ELSE size
    BY <1>2, <2>1
  <2>3. \A i : i \notin 1..Len(up)
    BY <1>3, ZenonT(30)
  <2> QED
    BY <2>1, <2>2, <2>3 DEF UpInv
<1>8. ~Pending /\ ~Succeeded /\ ~Told
  BY <1>2, <1>4 DEF Pending, Succeeded, Told
<1>9. content = [i \in 1..Len(content) |-> i] /\ got = [i \in 1..Len(got) |-> i]
  <2>1. <<>> = [i \in 1..0 |-> i]
    OBVIOUS
  <2> QED
    BY <1>2, <1>3, <2>1, ZenonT(30)
<1>10. PendingInv /\ FileInv /\ UploadDone
  <2>1. Len(content) <= size
    BY <1>2, <1>3
  <2> QED
    BY <1>2, <1>3, <1>4, <1>8, <1>9, <2>1, ZenonT(30) DEF PendingInv, FileInv, UploadDone
<1>11. StreamInv /\ GotInv
  BY <1>2, <1>3, <1>9 DEF StreamInv, GotInv
<1>12. RowInv
  BY <1>2, <1>5, <1>8 DEF RowInv
<1>13. ManagerInv
  BY <1>2, <1>3, <1>8 DEF ManagerInv
<1> QED
  BY <1>1, <1>6, <1>7, <1>10, <1>11, <1>12, <1>13 DEF IInv

\* Every step keeps it.
LEMMA NextIInv == ASSUME IInv, [Next]_vars PROVE IInv'
<1>1. CASE Next
  <2>1. KindInv'
    BY <1>1, KindHandler, KindAgent
  <2> QED
    BY <1>1, <2>1, NextTypeOK, NextLinkInv, NextUpInv, NextPendingInv, NextFileInv, NextUploadDone,
       NextStreamInv, NextGotInv, NextRowInv, NextManagerInv DEF IInv
<1>2. CASE UNCHANGED vars
  <2>1. UNCHANGED <<op, size, browser, sent, got, up, down, closed, handler, endState, listed, router, routed,
                    row, counted, conn, link, toAgent, fromAgent, file, content, stream, pos>>
    BY <1>2 DEF vars, transfer, console, socket, server, record, device, agent
  <2>2. TypeOK' /\ KindInv' /\ LinkInv'
    BY <2>1 DEF IInv, TypeOK, KindInv, Requests, Answers, Managed, LinkInv, First, Only
  <2>3. UpInv'
    BY <2>1, ZenonT(30) DEF IInv, UpInv, Read, Frame, Msg, Chunk
  <2>4. PendingInv'
    BY <2>1, ZenonT(30) DEF IInv, PendingInv, Pending, First, Base, Read, Has, Frame, Msg, Chunk
  <2>5. FileInv' /\ UploadDone'
    BY <2>1, ZenonT(30) DEF IInv, FileInv, UploadDone, Succeeded, Has, Whole
  <2>6. StreamInv'
    BY <2>1, ZenonT(30) DEF IInv, StreamInv, Quiet, First, Final, Part, Has, Msg, Chunk
  <2>7. GotInv'
    BY <2>1, ZenonT(30) DEF IInv, GotInv, Quiet, Part, Has, Msg, Chunk
  <2>8. RowInv' /\ ManagerInv'
    BY <2>1, ZenonT(30) DEF IInv, RowInv, ManagerInv, Managed, Told, Quiet, Succeeded, Has
  <2> QED
    BY <2>2, <2>3, <2>4, <2>5, <2>6, <2>7, <2>8, ZenonT(30) DEF IInv
<1> QED
  BY <1>1, <1>2

\* So it always holds.
LEMMA Invariance == Spec => []IInv
BY InitIInv, NextIInv, PTL DEF Spec

-----------------------------------------------------------------------------
(* The theorems.                                                           *)

\* Every message and every variable keeps its type (the protocol of
\* internal/protocol/protocol.go as the three sides use it for files).
THEOREM TypeCorrect == Spec => []TypeOK
<1>1. IInv => TypeOK
  BY DEF IInv
<1> QED
  BY <1>1, Invariance, PTL

\* uploadFile resolves only when the device holds every chunk, in order, in a file it
\* has closed, and a change succeeds only when it was made, once: for any size, with
\* any failing write and however often the device connects again (file:done of
\* handleMessage, relayed by routeAgentMessage).
THEOREM UploadReliable == Spec => []UploadDelivered
<1>1. IInv => UploadDelivered
  <2> SUFFICES ASSUME IInv, browser = "ok" PROVE UploadDelivered
    BY DEF UploadDelivered
  <2>1. Succeeded
    BY DEF Succeeded
  <2>2. op = "upload" => content = Whole /\ file = "shut"
    BY <2>1 DEF IInv, UploadDone
  <2>3. op = "change" => content = Whole
    <3> SUFFICES ASSUME op = "change" PROVE content = Whole
      OBVIOUS
    <3>1. size = 1 /\ Len(content) = 1 /\ \A i \in 1..Len(content) : content[i] = 1
      BY <2>1 DEF Managed, IInv, ManagerInv
    <3>2. content \in Seq(Nat)
      BY DEF IInv, TypeOK
    <3>3. content[1] = 1 /\ content = [i \in 1..1 |-> content[i]]
      BY <3>1, <3>2
    <3>4. Whole = [i \in 1..1 |-> i]
      BY <3>1 DEF Whole
    <3>5. \A i \in 1..1 : content[i] = i
      BY <3>3
    <3> QED
      BY <3>3, <3>4, <3>5
  <2> QED
    BY <2>2, <2>3 DEF UploadDelivered
<1> QED
  BY <1>1, Invariance, PTL

\* downloadFile resolves only with the whole file: a goroutine that outlives its
\* device connection sends nothing over the next one (streamFileOn and sendOn), so a
\* gap is never followed by the rest.
THEOREM DownloadWhole == Spec => []DownloadIntact
<1>1. IInv => DownloadIntact
  BY DEF IInv, GotInv, DownloadIntact, Whole
<1> QED
  BY <1>1, Invariance, PTL

\* The row of a transfer that the browser saw succeed is never closed as failed, nor
\* with a chunk uncounted, in whatever order routeAgentMessage and the deferred calls
\* of handleFileWS close it.
THEOREM SuccessRow == Spec => []SuccessRecorded
<1>1. IInv => SuccessRecorded
  <2> SUFFICES ASSUME IInv, browser = "ok", row \notin {"none", "active"} PROVE row = "closed" /\ counted = size
    BY DEF SuccessRecorded
  <2>1. ~Managed /\ Told /\ row \in {"closed", "failed"}
    BY DEF IInv, RowInv, TypeOK, Told
  <2> QED
    BY <2>1 DEF IInv, RowInv
<1> QED
  BY <1>1, Invariance, PTL

=============================================================================
