------------------------ MODULE TransferUploadProofs ------------------------
(***************************************************************************)
(* The inductive invariant of Transfer and the proofs of its parts about   *)
(* uploads and the file manager: an upload or a change that succeeds is on *)
(* the device, for files of any size, any browser limit and any number of  *)
(* device connections.  Downloads, the row and the theorems about the      *)
(* specification are in TransferProofs.                                    *)
(***************************************************************************)
EXTENDS Transfer, TLAPS

Kinds == {"upload", "download", "change", "list", "chunk", "end", "error", "done", "result"}
Message == [kind : Kinds, n : Nat]

TypeOK ==
  /\ op \in {"upload", "download", "change", "list"} /\ size \in Nat
  /\ browser \in {"open", "ok", "failed"} /\ sent \in Nat /\ got \in Seq(Nat)
  /\ up \in Seq(Message) /\ down \in Seq(Message) /\ closed \in BOOLEAN
  /\ handler \in {"start", "read", "delete", "close", "hangup", "gone"}
  /\ endState \in {"closed", "failed"} /\ listed \in BOOLEAN
  /\ router \in {"idle", "close", "delete"} /\ routed \in {"closed", "failed"}
  /\ row \in {"none", "active", "closed", "failed"} /\ counted \in Nat
  /\ conn \in Nat \ {0} /\ link \in {"up", "lost", "down"}
  /\ toAgent \in Seq(Message) /\ fromAgent \in Seq(Message)
  /\ file \in {"none", "open", "shut"} /\ content \in Seq(Nat)
  /\ stream \in {0, 1} /\ pos \in Nat

Has(q, kind) == \E i \in 1..Len(q) : q[i].kind = kind
Only(q, kinds) == \A i \in 1..Len(q) : q[i].kind \in kinds

\* What is sent, by operation.
Requests == CASE op = "upload" -> {"upload", "chunk", "end", "error"}
              [] op = "download" -> {"download", "error"}
              [] OTHER -> {op}
Answers == CASE op = "download" -> {"chunk", "done", "error"}
             [] op = "list" -> {"result", "error"}
             [] OTHER -> {"done", "error"}
KindInv ==
  /\ Only(toAgent, Requests) /\ Only(fromAgent, Answers) /\ Only(down, Answers)
  /\ Managed => Only(up, {op})
  /\ op = "download" => up = <<>>

\* The handler writes to the first connection alone, and that one only lasts while
\* it is up.  A handler that met an error has lost it.
First == conn = 1 /\ link = "up"
LinkInv ==
  /\ ~First => toAgent = <<>>
  /\ endState = "failed" => ~First
  /\ op # "upload" => file = "none"
  /\ op # "download" => stream = 0
  /\ handler = "start" =>
       /\ toAgent = <<>> /\ fromAgent = <<>> /\ down = <<>> /\ got = <<>> /\ content = <<>>
       /\ file = "none" /\ stream = 0 /\ counted = 0 /\ ~listed /\ router = "idle"
       /\ row \in {"none", "active"} /\ browser # "ok"

\* The frames of an upload, 0 being the request, and those the handler has read.
Frame(k) == IF k = 0 THEN Msg("upload") ELSE IF k <= size THEN Chunk(k) ELSE Msg("end")
Read == sent - Len(up)

UpInv ==
  op = "upload" =>
    /\ sent <= size + 1 /\ Len(up) <= sent
    /\ \A i \in 1..Len(up) : up[i] = Frame(Read + i)
    /\ handler = "start" => Read = 0
    /\ counted <= Read /\ counted <= size
    /\ handler = "read" /\ row = "active" => counted = IF Read <= size THEN Read ELSE size

\* The upload may still succeed: the device has the file open, or will be asked to.
Pending == First /\ (file = "open" \/ Has(toAgent, "upload"))

\* Frames the device has written or passed.
Base == IF file = "open" THEN Len(content) ELSE -1

PendingInv ==
  op = "upload" /\ Pending =>
    /\ \A i \in 1..Len(toAgent) :
         \/ toAgent[i] = Frame(Base + i) /\ Base + i <= size + 1
         \/ i = Len(toAgent) /\ toAgent[i] = Msg("error") /\ handler # "read"
    /\ handler = "read" => Read = Base + Len(toAgent) /\ row = "active"
    /\ \A i \in 1..Len(toAgent) : toAgent[i].kind = "chunk" => Base + i <= counted
    /\ file = "open" => Len(content) <= counted
    /\ fromAgent = <<>> /\ router = "idle" /\ browser # "ok" /\ ~Has(down, "done")

FileInv ==
  op = "upload" =>
    /\ content = [i \in 1..Len(content) |-> i] /\ Len(content) <= size
    /\ Has(toAgent, "upload") => file = "none" /\ content = <<>>
    /\ Has(toAgent, "end") => up = <<>> /\ sent = size + 1

\* The device said that all went well.
Succeeded == browser = "ok" \/ Has(down, "done") \/ Has(fromAgent, "done")

UploadDone ==
  op = "upload" /\ Succeeded =>
    /\ content = Whole /\ file = "shut" /\ ~Has(toAgent, "upload") /\ ~Has(toAgent, "end")
    /\ Len(fromAgent) <= 1 /\ ~Has(fromAgent, "error")
    /\ up = <<>> /\ sent = size + 1 /\ counted = size /\ endState = "closed"

\* The messages of a download; its last may be an error instead.
Part(k) == IF k <= size THEN Chunk(k) ELSE Msg("done")

Final(m) == m.kind \in {"done", "error"}

\* Nothing of the download is under way or will be.
Quiet == stream = 0 /\ fromAgent = <<>> /\ ~Has(toAgent, "download")

StreamInv ==
  op = "download" =>
    /\ \A i \in 1..Len(toAgent) :
         toAgent[i].kind = "download" =>
           /\ i = 1 /\ stream = 0 /\ fromAgent = <<>> /\ down = <<>> /\ got = <<>> /\ counted = 0
           /\ router = "idle" /\ browser # "ok"
    /\ \A i \in 1..Len(fromAgent) : Final(fromAgent[i]) => i = Len(fromAgent) /\ stream = 0
    /\ counted <= size
    /\ listed /\ router = "idle" =>
         /\ \A i \in 1..Len(fromAgent) :
              fromAgent[i] = Part(counted + i) \/ fromAgent[i] = Msg("error")
         /\ First /\ stream = 1 => pos = counted + Len(fromAgent)
    /\ router # "idle" => Quiet

GotInv ==
  op = "download" =>
    /\ got = [i \in 1..Len(got) |-> i] /\ Len(got) <= size
    /\ browser = "ok" => Len(got) = size
    /\ browser = "open" =>
         \A i \in 1..Len(down) : down[i] = Part(Len(got) + i) \/ down[i] = Msg("error")
    /\ listed /\ router = "idle" /\ browser = "open" /\ ~closed /\ ~Quiet =>
         Len(got) + Len(down) = counted

\* The browser has been told so, too.
Told == browser = "ok" \/ Has(down, "done")

RowInv ==
  /\ Managed <=> row = "none"
  /\ Managed => handler # "close" /\ router # "close"
  /\ ~Managed =>
       /\ row # "active" => ~listed \/ router = "delete"
       /\ handler \in {"close", "hangup", "gone"} => ~listed
       /\ endState = "failed" => op = "upload"
       /\ Told => /\ fromAgent = <<>> /\ Quiet /\ counted = size /\ routed = "closed"
                  /\ endState = "closed" /\ row # "failed"

\* A request to change something is sent once, and done at most once.
ManagerInv ==
  Managed =>
    /\ size = 1 /\ sent <= 1 /\ Len(up) + Len(toAgent) + Len(content) <= sent
    /\ \A i \in 1..Len(content) : content[i] = 1
    /\ op = "change" /\ Succeeded => Len(content) = 1

IInv == /\ TypeOK /\ KindInv /\ LinkInv /\ UpInv /\ PendingInv /\ FileInv /\ UploadDone
        /\ StreamInv /\ GotInv /\ RowInv /\ ManagerInv

-----------------------------------------------------------------------------
(* Sequences of messages.                                                  *)

\* The places of a queue that is empty, of one with a message more and of one with
\* a message less.
LEMMA Places ==
  /\ \A i : i \notin 1..0
  /\ \A n \in Nat : \A i \in 1..(n + 1) : i \in 1..n \/ i = n + 1
  /\ \A n \in Nat : n + 1 \in 1..(n + 1) /\ \A i \in 1..n : i \in 1..(n + 1)
  /\ \A n \in Nat : \A i \in 1..(n - 1) : i + 1 \in 1..n /\ (i + 1 = n => i = n - 1)
OBVIOUS

\* As a queue moves up by one place, the count of what is before it grows by one.
LEMMA OneLess == \A k \in Int : \A n : \A i \in 1..n : (k + 1) + i = k + (i + 1)
OBVIOUS

\* A sequence is empty when it has no place.
LEMMA NoPlace == ASSUME NEW S, NEW q \in Seq(S) PROVE Len(q) = 0 <=> q = <<>>
OBVIOUS

\* A number that is appended is the last, and the others stay where they are.
LEMMA AppendNumber ==
  ASSUME NEW q \in Seq(Nat), NEW k \in Nat
  PROVE  /\ Append(q, k) \in Seq(Nat) /\ Len(Append(q, k)) = Len(q) + 1
         /\ \A i \in 1..Len(q) : Append(q, k)[i] = q[i]
         /\ Append(q, k)[Len(q) + 1] = k
OBVIOUS

\* A message that is appended is the last, and the others stay where they are.
LEMMA AppendMessage ==
  ASSUME NEW q \in Seq(Message), NEW m \in Message
  PROVE  /\ Append(q, m) \in Seq(Message) /\ Append(q, m) # <<>>
         /\ Len(Append(q, m)) = Len(q) + 1
         /\ Len(q) \in Nat /\ \A i \in 1..Len(Append(q, m)) : i \in 1..Len(q) \/ i = Len(q) + 1
         /\ \A i \in 1..Len(q) : Append(q, m)[i] = q[i]
         /\ Append(q, m)[Len(q) + 1] = m
         /\ \A kind : Has(Append(q, m), kind) <=> Has(q, kind) \/ m.kind = kind
         /\ \A kinds : Only(Append(q, m), kinds) <=> Only(q, kinds) /\ m.kind \in kinds
<1>1. /\ Append(q, m) \in Seq(Message) /\ Append(q, m) # <<>>
      /\ Len(Append(q, m)) = Len(q) + 1
      /\ \A i \in 1..Len(q) : Append(q, m)[i] = q[i]
      /\ Append(q, m)[Len(q) + 1] = m
  OBVIOUS
<1>2. Len(q) \in Nat
  OBVIOUS
<1>3. \A i \in 1..(Len(q) + 1) : i \in 1..Len(q) \/ i = Len(q) + 1
  BY <1>2, Places
<1>4. \A i \in 1..Len(q) : i \in 1..(Len(q) + 1)
  BY <1>2, Places
<1>5. Len(q) + 1 \in 1..(Len(q) + 1)
  BY <1>2, Places
<1>6. \A kind : Has(Append(q, m), kind) <=> Has(q, kind) \/ m.kind = kind
  BY <1>1, <1>3, <1>4, <1>5, Zenon DEF Has
<1>7. \A kinds : Only(Append(q, m), kinds) <=> Only(q, kinds) /\ m.kind \in kinds
  BY <1>1, <1>3, <1>4, <1>5, Zenon DEF Only
<1> QED
  BY <1>1, <1>2, <1>3, <1>6, <1>7, ZenonT(30)

\* Taking the first message shifts the others.
LEMMA TakeMessage ==
  ASSUME NEW q \in Seq(Message), q # <<>>
  PROVE  /\ Head(q) \in Message /\ Head(q) = q[1] /\ Len(q) >= 1
         /\ Tail(q) \in Seq(Message) /\ Len(Tail(q)) = Len(q) - 1
         /\ \A i \in 1..Len(Tail(q)) : Tail(q)[i] = q[i + 1] /\ i + 1 \in 1..Len(q)
         /\ \A i \in 1..Len(Tail(q)) : i + 1 = Len(q) => i = Len(Tail(q))
         /\ \A kind : Has(q, kind) <=> Head(q).kind = kind \/ Has(Tail(q), kind)
         /\ \A kinds : Only(q, kinds) <=> Head(q).kind \in kinds /\ Only(Tail(q), kinds)
<1>1. /\ Head(q) \in Message /\ Head(q) = q[1]
      /\ Tail(q) \in Seq(Message) /\ Len(Tail(q)) = Len(q) - 1
      /\ \A i \in 1..Len(Tail(q)) : Tail(q)[i] = q[i + 1]
  OBVIOUS
<1>2. Len(q) \in Nat /\ Len(q) >= 1
  OBVIOUS
<1>3. \A i \in 1..Len(Tail(q)) : i + 1 \in 1..Len(q) /\ (i + 1 = Len(q) => i = Len(Tail(q)))
  BY <1>1, <1>2, Places, ZenonT(30)
<1>4. \A i \in 1..Len(q) : i = 1 \/ (i - 1 \in 1..Len(Tail(q)) /\ Tail(q)[i - 1] = q[i])
  BY <1>1, <1>2
<1>5. 1 \in 1..Len(q)
  BY <1>2
<1>6. \A kind : Has(q, kind) <=> Head(q).kind = kind \/ Has(Tail(q), kind)
  BY <1>1, <1>3, <1>4, <1>5, Zenon DEF Has
<1>7. \A kinds : Only(q, kinds) <=> Head(q).kind \in kinds /\ Only(Tail(q), kinds)
  BY <1>1, <1>3, <1>4, <1>5, Zenon DEF Only
<1> QED
  BY <1>1, <1>2, <1>3, <1>6, <1>7, ZenonT(30)

\* A part of the messages, from the first on, is what a broken connection delivers.
LEMMA PrefixMessages ==
  ASSUME NEW q \in Seq(Message), NEW k \in 0..Len(q)
  PROVE  /\ SubSeq(q, 1, k) \in Seq(Message) /\ Len(SubSeq(q, 1, k)) = k
         /\ \A i \in 1..k : SubSeq(q, 1, k)[i] = q[i] /\ i \in 1..Len(q)
         /\ \A kind : Has(SubSeq(q, 1, k), kind) => Has(q, kind)
         /\ \A kinds : Only(q, kinds) => Only(SubSeq(q, 1, k), kinds)
<1>1. Len(q) \in Nat /\ k \in Nat /\ \A i \in 1..k : i \in 1..Len(q)
  OBVIOUS
<1>2. /\ SubSeq(q, 1, k) \in Seq(Message) /\ Len(SubSeq(q, 1, k)) = k
      /\ \A i \in 1..k : SubSeq(q, 1, k)[i] = q[i]
  BY <1>1
<1> QED
  BY <1>1, <1>2, Zenon DEF Has, Only

\* No message is left in an empty queue.
LEMMA NoMessage ==
  /\ <<>> \in Seq(Message) /\ Len(<<>>) = 0 /\ \A i : i \notin 1..Len(<<>>)
  /\ \A kind : ~Has(<<>>, kind)
  /\ \A kinds : Only(<<>>, kinds)
<1>1. <<>> \in Seq(Message) /\ Len(<<>>) = 0 /\ \A i : i \notin 1..0
  BY Places
<1> QED
  BY <1>1 DEF Has, Only

\* Chunks and the other messages are messages.
LEMMA MessageTypes ==
  /\ \A i \in Nat : Chunk(i) \in Message /\ Chunk(i).kind = "chunk" /\ Chunk(i).n = i
  /\ \A kind \in Kinds : Msg(kind) \in Message /\ Msg(kind).kind = kind
BY DEF Chunk, Msg, Message, Kinds

-----------------------------------------------------------------------------
(* Type correctness.                                                       *)

\* A transfer that has just been asked for is well typed.
LEMMA InitTypeOK == Init => TypeOK
<1> SUFFICES ASSUME Init PROVE TypeOK
  OBVIOUS
<1>1. size \in Nat
  BY SizeAssumption DEF Init
<1>2. <<>> \in Seq(Message) /\ <<>> \in Seq(Nat)
  OBVIOUS
<1>3. row \in {"none", "active", "closed", "failed"}
  BY DEF Init
<1>4. closed \in BOOLEAN /\ listed \in BOOLEAN
  BY ZenonT(30) DEF Init
<1> QED
  BY <1>1, <1>2, <1>3, <1>4 DEF Init, TypeOK

\* The steps of the browser keep the types.
LEMMA BrowserTypeOK == ASSUME IInv, Browser \/ SocketBreaks PROVE TypeOK'
<1> USE DEF IInv, TypeOK, transfer, console, socket, server, record, device, agent
<1>1. ASSUME SendUpload PROVE TypeOK'
  <2>1. (IF sent = size THEN Msg("end") ELSE Chunk(sent + 1)) \in Message
    BY MessageTypes DEF Kinds
  <2>2. up' \in Seq(Message)
    BY <1>1, <2>1, AppendMessage DEF SendUpload
  <2> QED
    BY <1>1, <2>2 DEF SendUpload
<1>2. ASSUME SendRequest PROVE TypeOK'
  <2>1. Msg(op) \in Message
    BY MessageTypes DEF Kinds
  <2>2. up' \in Seq(Message)
    BY <1>2, <2>1, AppendMessage DEF SendRequest
  <2> QED
    BY <1>2, <2>2 DEF SendRequest
<1>3. ASSUME Receive PROVE TypeOK'
  <2>1. Head(down).n \in Nat /\ down' \in Seq(Message)
    BY <1>3, TakeMessage, ZenonT(30) DEF Receive, Message
  <2>2. got' = got \/ got' = Append(got, Head(down).n)
    BY <1>3 DEF Receive
  <2>3. Append(got, Head(down).n) \in Seq(Nat)
    BY <2>1, AppendNumber
  <2>4. got' \in Seq(Nat)
    BY <2>2, <2>3, ZenonT(30)
  <2> QED
    BY <1>3, <2>1, <2>4 DEF Receive
<1>4. ASSUME SocketCloses PROVE TypeOK'
  BY <1>4 DEF SocketCloses
<1>5. ASSUME GiveUp PROVE TypeOK'
  BY <1>5 DEF GiveUp
<1>6. ASSUME SocketBreaks PROVE TypeOK'
  BY <1>6 DEF SocketBreaks
<1> QED
  BY <1>1, <1>2, <1>3, <1>4, <1>5, <1>6 DEF Browser

\* A write to the device appends the message or leaves the queue as it is.
LEMMA WriteAgentAppends ==
  ASSUME toAgent \in Seq(Message), NEW m \in Message, NEW ok, WriteAgent(m, ok)
  PROVE  /\ toAgent' \in Seq(Message)
         /\ First => ok /\ toAgent' = Append(toAgent, m)
         /\ ~First => toAgent' = toAgent
BY AppendMessage DEF WriteAgent, First

\* It adds no other kind of message.
LEMMA WriteAgentOnly ==
  ASSUME toAgent \in Seq(Message), NEW m \in Message, NEW ok, WriteAgent(m, ok),
         NEW kinds, m.kind \in kinds, Only(toAgent, kinds)
  PROVE  Only(toAgent', kinds)
<1>1. toAgent' = toAgent \/ toAgent' = Append(toAgent, m)
  BY DEF WriteAgent
<1>2. Only(Append(toAgent, m), kinds)
  BY AppendMessage
<1> QED
  BY <1>1, <1>2, ZenonT(30)

\* So does a write to the browser.
LEMMA ToBrowserAppends ==
  ASSUME TypeOK, NEW m \in Message, ToBrowser(m)
  PROVE  /\ down' \in Seq(Message) /\ closed' \in BOOLEAN
         /\ browser = "open" /\ ~closed => down' = Append(down, m) /\ closed' = closed
         /\ browser # "open" \/ closed => down' = down
<1>1. CASE browser = "open" /\ ~closed
  <2>1. down' = Append(down, m) /\ closed' = closed
    BY <1>1, ZenonT(30) DEF ToBrowser
  <2> QED
    BY <1>1, <2>1, AppendMessage DEF TypeOK
<1>2. CASE browser # "open" \/ closed
  BY <1>2, ZenonT(30) DEF ToBrowser, TypeOK
<1> QED
  BY <1>1, <1>2

\* The steps of the handler keep the types.
LEMMA HandlerTypeOK == ASSUME IInv, Handler PROVE TypeOK'
<1> USE DEF IInv, TypeOK, transfer, console, socket, server, record, device, agent
<1>1. ASSUME Start PROVE TypeOK'
  <2>1. Msg(op) \in Message
    BY MessageTypes DEF Kinds
  <2>2. toAgent' \in Seq(Message)
    BY <1>1, <2>1, WriteAgentAppends DEF Start
  <2> QED
    BY <1>1, <2>2 DEF Start
<1>2. ASSUME ReadFrame PROVE TypeOK'
  <2>1. Head(up) \in Message /\ up' \in Seq(Message)
    BY <1>2, TakeMessage DEF ReadFrame
  <2>2. toAgent' \in Seq(Message)
    BY <1>2, <2>1, WriteAgentAppends DEF ReadFrame
  <2>3. counted' \in Nat
    BY <1>2 DEF ReadFrame, Add
  <2> QED
    BY <1>2, <2>1, <2>2, <2>3 DEF ReadFrame
<1>3. ASSUME ReadError PROVE TypeOK'
  <2>1. Msg("error") \in Message
    BY MessageTypes DEF Kinds
  <2>2. toAgent' \in Seq(Message)
    BY <1>3, <2>1, WriteAgentAppends DEF ReadError
  <2> QED
    BY <1>3, <2>2 DEF ReadError
<1>4. ASSUME Refuse PROVE TypeOK'
  <2>1. Msg("error") \in Message
    BY MessageTypes DEF Kinds
  <2>2. down' \in Seq(Message) /\ closed' \in BOOLEAN
    BY <1>4, <2>1, ToBrowserAppends DEF Refuse
  <2> QED
    BY <1>4, <2>2 DEF Refuse
<1>5. ASSUME ReadRequest PROVE TypeOK'
  <2>1. Head(up) \in Message /\ up' \in Seq(Message)
    BY <1>5, TakeMessage DEF ReadRequest
  <2>2. toAgent' \in Seq(Message)
    BY <1>5, <2>1, WriteAgentAppends DEF ReadRequest
  <2> QED
    BY <1>5, <2>1, <2>2 DEF ReadRequest
<1>6. ASSUME Delete PROVE TypeOK'
  <2>1. handler' \in {"hangup", "close"} /\ listed' \in BOOLEAN
    BY <1>6, ZenonT(30) DEF Delete
  <2> QED
    BY <1>6, <2>1 DEF Delete
<1>7. ASSUME CloseTraffic PROVE TypeOK'
  BY <1>7 DEF CloseTraffic, CloseRow
<1>8. ASSUME HangUp PROVE TypeOK'
  BY <1>8 DEF HangUp
<1>9. ASSUME StartManager PROVE TypeOK'
  BY <1>9 DEF StartManager
<1>10. ASSUME ManagerLeaves PROVE TypeOK'
  BY <1>10 DEF ManagerLeaves
<1> QED
  BY <1>1, <1>2, <1>3, <1>4, <1>5, <1>6, <1>7, <1>8, <1>9, <1>10 DEF Handler

\* The steps of the router keep the types.
LEMMA RouterTypeOK == ASSUME IInv, Router PROVE TypeOK'
<1> USE DEF IInv, TypeOK, transfer, console, socket, server, record, device, agent
<1>1. ASSUME Route PROVE TypeOK'
  <2>1. Head(fromAgent) \in Message /\ fromAgent' \in Seq(Message)
    BY <1>1, TakeMessage DEF Route
  <2>2. (down' = down /\ closed' = closed) \/ ToBrowser(Head(fromAgent))
    BY <1>1 DEF Route
  <2>3. down' \in Seq(Message) /\ closed' \in BOOLEAN
    BY <2>1, <2>2, ToBrowserAppends
  <2>4. counted' \in Nat
    BY <1>1 DEF Route, Add
  <2>5. router' \in {"idle", "close"} /\ routed' \in {"closed", "failed"}
    BY <1>1 DEF Route
  <2> QED
    BY <1>1, <2>1, <2>3, <2>4, <2>5 DEF Route
<1>2. ASSUME RouteManager PROVE TypeOK'
  <2>1. Head(fromAgent) \in Message /\ fromAgent' \in Seq(Message)
    BY <1>2, TakeMessage DEF RouteManager
  <2>2. down' = down \/ down' = Append(down, Head(fromAgent))
    BY <1>2 DEF RouteManager
  <2>3. Append(down, Head(fromAgent)) \in Seq(Message)
    BY <2>1, AppendMessage
  <2>4. router' \in {"idle", "delete"}
    BY <1>2 DEF RouteManager
  <2>5. down' \in Seq(Message)
    BY <2>2, <2>3, ZenonT(30)
  <2> QED
    BY <1>2, <2>1, <2>4, <2>5 DEF RouteManager
<1>3. ASSUME RouteClose PROVE TypeOK'
  BY <1>3 DEF RouteClose, CloseRow
<1>4. ASSUME RouteDelete PROVE TypeOK'
  <2>1. listed' \in BOOLEAN /\ closed' \in BOOLEAN
    BY <1>4, ZenonT(30) DEF RouteDelete
  <2> QED
    BY <1>4, <2>1 DEF RouteDelete
<1> QED
  BY <1>1, <1>2, <1>3, <1>4 DEF Router

\* A write of the agent for connection c appends the message while c is up.
LEMMA SendOnAppends ==
  ASSUME fromAgent \in Seq(Message), NEW c, NEW m \in Message, NEW ok, SendOn(c, m, ok)
  PROVE  /\ fromAgent' \in Seq(Message)
         /\ conn = c /\ link = "up" => ok /\ fromAgent' = Append(fromAgent, m)
         /\ conn # c \/ link # "up" => fromAgent' = fromAgent
BY AppendMessage DEF SendOn

\* What the control loop takes is the first message, which came over the first
\* connection; its answer goes out over the same.
LEMMA Handled ==
  ASSUME IInv, NEW kind, Handle(kind)
  PROVE  /\ First /\ toAgent # <<>> /\ Head(toAgent).kind = kind /\ kind \in Requests
         /\ Head(toAgent) = toAgent[1] /\ Head(toAgent) \in Message
         /\ toAgent' = Tail(toAgent) /\ toAgent' \in Seq(Message)
         /\ Len(toAgent) >= 1 /\ Len(toAgent') = Len(toAgent) - 1
         /\ \A i \in 1..Len(toAgent') : toAgent'[i] = toAgent[i + 1] /\ i + 1 \in 1..Len(toAgent)
         /\ \A i \in 1..Len(toAgent') : i + 1 = Len(toAgent) => i = Len(toAgent')
         /\ \A k : Has(toAgent, k) <=> kind = k \/ Has(toAgent', k)
         /\ \A ks : Only(toAgent, ks) <=> kind \in ks /\ Only(toAgent', ks)
         /\ UNCHANGED <<op, size, browser, sent, got, up, down, closed, handler, endState, listed,
                        router, routed, row, counted, conn, link>>
<1>1. toAgent # <<>> /\ Head(toAgent).kind = kind /\ toAgent' = Tail(toAgent)
  BY DEF Handle
<1>2. First
  BY <1>1 DEF IInv, LinkInv
<1>3. toAgent \in Seq(Message) /\ Only(toAgent, Requests)
  BY DEF IInv, TypeOK, KindInv
<1>4. /\ Head(toAgent) = toAgent[1] /\ Head(toAgent) \in Message /\ Tail(toAgent) \in Seq(Message)
      /\ Len(toAgent) >= 1 /\ Len(Tail(toAgent)) = Len(toAgent) - 1
      /\ \A i \in 1..Len(Tail(toAgent)) :
           /\ Tail(toAgent)[i] = toAgent[i + 1] /\ i + 1 \in 1..Len(toAgent)
           /\ i + 1 = Len(toAgent) => i = Len(Tail(toAgent))
      /\ \A k : Has(toAgent, k) <=> Head(toAgent).kind = k \/ Has(Tail(toAgent), k)
      /\ \A ks : Only(toAgent, ks) <=> Head(toAgent).kind \in ks /\ Only(Tail(toAgent), ks)
  BY <1>1, <1>3, TakeMessage
<1>5. kind \in Requests
  BY <1>1, <1>3, <1>4, ZenonT(30)
<1>6. UNCHANGED <<op, size, browser, sent, got, up, down, closed, handler, endState, listed,
                  router, routed, row, counted, conn, link>>
  BY DEF Handle, transfer, console, socket, server, record, device
<1> QED
  BY <1>1, <1>2, <1>4, <1>5, <1>6, ZenonT(30)

\* The control loop's answer to it.
LEMMA Replied ==
  ASSUME IInv, First, NEW kind \in Kinds, Reply(kind)
  PROVE  fromAgent' = Append(fromAgent, Msg(kind)) /\ fromAgent' \in Seq(Message)
<1>1. Msg(kind) \in Message /\ fromAgent \in Seq(Message)
  BY MessageTypes DEF IInv, TypeOK
<1>2. SendOn(conn, Msg(kind), TRUE) /\ link = "up"
  BY ZenonT(30) DEF Reply, First
<1> QED
  BY <1>1, <1>2, SendOnAppends, ZenonT(30)

\* The control loop changes nothing but what the agent keeps and sends.
LEMMA HandledTypeOK ==
  ASSUME IInv, NEW kind, Handle(kind), fromAgent' \in Seq(Message),
         file' \in {"none", "open", "shut"}, content' \in Seq(Nat), stream' \in {0, 1}, pos' \in Nat
  PROVE  TypeOK'
<1>1. /\ toAgent' \in Seq(Message)
      /\ UNCHANGED <<op, size, browser, sent, got, up, down, closed, handler, endState, listed,
                     router, routed, row, counted, conn, link>>
  BY Handled
<1> QED
  BY <1>1 DEF IInv, TypeOK

\* The steps of the control loop keep the types.
LEMMA ControlTypeOK == ASSUME IInv, Control PROVE TypeOK'
<1> USE DEF Kinds
<1>0. /\ fromAgent \in Seq(Message) /\ file \in {"none", "open", "shut"}
      /\ content \in Seq(Nat) /\ stream \in {0, 1} /\ pos \in Nat
  BY DEF IInv, TypeOK
<1>1. ASSUME OpenUpload PROVE TypeOK'
  <2>1. /\ Handle("upload") /\ (fromAgent' = fromAgent \/ Reply("error"))
        /\ file' \in {file, "open"} /\ UNCHANGED <<content, stream, pos>>
    BY <1>1 DEF OpenUpload
  <2>2. fromAgent' \in Seq(Message)
    BY <1>0, <2>1, Handled, Replied
  <2> QED
    BY <1>0, <2>1, <2>2, HandledTypeOK
<1>2. ASSUME WriteChunk PROVE TypeOK'
  <2>1. /\ Handle("chunk") /\ (fromAgent' = fromAgent \/ Reply("error"))
        /\ file' \in {file, "shut"} /\ UNCHANGED <<stream, pos>>
        /\ content' = content \/ content' = Append(content, Head(toAgent).n)
    BY <1>2 DEF WriteChunk
  <2>2. fromAgent' \in Seq(Message)
    BY <1>0, <2>1, Handled, Replied
  <2>3. Head(toAgent).n \in Nat
    BY <2>1, Handled DEF Message
  <2>4. Append(content, Head(toAgent).n) \in Seq(Nat)
    BY <1>0, <2>3, AppendNumber
  <2> QED
    BY <1>0, <2>1, <2>2, <2>4, HandledTypeOK, ZenonT(30)
<1>3. ASSUME EndUpload PROVE TypeOK'
  <2>1. /\ Handle("end") /\ (Reply("done") \/ Reply("error"))
        /\ file' \in {file, "shut"} /\ UNCHANGED <<content, stream, pos>>
    BY <1>3 DEF EndUpload
  <2>2. fromAgent' \in Seq(Message)
    BY <2>1, Handled, Replied
  <2> QED
    BY <1>0, <2>1, <2>2, HandledTypeOK
<1>4. ASSUME AbortUpload PROVE TypeOK'
  <2>1. Handle("error") /\ file' \in {file, "shut"} /\ UNCHANGED <<fromAgent, content, stream, pos>>
    BY <1>4 DEF AbortUpload
  <2> QED
    BY <1>0, <2>1, HandledTypeOK
<1>5. ASSUME StartDownload PROVE TypeOK'
  <2>1. /\ Handle("download") /\ stream' = conn /\ pos' = 0
        /\ UNCHANGED <<fromAgent, file, content>>
    BY <1>5 DEF StartDownload
  <2>2. stream' = 1
    BY <2>1, Handled DEF First
  <2> QED
    BY <1>0, <2>1, <2>2, HandledTypeOK
<1>6. ASSUME Change PROVE TypeOK'
  <2>1. /\ Handle("change") /\ (Reply("done") \/ Reply("error")) /\ UNCHANGED <<file, stream, pos>>
        /\ content' = content \/ content' = Append(content, 1)
    BY <1>6 DEF Change
  <2>2. fromAgent' \in Seq(Message)
    BY <2>1, Handled, Replied
  <2>3. Append(content, 1) \in Seq(Nat)
    BY <1>0, AppendNumber
  <2> QED
    BY <1>0, <2>1, <2>2, <2>3, HandledTypeOK, ZenonT(30)
<1>7. ASSUME List PROVE TypeOK'
  <2>1. /\ Handle("list") /\ (Reply("result") \/ Reply("error"))
        /\ UNCHANGED <<file, content, stream, pos>>
    BY <1>7 DEF List
  <2>2. fromAgent' \in Seq(Message)
    BY <2>1, Handled, Replied
  <2> QED
    BY <1>0, <2>1, <2>2, HandledTypeOK
<1> QED
  BY <1>1, <1>2, <1>3, <1>4, <1>5, <1>6, <1>7 DEF Control

\* The goroutine of a download sends a chunk, the end or an error, while the first
\* connection is up, and otherwise nothing.
LEMMA Streamed ==
  ASSUME IInv, Stream
  PROVE  /\ stream = 1 /\ op = "download"
         /\ fromAgent' \in Seq(Message)
         /\ ~First => fromAgent' = fromAgent
         /\ First =>
              \/ /\ pos < size /\ fromAgent' = Append(fromAgent, Chunk(pos + 1))
                 /\ pos' = pos + 1 /\ stream' = 1
              \/ pos = size /\ fromAgent' = Append(fromAgent, Msg("done")) /\ stream' = 0
              \/ fromAgent' = Append(fromAgent, Msg("error")) /\ stream' = 0
         /\ stream' \in {0, 1} /\ pos' \in Nat
         /\ UNCHANGED <<op, size, browser, sent, got, up, down, closed, handler, endState, listed,
                        router, routed, row, counted, conn, link, toAgent, file, content>>
<1>1. stream = 1 /\ op = "download" /\ fromAgent \in Seq(Message) /\ pos \in Nat /\ size \in Nat
  BY DEF Stream, IInv, TypeOK, LinkInv
<1>2. UNCHANGED <<op, size, browser, sent, got, up, down, closed, handler, endState, listed,
                  router, routed, row, counted, conn, link, toAgent, file, content>>
  BY DEF Stream, transfer, console, socket, server, record, device
<1>3. PICK ok \in BOOLEAN :
        \/ /\ pos < size /\ SendOn(stream, Chunk(pos + 1), ok)
           /\ pos' = pos + 1 /\ stream' = IF ok THEN stream ELSE 0
        \/ pos = size /\ SendOn(stream, Msg("done"), ok) /\ stream' = 0 /\ UNCHANGED pos
        \/ SendOn(stream, Msg("error"), ok) /\ stream' = 0 /\ UNCHANGED pos
  BY DEF Stream
<1>4. Chunk(pos + 1) \in Message /\ Msg("done") \in Message /\ Msg("error") \in Message
  BY <1>1, MessageTypes DEF Kinds
<1>5. CASE /\ pos < size /\ SendOn(1, Chunk(pos + 1), ok)
           /\ pos' = pos + 1 /\ stream' = IF ok THEN 1 ELSE 0
  <2>1. /\ fromAgent' \in Seq(Message)
        /\ conn = 1 /\ link = "up" => ok /\ fromAgent' = Append(fromAgent, Chunk(pos + 1))
        /\ conn # 1 \/ link # "up" => fromAgent' = fromAgent
    BY <1>1, <1>4, <1>5, SendOnAppends, ZenonT(30)
  <2> QED
    BY <1>1, <1>2, <1>5, <2>1 DEF First
<1>6. CASE pos = size /\ SendOn(1, Msg("done"), ok) /\ stream' = 0 /\ UNCHANGED pos
  <2>1. /\ fromAgent' \in Seq(Message)
        /\ conn = 1 /\ link = "up" => fromAgent' = Append(fromAgent, Msg("done"))
        /\ conn # 1 \/ link # "up" => fromAgent' = fromAgent
    BY <1>1, <1>4, <1>6, SendOnAppends, ZenonT(30)
  <2> QED
    BY <1>1, <1>2, <1>6, <2>1 DEF First
<1>7. CASE SendOn(1, Msg("error"), ok) /\ stream' = 0 /\ UNCHANGED pos
  <2>1. /\ fromAgent' \in Seq(Message)
        /\ conn = 1 /\ link = "up" => fromAgent' = Append(fromAgent, Msg("error"))
        /\ conn # 1 \/ link # "up" => fromAgent' = fromAgent
    BY <1>1, <1>4, <1>7, SendOnAppends
  <2> QED
    BY <1>1, <1>2, <1>7, <2>1 DEF First
<1> QED
  BY <1>1, <1>3, <1>5, <1>6, <1>7

\* What is lost with a connection is the end of what was under way.
LEMMA LinkLostKeeps ==
  ASSUME IInv, LinkLost
  PROVE  /\ link' = "lost" /\ conn' = conn /\ toAgent' = <<>> /\ fromAgent' \in Seq(Message)
         /\ Len(fromAgent') <= Len(fromAgent)
         /\ \A i \in 1..Len(fromAgent') : fromAgent'[i] = fromAgent[i] /\ i \in 1..Len(fromAgent)
         /\ \A k : Has(fromAgent', k) => Has(fromAgent, k)
         /\ \A ks : Only(fromAgent, ks) => Only(fromAgent', ks)
         /\ UNCHANGED <<op, size, browser, sent, got, up, down, closed, handler, endState, listed,
                        router, routed, row, counted, file, content, stream, pos>>
<1>1. PICK k \in 0..Len(fromAgent) : fromAgent' = SubSeq(fromAgent, 1, k)
  BY DEF LinkLost
<1>2. fromAgent \in Seq(Message) /\ Len(fromAgent) \in Nat
  BY DEF IInv, TypeOK
<1>3. /\ fromAgent' \in Seq(Message) /\ Len(fromAgent') = k
      /\ \A i \in 1..k : fromAgent'[i] = fromAgent[i] /\ i \in 1..Len(fromAgent)
      /\ \A kind : Has(fromAgent', kind) => Has(fromAgent, kind)
      /\ \A kinds : Only(fromAgent, kinds) => Only(fromAgent', kinds)
  BY <1>1, <1>2, PrefixMessages
<1>4. /\ link' = "lost" /\ conn' = conn /\ toAgent' = <<>>
      /\ UNCHANGED <<op, size, browser, sent, got, up, down, closed, handler, endState, listed,
                     router, routed, row, counted, file, content, stream, pos>>
  BY DEF LinkLost, transfer, console, socket, server, record, agent
<1> QED
  BY <1>2, <1>3, <1>4

\* Every step keeps the types.
LEMMA NextTypeOK == ASSUME IInv, Next PROVE TypeOK'
<1>1. ASSUME Stream PROVE TypeOK'
  <2>1. /\ fromAgent' \in Seq(Message) /\ stream' \in {0, 1} /\ pos' \in Nat
        /\ UNCHANGED <<op, size, browser, sent, got, up, down, closed, handler, endState, listed,
                       router, routed, row, counted, conn, link, toAgent, file, content>>
    BY <1>1, Streamed
  <2> QED
    BY <2>1 DEF IInv, TypeOK
<1>2. ASSUME LinkLost PROVE TypeOK'
  <2>1. /\ link' = "lost" /\ conn' = conn /\ toAgent' \in Seq(Message) /\ fromAgent' \in Seq(Message)
        /\ UNCHANGED <<op, size, browser, sent, got, up, down, closed, handler, endState, listed,
                       router, routed, row, counted, file, content, stream, pos>>
    BY <1>2, LinkLostKeeps, NoMessage
  <2> QED
    BY <2>1 DEF IInv, TypeOK
<1>3. ASSUME Cleanup PROVE TypeOK'
  BY <1>3 DEF Cleanup, IInv, TypeOK, transfer, console, socket, server, record
<1>4. ASSUME Reconnect PROVE TypeOK'
  <2>1. conn' \in Nat \ {0} /\ fromAgent' \in Seq(Message)
    BY <1>4, NoMessage DEF Reconnect, IInv, TypeOK
  <2> QED
    BY <1>4, <2>1 DEF Reconnect, IInv, TypeOK, transfer, console, socket, server, record, agent
<1>5. ASSUME Done PROVE TypeOK'
  BY <1>5 DEF Done, vars, IInv, TypeOK, transfer, console, socket, server, record, device, agent
<1> QED
  BY <1>1, <1>2, <1>3, <1>4, <1>5, BrowserTypeOK, HandlerTypeOK, RouterTypeOK, ControlTypeOK DEF Next

-----------------------------------------------------------------------------
(* Which messages there are.                                               *)

\* The operation and its size are fixed.
LEMMA TransferFixed ==
  ASSUME Next
  PROVE  op' = op /\ size' = size /\ (Managed' <=> Managed)
         /\ Requests' = Requests /\ Answers' = Answers /\ Whole' = Whole
<1>1. op' = op /\ size' = size
  BY ZenonT(30) DEF Next, Browser, SendUpload, SendRequest, Receive, SocketCloses, GiveUp, SocketBreaks,
     Handler, Refuse, Start, ReadFrame, ReadError, Delete, CloseTraffic, HangUp, StartManager,
     ReadRequest, ManagerLeaves, Router, Route, RouteManager, RouteClose, RouteDelete, Control,
     OpenUpload, WriteChunk, EndUpload, AbortUpload, StartDownload, Change, List, Handle, Stream,
     LinkLost, Cleanup, Reconnect, Done, vars, transfer
<1> QED
  BY <1>1, ZenonT(30) DEF Managed, Requests, Answers, Whole

\* By operation, what may be asked and answered.
LEMMA KindsByOp ==
  /\ op = "upload" => /\ Requests = {"upload", "chunk", "end", "error"}
                      /\ Answers = {"done", "error"}
  /\ op = "download" => /\ Requests = {"download", "error"}
                        /\ Answers = {"chunk", "done", "error"}
  /\ op = "change" => Requests = {op} /\ Answers = {"done", "error"}
  /\ op = "list" => Requests = {op} /\ Answers = {"result", "error"}
BY DEF Requests, Answers

\* The browser and the socket handler send what their operation sends.
LEMMA KindHandler == ASSUME IInv, Next, Browser \/ SocketBreaks \/ Handler PROVE KindInv'
<1>0. /\ op' = op /\ (Managed' <=> Managed) /\ Requests' = Requests /\ Answers' = Answers
      /\ up \in Seq(Message) /\ down \in Seq(Message) /\ toAgent \in Seq(Message)
      /\ op \in {"upload", "download", "change", "list"}
  BY TransferFixed DEF IInv, TypeOK
<1> USE DEF IInv, KindInv
<1>1. ASSUME SendUpload PROVE KindInv'
  BY <1>0, <1>1 DEF SendUpload, Managed
<1>2. ASSUME SendRequest PROVE KindInv'
  <2>1. Msg(op) \in Message /\ Msg(op).kind = op
    BY <1>0, MessageTypes DEF Kinds
  <2>2. Only(up, {op}) => Only(up', {op})
    BY <1>0, <1>2, <2>1, AppendMessage DEF SendRequest
  <2> QED
    BY <1>0, <1>2, <2>2 DEF SendRequest, Managed
<1>3. ASSUME Receive PROVE KindInv'
  <2>1. Only(down', Answers)
    BY <1>0, <1>3, TakeMessage, ZenonT(30) DEF Receive
  <2> QED
    BY <1>0, <1>3, <2>1 DEF Receive
<1>4. ASSUME SocketCloses \/ GiveUp \/ SocketBreaks \/ Delete \/ CloseTraffic \/ HangUp
             \/ StartManager \/ ManagerLeaves
      PROVE  KindInv'
  BY <1>0, <1>4 DEF SocketCloses, GiveUp, SocketBreaks, Delete, CloseTraffic, HangUp, StartManager,
     ManagerLeaves, socket
<1>5. ASSUME Start PROVE KindInv'
  <2>1. Msg(op) \in Message /\ Msg(op).kind \in Requests
    BY <1>0, MessageTypes, KindsByOp DEF Kinds
  <2>2. Only(toAgent', Requests)
    BY <1>0, <1>5, <2>1, WriteAgentOnly DEF Start
  <2> QED
    BY <1>0, <1>5, <2>2 DEF Start, socket
<1>6. ASSUME ReadFrame PROVE KindInv'
  <2>1. Head(up) \in Message /\ Head(up) = up[1] /\ Len(up) >= 1
    BY <1>0, <1>6, TakeMessage DEF ReadFrame
  <2>2. Head(up).kind \in {"chunk", "end"}
    <3>1. up[1] = Frame(Read + 1) /\ Read \in Nat
      BY <1>6, <2>1 DEF ReadFrame, UpInv, Read, TypeOK
    <3> QED
      BY <2>1, <3>1, MessageTypes DEF Frame, Kinds
  <2>3. Head(up).kind \in Requests
    BY <1>6, <2>2, KindsByOp DEF ReadFrame
  <2>4. Only(toAgent', Requests)
    BY <1>0, <1>6, <2>1, <2>3, WriteAgentOnly DEF ReadFrame
  <2> QED
    BY <1>0, <1>6, <2>4 DEF ReadFrame, Managed
<1>7. ASSUME ReadError PROVE KindInv'
  <2>1. Msg("error") \in Message /\ Msg("error").kind \in Requests
    BY <1>0, <1>7, MessageTypes, KindsByOp DEF Kinds, ReadError, Managed
  <2>2. Only(toAgent', Requests)
    BY <1>0, <1>7, <2>1, WriteAgentOnly DEF ReadError
  <2> QED
    BY <1>0, <1>7, <2>2 DEF ReadError, socket
<1>8. ASSUME Refuse PROVE KindInv'
  <2>1. Msg("error") \in Message /\ Msg("error").kind \in Answers
    BY <1>0, MessageTypes, KindsByOp DEF Kinds
  <2>2. down' = down \/ down' = Append(down, Msg("error"))
    BY <1>8, ZenonT(30) DEF Refuse, ToBrowser
  <2>3. Only(down', Answers)
    BY <1>0, <2>1, <2>2, AppendMessage, ZenonT(30)
  <2> QED
    BY <1>0, <1>8, <2>3 DEF Refuse
<1>9. ASSUME ReadRequest PROVE KindInv'
  <2>1. Head(up) \in Message /\ Head(up).kind = op /\ Only(up', {op})
    BY <1>0, <1>9, TakeMessage DEF ReadRequest
  <2>2. Head(up).kind \in Requests
    BY <1>9, <2>1, KindsByOp DEF ReadRequest, Managed
  <2>3. Only(toAgent', Requests)
    BY <1>0, <1>9, <2>1, <2>2, WriteAgentOnly DEF ReadRequest
  <2> QED
    BY <1>0, <1>9, <2>1, <2>3 DEF ReadRequest, Managed
<1> QED
  BY <1>1, <1>2, <1>3, <1>4, <1>5, <1>6, <1>7, <1>8, <1>9 DEF Browser, Handler

\* The router passes on what the agent answered, and the agent answers what it may.
LEMMA KindAgent == ASSUME IInv, Next, ~(Browser \/ SocketBreaks \/ Handler) PROVE KindInv'
<1>0. /\ op' = op /\ (Managed' <=> Managed) /\ Requests' = Requests /\ Answers' = Answers
      /\ up \in Seq(Message) /\ down \in Seq(Message) /\ fromAgent \in Seq(Message)
      /\ op \in {"upload", "download", "change", "list"}
  BY TransferFixed DEF IInv, TypeOK
<1> USE DEF KindInv
<1>1. ASSUME Route \/ RouteManager PROVE KindInv'
  <2>1. /\ Head(fromAgent) \in Message /\ Head(fromAgent).kind \in Answers
        /\ Only(fromAgent', Answers)
    BY <1>0, <1>1, TakeMessage, ZenonT(30) DEF Route, RouteManager, IInv
  <2>2. down' = down \/ down' = Append(down, Head(fromAgent))
    BY <1>1, ZenonT(30) DEF Route, RouteManager, ToBrowser
  <2>3. Only(Append(down, Head(fromAgent)), Answers)
    BY <1>0, <2>1, AppendMessage DEF IInv
  <2> QED
    BY <1>0, <1>1, <2>1, <2>2, <2>3, ZenonT(30) DEF Route, RouteManager, IInv
<1>2. ASSUME RouteClose \/ RouteDelete \/ Cleanup \/ Done PROVE KindInv'
  BY <1>0, <1>2 DEF RouteClose, RouteDelete, Cleanup, Done, vars, socket, IInv
<1>3. ASSUME NEW kind, Handle(kind), Only(fromAgent', Answers) PROVE KindInv'
  <2>1. Only(toAgent', Requests) /\ up' = up /\ down' = down
    BY <1>3, Handled DEF IInv
  <2> QED
    BY <1>0, <1>3, <2>1 DEF IInv
<1>4. ASSUME First, NEW kind \in Kinds, kind \in Answers, Reply(kind) PROVE Only(fromAgent', Answers)
  <2>1. Msg(kind) \in Message /\ Msg(kind).kind = kind
    BY MessageTypes
  <2>2. fromAgent' = Append(fromAgent, Msg(kind))
    BY <1>4, Replied
  <2> QED
    BY <1>0, <1>4, <2>1, <2>2, AppendMessage DEF IInv
<1>5. ASSUME Control PROVE KindInv'
  <2>1. "error" \in Answers /\ {"done", "error", "result"} \subseteq Kinds
    BY <1>0, KindsByOp DEF Kinds
  <2>2. CASE OpenUpload
    <3>1. Handle("upload") /\ (fromAgent' = fromAgent \/ Reply("error"))
      BY <2>2 DEF OpenUpload
    <3> QED
      BY <1>0, <1>3, <1>4, <2>1, <3>1, Handled DEF IInv
  <2>3. CASE WriteChunk
    <3>1. Handle("chunk") /\ (fromAgent' = fromAgent \/ Reply("error"))
      BY <2>3 DEF WriteChunk
    <3> QED
      BY <1>0, <1>3, <1>4, <2>1, <3>1, Handled DEF IInv
  <2>4. CASE EndUpload
    <3>1. Handle("end") /\ (Reply("done") \/ Reply("error"))
      BY <2>4 DEF EndUpload
    <3>2. First /\ "done" \in Answers
      BY <1>0, <3>1, Handled, KindsByOp
    <3> QED
      BY <1>3, <1>4, <2>1, <3>1, <3>2
  <2>5. CASE AbortUpload
    BY <1>3, <2>5 DEF AbortUpload, IInv
  <2>6. CASE StartDownload
    BY <1>3, <2>6 DEF StartDownload, IInv
  <2>7. CASE Change
    <3>1. Handle("change") /\ (Reply("done") \/ Reply("error"))
      BY <2>7 DEF Change
    <3>2. First /\ "done" \in Answers
      BY <1>0, <3>1, Handled, KindsByOp
    <3> QED
      BY <1>3, <1>4, <2>1, <3>1, <3>2
  <2>8. CASE List
    <3>1. Handle("list") /\ (Reply("result") \/ Reply("error"))
      BY <2>8 DEF List
    <3>2. First /\ "result" \in Answers
      BY <1>0, <3>1, Handled, KindsByOp, ZenonT(30)
    <3> QED
      BY <1>3, <1>4, <2>1, <3>1, <3>2
  <2> QED
    BY <1>5, <2>2, <2>3, <2>4, <2>5, <2>6, <2>7, <2>8 DEF Control
<1>6. ASSUME Stream PROVE KindInv'
  <2>1. op = "download" /\ pos \in Nat
    BY <1>6, Streamed DEF IInv, TypeOK
  <2>2. \/ fromAgent' = fromAgent
        \/ fromAgent' = Append(fromAgent, Chunk(pos + 1))
        \/ fromAgent' = Append(fromAgent, Msg("done"))
        \/ fromAgent' = Append(fromAgent, Msg("error"))
    BY <1>6, Streamed
  <2>3. /\ Chunk(pos + 1) \in Message /\ Chunk(pos + 1).kind \in Answers
        /\ Msg("done") \in Message /\ Msg("done").kind \in Answers
        /\ Msg("error") \in Message /\ Msg("error").kind \in Answers
    BY <2>1, MessageTypes, KindsByOp DEF Kinds
  <2>4. /\ Only(Append(fromAgent, Chunk(pos + 1)), Answers)
        /\ Only(Append(fromAgent, Msg("done")), Answers)
        /\ Only(Append(fromAgent, Msg("error")), Answers)
    BY <1>0, <2>3, AppendMessage DEF IInv
  <2>5. UNCHANGED <<up, down, toAgent>>
    BY <1>6, Streamed
  <2> QED
    BY <1>0, <2>2, <2>4, <2>5, ZenonT(30) DEF IInv
<1>7. ASSUME LinkLost PROVE KindInv'
  BY <1>0, <1>7, LinkLostKeeps, NoMessage DEF IInv
<1>8. ASSUME Reconnect PROVE KindInv'
  BY <1>0, <1>8, NoMessage DEF Reconnect, socket, IInv
<1> QED
  BY <1>1, <1>2, <1>5, <1>6, <1>7, <1>8 DEF Next, Router

-----------------------------------------------------------------------------
(* The first connection.                                                   *)

\* Once the first connection is lost it does not come back.
LEMMA FirstFades == ASSUME IInv, Next, First' PROVE First /\ conn' = conn /\ link' = link
<1>1. CASE conn' = conn /\ link' = link
  BY <1>1 DEF First
<1>2. CASE LinkLost \/ Cleanup \/ Reconnect
  BY <1>2 DEF LinkLost, Cleanup, Reconnect, First, IInv, TypeOK
<1>3. ASSUME ~(LinkLost \/ Cleanup \/ Reconnect) PROVE conn' = conn /\ link' = link
  <2>1. CASE Browser \/ SocketBreaks
    BY <2>1 DEF Browser, SendUpload, SendRequest, Receive, SocketCloses, GiveUp, SocketBreaks, device
  <2>2. CASE Handler
    BY <2>2 DEF Handler, Refuse, Start, ReadFrame, ReadError, Delete, CloseTraffic, HangUp,
       StartManager, ReadRequest, ManagerLeaves, device
  <2>3. CASE Router
    BY <2>3 DEF Router, Route, RouteManager, RouteClose, RouteDelete, device
  <2>4. CASE Control \/ Stream
    BY <2>4 DEF Control, OpenUpload, WriteChunk, EndUpload, AbortUpload, StartDownload, Change,
       List, Handle, Stream, device
  <2>5. CASE Done
    BY <2>5 DEF Done, vars, device
  <2> QED
    BY <1>3, <2>1, <2>2, <2>3, <2>4, <2>5 DEF Next
<1> QED
  BY <1>1, <1>2, <1>3

\* Over a lost connection nothing reaches the device any more, and a handler only
\* fails because of it.
LEMMA LinkFirst ==
  ASSUME IInv, Next
  PROVE  (~First => toAgent = <<>>)' /\ (endState = "failed" => ~First)'
<1>0. toAgent \in Seq(Message) /\ (~First => toAgent = <<>>) /\ (endState = "failed" => ~First)
  BY DEF IInv, TypeOK, LinkInv
<1>1. CASE Browser \/ SocketBreaks
  BY <1>0, <1>1 DEF Browser, SendUpload, SendRequest, Receive, SocketCloses, GiveUp, SocketBreaks,
     First, device, server
<1>2. CASE Handler
  <2>1. conn' = conn /\ link' = link
    BY <1>2 DEF Handler, Refuse, Start, ReadFrame, ReadError, Delete, CloseTraffic, HangUp,
       StartManager, ReadRequest, ManagerLeaves, device
  <2>2. toAgent' = toAgent \/ First
    BY <1>2 DEF Handler, Refuse, Start, ReadFrame, ReadError, Delete, CloseTraffic, HangUp,
       StartManager, ReadRequest, ManagerLeaves, WriteAgent, First
  <2>3. endState' = endState \/ ~First
    BY <1>2 DEF Handler, Refuse, Start, ReadFrame, ReadError, Delete, CloseTraffic, HangUp,
       StartManager, ReadRequest, ManagerLeaves, WriteAgent, First
  <2> QED
    BY <1>0, <2>1, <2>2, <2>3 DEF First
<1>3. CASE Router
  BY <1>0, <1>3 DEF Router, Route, RouteManager, RouteClose, RouteDelete, First, device
<1>4. CASE Control
  <2>1. PICK kind : Handle(kind)
    BY <1>4 DEF Control, OpenUpload, WriteChunk, EndUpload, AbortUpload, StartDownload, Change, List
  <2> QED
    BY <1>0, <2>1, Handled DEF First
<1>5. CASE Stream
  BY <1>0, <1>5, Streamed DEF First
<1>6. CASE LinkLost
  BY <1>0, <1>6, LinkLostKeeps DEF First
<1>7. CASE Cleanup \/ Reconnect
  BY <1>0, <1>7 DEF Cleanup, Reconnect, First, server, IInv, TypeOK
<1>8. CASE Done
  BY <1>0, <1>8 DEF Done, vars, First, server, device
<1> QED
  BY <1>1, <1>2, <1>3, <1>4, <1>5, <1>6, <1>7, <1>8 DEF Next

\* Only an upload has a file, and only a download a goroutine.
LEMMA LinkOwn ==
  ASSUME IInv, Next
  PROVE  (op # "upload" => file = "none")' /\ (op # "download" => stream = 0)'
<1>0. /\ op' = op /\ (op # "upload" => file = "none") /\ (op # "download" => stream = 0)
      /\ op \in {"upload", "download", "change", "list"}
  BY TransferFixed DEF IInv, LinkInv, TypeOK
<1>1. CASE Browser \/ SocketBreaks
  BY <1>0, <1>1 DEF Browser, SendUpload, SendRequest, Receive, SocketCloses, GiveUp, SocketBreaks,
     agent
<1>2. CASE Handler
  BY <1>0, <1>2 DEF Handler, Refuse, Start, ReadFrame, ReadError, Delete, CloseTraffic, HangUp,
     StartManager, ReadRequest, ManagerLeaves, agent
<1>3. CASE Router
  BY <1>0, <1>3 DEF Router, Route, RouteManager, RouteClose, RouteDelete, agent
<1>4. CASE OpenUpload
  <2>1. op = "upload"
    BY <1>0, <1>4, Handled, KindsByOp DEF OpenUpload
  <2> QED
    BY <1>0, <1>4, <2>1 DEF OpenUpload
<1>5. CASE StartDownload
  <2>1. op = "download"
    BY <1>0, <1>5, Handled, KindsByOp DEF StartDownload
  <2> QED
    BY <1>0, <1>5, <2>1 DEF StartDownload
<1>6. CASE WriteChunk \/ EndUpload \/ AbortUpload \/ Change \/ List
  BY <1>0, <1>6 DEF WriteChunk, EndUpload, AbortUpload, Change, List
<1>7. CASE Stream
  BY <1>0, <1>7, Streamed
<1>8. CASE LinkLost \/ Cleanup \/ Reconnect \/ Done
  BY <1>0, <1>8 DEF LinkLost, Cleanup, Reconnect, Done, vars, agent
<1> QED
  BY <1>1, <1>2, <1>3, <1>4, <1>5, <1>6, <1>7, <1>8 DEF Next, Control

\* Before the handler starts, nothing has happened beyond the browser's own frames.
LEMMA LinkStart ==
  ASSUME IInv, Next, handler' = "start"
  PROVE  /\ handler = "start" /\ toAgent' = <<>> /\ fromAgent' = <<>> /\ down' = <<>> /\ got' = <<>>
         /\ content' = <<>> /\ file' = "none" /\ stream' = 0 /\ counted' = 0 /\ ~listed'
         /\ router' = "idle" /\ row' \in {"none", "active"} /\ browser' # "ok"
<1>1. ~Handler
  BY ZenonT(30) DEF Handler, Refuse, Start, ReadFrame, ReadError, Delete, CloseTraffic, HangUp, StartManager,
     ReadRequest, ManagerLeaves, ReadFails, Managed
<1>2. handler = "start"
  BY <1>1, ZenonT(30) DEF Next, Browser, SendUpload, SendRequest, Receive, SocketCloses, GiveUp, SocketBreaks,
     Router, Route, RouteManager, RouteClose, RouteDelete, Control,
     OpenUpload, WriteChunk, EndUpload, AbortUpload, StartDownload, Change, List, Handle, Stream,
     LinkLost, Cleanup, Reconnect, Done, vars, server
<1>3. /\ toAgent = <<>> /\ fromAgent = <<>> /\ down = <<>> /\ got = <<>> /\ content = <<>>
      /\ file = "none" /\ stream = 0 /\ counted = 0 /\ ~listed /\ router = "idle"
      /\ row \in {"none", "active"} /\ browser # "ok"
  BY <1>2 DEF IInv, LinkInv
<1>4. ~Router /\ ~Control /\ ~Stream /\ ~Receive
  BY <1>3 DEF Router, Route, RouteManager, RouteClose, RouteDelete, Control, OpenUpload, WriteChunk,
     EndUpload, AbortUpload, StartDownload, Change, List, Handle, Stream, Receive
<1>5. CASE SendUpload \/ SendRequest \/ SocketCloses \/ GiveUp \/ SocketBreaks
  BY <1>2, <1>3, <1>5 DEF SendUpload, SendRequest, SocketCloses, GiveUp, SocketBreaks, console,
     socket, server, record, agent
<1>6. CASE LinkLost
  <2>1. fromAgent' = <<>>
    BY <1>3, <1>6 DEF LinkLost
  <2> QED
    BY <1>2, <1>3, <1>6, <2>1, LinkLostKeeps
<1>7. CASE Cleanup \/ Reconnect \/ Done
  BY <1>2, <1>3, <1>7 DEF Cleanup, Reconnect, Done, vars, console, socket, server, record, agent
<1> QED
  BY <1>1, <1>4, <1>5, <1>6, <1>7 DEF Next, Browser

\* Together:
LEMMA NextLinkInv == ASSUME IInv, Next PROVE LinkInv'
BY LinkFirst, LinkOwn, LinkStart DEF LinkInv

-----------------------------------------------------------------------------
(* Uploads.                                                                *)

\* The frame after those read is the first in the socket; frames after the first
\* are chunks up to the size and then the end.
LEMMA FrameKinds ==
  ASSUME size \in Nat, NEW k \in Nat
  PROVE  /\ Frame(k) \in Message
         /\ k = 0 => Frame(k).kind = "upload"
         /\ k # 0 /\ k <= size => Frame(k).kind = "chunk" /\ Frame(k).n = k
         /\ k > size => Frame(k).kind = "end"
BY MessageTypes DEF Frame, Kinds

\* In these states and steps of an upload:
LEMMA UpTypes ==
  ASSUME IInv, Next, op = "upload"
  PROVE  /\ op' = "upload" /\ size' = size /\ size \in Nat /\ sent \in Nat /\ counted \in Nat
         /\ up \in Seq(Message) /\ Len(up) \in Nat /\ Read \in Nat
         /\ \A k : Frame(k)' = Frame(k)
         /\ sent <= size + 1 /\ Len(up) <= sent
         /\ \A i \in 1..Len(up) : up[i] = Frame(Read + i)
         /\ handler = "start" => Read = 0
         /\ counted <= Read /\ counted <= size
         /\ handler = "read" /\ row = "active" => counted = IF Read <= size THEN Read ELSE size
<1>1. /\ op' = "upload" /\ size' = size /\ size \in Nat /\ sent \in Nat /\ counted \in Nat
      /\ up \in Seq(Message) /\ Len(up) \in Nat
  BY TransferFixed DEF IInv, TypeOK
<1>2. \A k : Frame(k)' = Frame(k)
  BY <1>1 DEF Frame, Msg, Chunk
<1>3. /\ sent <= size + 1 /\ Len(up) <= sent
      /\ \A i \in 1..Len(up) : up[i] = Frame(Read + i)
      /\ handler = "start" => Read = 0
      /\ counted <= Read /\ counted <= size
      /\ handler = "read" /\ row = "active" => counted = IF Read <= size THEN Read ELSE size
  BY DEF IInv, UpInv
<1>4. Read \in Nat
  BY <1>1, <1>3 DEF Read
<1> QED
  BY <1>1, <1>2, <1>3, <1>4

\* The browser sends the frames in order.
LEMMA SendUploadFrame ==
  ASSUME IInv, Next, SendUpload
  PROVE  /\ op = "upload" /\ up' = Append(up, Frame(sent + 1)) /\ Frame(sent + 1) \in Message
         /\ sent' = sent + 1 /\ sent <= size /\ Len(up') = Len(up) + 1 /\ Read' = Read
         /\ \A i \in 1..Len(up') : up'[i] = Frame(Read + i)
<1>1. op = "upload" /\ sent' = sent + 1 /\ sent <= size
  BY DEF SendUpload
<1>2. up' = Append(up, Frame(sent + 1))
  BY <1>1, UpTypes DEF SendUpload, Frame
<1>3. Frame(sent + 1) \in Message
  BY <1>1, UpTypes, FrameKinds
<1>4. /\ Len(up') = Len(up) + 1 /\ \A i \in 1..Len(up) : up'[i] = up[i]
      /\ up'[Len(up) + 1] = Frame(sent + 1)
  BY <1>1, <1>2, <1>3, UpTypes, AppendMessage
<1>5. Read' = Read /\ sent + 1 = Read + Len(up')
  BY <1>1, <1>4, UpTypes DEF Read
<1>6. ASSUME NEW i \in 1..Len(up') PROVE up'[i] = Frame(Read + i)
  <2>1. CASE i \in 1..Len(up)
    BY <1>1, <1>4, <2>1, UpTypes
  <2>2. CASE i = Len(up')
    BY <1>4, <1>5, <2>2
  <2> QED
    BY <1>1, <1>4, <2>1, <2>2, UpTypes
<1> QED
  BY <1>1, <1>2, <1>3, <1>4, <1>5, <1>6

\* The handler reads the next of them.
LEMMA ReadFrameNext ==
  ASSUME IInv, Next, ReadFrame
  PROVE  /\ op = "upload" /\ handler = "read" /\ sent' = sent /\ row' = row
         /\ Head(up) = Frame(Read + 1) /\ Head(up) \in Message
         /\ Len(up) >= 1 /\ Len(up') = Len(up) - 1 /\ Read' = Read + 1 /\ Read + 1 <= size + 1
         /\ Read + 1 = size + 1 => up' = <<>> /\ sent = size + 1
         /\ \A i \in 1..Len(up') : up'[i] = Frame(Read' + i)
         /\ First => handler' = "read" /\ endState' = endState /\ toAgent' = Append(toAgent, Head(up))
         /\ ~First => toAgent' = toAgent
         /\ handler' \in {"read", "delete"}
         /\ counted' = counted \/ (counted' = counted + 1 /\ Read + 1 <= size)
         /\ handler' = "read" /\ Read + 1 <= size /\ row = "active" => counted' = counted + 1
<1>1. op = "upload" /\ handler = "read" /\ up # <<>> /\ up' = Tail(up) /\ sent' = sent /\ row' = row
  BY DEF ReadFrame, console
<1>2. up \in Seq(Message)
  BY DEF IInv, TypeOK
<1>3. /\ Head(up) \in Message /\ Head(up) = up[1] /\ Len(up) >= 1 /\ Len(up') = Len(up) - 1
      /\ \A i \in 1..Len(up') : up'[i] = up[i + 1] /\ i + 1 \in 1..Len(up)
  BY <1>1, <1>2, TakeMessage
<1>4. Head(up) = Frame(Read + 1) /\ Read' = Read + 1 /\ Read + 1 <= size + 1 /\ Read \in Nat
  BY <1>1, <1>3, UpTypes DEF Read
<1>5. Read + 1 = size + 1 => up' = <<>> /\ sent = size + 1
  <2>1. SUFFICES ASSUME Read + 1 = size + 1 PROVE Len(up') = 0 /\ sent = size + 1
    BY <1>1, <1>2, NoPlace, TakeMessage
  <2> QED
    BY <1>1, <1>3, <2>1, UpTypes DEF Read
<1>6. ASSUME NEW i \in 1..Len(up') PROVE up'[i] = Frame(Read' + i)
  <2>1. up'[i] = Frame(Read + (i + 1))
    BY <1>1, <1>3, UpTypes
  <2>2. Read + (i + 1) = Read' + i
    BY <1>4
  <2> QED
    BY <2>1, <2>2
<1>7. PICK ok \in BOOLEAN :
        /\ WriteAgent(Head(up), ok)
        /\ IF ok THEN UNCHANGED <<handler, endState>> ELSE handler' = "delete" /\ endState' = "failed"
        /\ IF ok /\ Head(up).kind = "chunk" THEN Add ELSE UNCHANGED counted
  BY DEF ReadFrame
<1>8. /\ First => ok /\ toAgent' = Append(toAgent, Head(up))
      /\ ~First => toAgent' = toAgent
  BY <1>3, <1>7, WriteAgentAppends DEF IInv, TypeOK
<1>9. Head(up).kind = "chunk" <=> Read + 1 <= size
  <2>1. size \in Nat
    BY <1>1, UpTypes
  <2>2. Read + 1 \in Nat /\ Read + 1 # 0 /\ (Read + 1 <= size \/ Read + 1 > size)
    BY <1>4, <2>1
  <2> QED
    BY <1>4, <2>1, <2>2, FrameKinds
<1> QED
  BY <1>1, <1>3, <1>4, <1>5, <1>6, <1>7, <1>8, <1>9 DEF Add

\* The frames of an upload are sent, read and counted in order.
LEMMA NextUpInv == ASSUME IInv, Next PROVE UpInv'
<1> SUFFICES ASSUME op = "upload" PROVE UpInv'
  BY TransferFixed DEF UpInv
<1>0. /\ op' = "upload" /\ size' = size /\ size \in Nat /\ sent \in Nat /\ counted \in Nat
      /\ Len(up) \in Nat /\ Read \in Nat /\ \A k : Frame(k)' = Frame(k)
      /\ sent <= size + 1 /\ Len(up) <= sent
      /\ \A i \in 1..Len(up) : up[i] = Frame(Read + i)
      /\ handler = "start" => Read = 0
      /\ counted <= Read /\ counted <= size
      /\ handler = "read" /\ row = "active" => counted = IF Read <= size THEN Read ELSE size
  BY UpTypes
<1>1. ASSUME UNCHANGED <<sent, up, counted>>,
             handler' \in {"start", "read"} => handler' = handler,
             row' = "active" => row = "active"
      PROVE  UpInv'
  <2>1. Read' = Read
    BY <1>1 DEF Read
  <2> QED
    BY <1>0, <1>1, <2>1 DEF UpInv
<1>2. CASE SendUpload
  <2>1. UNCHANGED <<counted, handler, row>>
    BY <1>2 DEF SendUpload, server, record
  <2> QED
    BY <1>0, <1>2, <2>1, SendUploadFrame DEF UpInv
<1>3. CASE SendRequest \/ StartManager \/ ReadRequest
  BY <1>3 DEF SendRequest, StartManager, ReadRequest, Managed
<1>4. CASE Receive \/ SocketCloses \/ GiveUp \/ SocketBreaks
  BY <1>1, <1>4 DEF Receive, SocketCloses, GiveUp, SocketBreaks, console, socket, server, record
<1>5. CASE Start
  <2>1. UNCHANGED <<sent, up, counted, row>> /\ handler = "start"
    BY <1>5 DEF Start, console, socket, record
  <2>2. Read' = Read
    BY <2>1 DEF Read
  <2>3. counted = 0
    BY <2>1 DEF IInv, LinkInv
  <2>4. handler' # "start"
    BY <1>5 DEF Start
  <2> QED
    BY <1>0, <2>1, <2>2, <2>3, <2>4 DEF UpInv
<1>6. CASE ReadFrame
  <2>1. Len(up') <= sent /\ counted' <= Read' /\ counted' <= size
    BY <1>0, <1>6, ReadFrameNext
  <2>2. handler' = "read" /\ row = "active" => counted' = IF Read' <= size THEN Read' ELSE size
    BY <1>0, <1>6, ReadFrameNext
  <2> QED
    BY <1>0, <1>6, <2>1, <2>2, ReadFrameNext DEF UpInv
<1>7. CASE Refuse \/ ReadError \/ Delete \/ CloseTraffic \/ HangUp \/ ManagerLeaves
  BY <1>1, <1>7 DEF Refuse, ReadError, Delete, CloseTraffic, CloseRow, HangUp, ManagerLeaves,
     console, socket, record, server
<1>8. CASE Route
  <2>1. Head(fromAgent).kind # "chunk"
    <3>1. fromAgent \in Seq(Message) /\ fromAgent # <<>> /\ Only(fromAgent, {"done", "error"})
      BY <1>8, KindsByOp, ZenonT(30) DEF Route, IInv, TypeOK, KindInv
    <3> QED
      BY <3>1, TakeMessage
  <2> QED
    BY <1>1, <1>8, <2>1 DEF Route, console
<1>9. CASE RouteManager \/ RouteClose \/ RouteDelete
  BY <1>1, <1>9 DEF RouteManager, RouteClose, CloseRow, RouteDelete, console, socket, record
<1>10. CASE Control
  <2>1. PICK kind : Handle(kind)
    BY <1>10 DEF Control, OpenUpload, WriteChunk, EndUpload, AbortUpload, StartDownload, Change, List
  <2> QED
    BY <1>1, <2>1 DEF Handle, console, socket, record, server
<1>11. CASE Stream \/ LinkLost \/ Cleanup \/ Reconnect \/ Done
  BY <1>1, <1>11, ZenonT(30) DEF Stream, LinkLost, Cleanup, Reconnect, Done, vars, console, socket, record, server
<1> QED
  BY <1>2, <1>3, <1>4, <1>5, <1>6, <1>7, <1>8, <1>9, <1>10, <1>11 DEF Next, Browser, Handler, Router

\* While an upload may succeed, the frames under way follow those the device has.
LEMMA PendingFacts ==
  ASSUME IInv, op = "upload", Pending
  PROVE  /\ Base \in Int /\ Base >= -1 /\ Len(toAgent) \in Nat /\ Len(content) \in Nat /\ size \in Nat
         /\ \A i \in 1..Len(toAgent) :
              \/ toAgent[i] = Frame(Base + i) /\ Base + i \in Nat /\ Base + i <= size + 1
              \/ i = Len(toAgent) /\ toAgent[i] = Msg("error") /\ handler # "read"
         /\ handler = "read" => Read = Base + Len(toAgent) /\ row = "active"
         /\ \A i \in 1..Len(toAgent) : toAgent[i].kind = "chunk" => Base + i <= counted
         /\ file = "open" => Len(content) <= counted
         /\ fromAgent = <<>> /\ router = "idle" /\ browser # "ok" /\ ~Has(down, "done")
<1>1. toAgent \in Seq(Message) /\ content \in Seq(Nat) /\ size \in Nat
  BY DEF IInv, TypeOK
<1>2. Len(toAgent) \in Nat /\ Len(content) \in Nat
  BY <1>1
<1>3. Base \in Int /\ Base >= -1
  BY <1>2 DEF Base
<1>4. \A i \in 1..Len(toAgent) : Base + i \in Nat
  BY <1>2, <1>3
<1>5. PendingInv
  BY DEF IInv
<1> QED
  BY <1>1, <1>2, <1>3, <1>4, <1>5, ZenonT(30) DEF PendingInv

\* What the message the device takes says about the file.
LEMMA UploadHandled ==
  ASSUME IInv, op = "upload", NEW kind, Handle(kind)
  PROVE  /\ ~Has(toAgent', "upload")
         /\ kind = "upload" => Pending /\ file = "none" /\ content = <<>> /\ Base = -1
         /\ file = "open" => Pending /\ Base = Len(content)
         /\ kind = "chunk" /\ file = "open" =>
              Head(toAgent).n = Len(content) + 1 /\ Len(content) + 1 <= size
         /\ kind = "end" /\ file = "open" => Len(content) = size
<1>0. /\ First /\ Head(toAgent) = toAgent[1] /\ Head(toAgent).kind = kind /\ Len(toAgent) >= 1
      /\ toAgent \in Seq(Message) /\ Len(toAgent) \in Nat /\ Len(toAgent') = Len(toAgent) - 1
      /\ \A i \in 1..Len(toAgent') : toAgent'[i] = toAgent[i + 1] /\ i + 1 \in 1..Len(toAgent)
      /\ \A k : Has(toAgent, k) <=> kind = k \/ Has(toAgent', k)
      /\ size \in Nat
  <2>1. toAgent \in Seq(Message) /\ size \in Nat
    BY ZenonT(30) DEF IInv, TypeOK
  <2>2. Len(toAgent) \in Nat
    BY <2>1
  <2> QED
    BY <2>1, <2>2, Handled, ZenonT(30)
<1>1. Has(toAgent, "upload") => file = "none" /\ content = <<>> /\ Len(content) <= size
  BY DEF IInv, FileInv
<1>2. kind = "upload" => Pending /\ file = "none" /\ content = <<>> /\ Base = -1
  BY <1>0, <1>1 DEF Pending, Base
<1>3. file = "open" => Pending /\ Base = Len(content)
  BY <1>0 DEF Pending, Base
<1>4. ASSUME Has(toAgent', "upload") PROVE FALSE
  <2>1. PICK i \in 1..Len(toAgent') : toAgent'[i].kind = "upload"
    BY <1>4 DEF Has
  <2>2. toAgent[i + 1].kind = "upload" /\ i + 1 \in 1..Len(toAgent) /\ i \in Nat /\ i # 0
    BY <1>0, <2>1
  <2>3. Pending /\ Base = -1
    BY <1>0, <1>1, <1>4 DEF Pending, Base
  <2>4. Base + (i + 1) = i /\ size \in Nat /\ i \in Nat /\ (i <= size \/ i > size)
    BY <1>0, <2>2, <2>3
  <2>5. toAgent[i + 1] = Frame(i) \/ toAgent[i + 1] = Msg("error")
    BY <2>2, <2>3, <2>4, PendingFacts, ZenonT(30)
  <2>6. Frame(i).kind # "upload"
    BY <2>2, <2>4, FrameKinds, ZenonT(30)
  <2>7. Msg("error").kind = "error"
    BY MessageTypes DEF Kinds
  <2> QED
    BY <2>2, <2>5, <2>6, <2>7
<1>5. ASSUME file = "open", kind \in {"chunk", "end"}
      PROVE  Head(toAgent) = Frame(Len(content) + 1) /\ Len(content) \in Nat
  <2>1. 1 \in 1..Len(toAgent)
    BY <1>0
  <2>2. Msg("error").kind = "error"
    BY MessageTypes DEF Kinds
  <2>3. toAgent[1] = Frame(Base + 1) \/ toAgent[1] = Msg("error")
    BY <1>3, <1>5, <2>1, PendingFacts
  <2>4. Len(content) \in Nat
    BY <1>3, <1>5, PendingFacts
  <2> QED
    BY <1>0, <1>3, <1>5, <2>2, <2>3, <2>4
<1>6. Len(content) <= size
  BY DEF IInv, FileInv
<1>7. kind = "chunk" /\ file = "open" => Head(toAgent).n = Len(content) + 1 /\ Len(content) + 1 <= size
  <2> SUFFICES ASSUME kind = "chunk", file = "open"
               PROVE  Head(toAgent).n = Len(content) + 1 /\ Len(content) + 1 <= size
    OBVIOUS
  <2>1. Len(content) + 1 \in Nat /\ Len(content) + 1 # 0
    BY <1>5
  <2>2. Frame(Len(content) + 1).kind = "chunk"
    BY <1>0, <1>5
  <2> QED
    BY <1>0, <1>5, <2>1, <2>2, FrameKinds
<1>8. kind = "end" /\ file = "open" => Len(content) = size
  <2> SUFFICES ASSUME kind = "end", file = "open" PROVE Len(content) = size
    OBVIOUS
  <2>1. Len(content) + 1 \in Nat /\ Len(content) + 1 # 0 /\ Len(content) \in Nat
    BY <1>5
  <2>2. Frame(Len(content) + 1).kind = "end"
    BY <1>0, <1>5
  <2>3. ~(Len(content) + 1 <= size)
    BY <1>0, <2>1, <2>2, FrameKinds
  <2> QED
    BY <1>0, <1>6, <2>1, <2>3
<1> QED
  BY <1>2, <1>3, <1>4, <1>7, <1>8, ZenonT(30)

\* The frames under way as the device takes the first of them.
LEMMA PendingShift ==
  ASSUME IInv, Next, op = "upload", NEW kind, Handle(kind), Pending, Base' = Base + 1,
         fromAgent' = fromAgent, file' = "open", Len(content') <= counted
  PROVE  PendingInv'
<1>0. /\ toAgent \in Seq(Message) /\ Len(toAgent) \in Nat /\ Len(toAgent') = Len(toAgent) - 1
      /\ \A i \in 1..Len(toAgent') : toAgent'[i] = toAgent[i + 1] /\ i + 1 \in 1..Len(toAgent)
      /\ \A i \in 1..Len(toAgent') : i + 1 = Len(toAgent) => i = Len(toAgent')
      /\ UNCHANGED <<handler, counted, row, router, browser, down, sent, up>>
  <2>1. toAgent \in Seq(Message)
    BY DEF IInv, TypeOK
  <2>2. Len(toAgent) \in Nat
    BY <2>1
  <2> QED
    BY <2>1, <2>2, Handled, ZenonT(30)
<1>1. Read' = Read /\ size' = size /\ (\A k : Frame(k)' = Frame(k)) /\ Msg("error")' = Msg("error")
  BY <1>0, UpTypes, ZenonT(30) DEF Read, Msg
<1>2. /\ Base \in Int
      /\ \A i \in 1..Len(toAgent) :
           \/ toAgent[i] = Frame(Base + i) /\ Base + i \in Nat /\ Base + i <= size + 1
           \/ i = Len(toAgent) /\ toAgent[i] = Msg("error") /\ handler # "read"
      /\ \A i \in 1..Len(toAgent) : toAgent[i].kind = "chunk" => Base + i <= counted
  BY PendingFacts, ZenonT(30)
<1>3. \A i \in 1..Len(toAgent') : Base' + i = Base + (i + 1) /\ (i + 1 = Len(toAgent) => i = Len(toAgent'))
  BY <1>0, <1>2, OneLess, ZenonT(30)
<1>4. \A i \in 1..Len(toAgent') :
        \/ toAgent'[i] = Frame(Base' + i) /\ Base' + i <= size + 1
        \/ i = Len(toAgent') /\ toAgent'[i] = Msg("error") /\ handler # "read"
  BY <1>0, <1>2, <1>3
<1>5. \A i \in 1..Len(toAgent') : toAgent'[i].kind = "chunk" => Base' + i <= counted
  BY <1>0, <1>2, <1>3, ZenonT(30)
<1>6. handler = "read" => Read = Base' + Len(toAgent') /\ row = "active"
  BY <1>0, <1>2, PendingFacts
<1>7. fromAgent' = <<>> /\ router' = "idle" /\ browser' # "ok" /\ ~Has(down, "done")'
  BY <1>0, PendingFacts DEF Has
<1> QED
  BY <1>0, <1>1, <1>4, <1>5, <1>6, <1>7, ZenonT(30) DEF PendingInv

\* A frame that the handler passes on joins those under way.
LEMMA PendingReadFrame == ASSUME IInv, Next, ReadFrame, Pending' PROVE PendingInv'
<1>0. /\ op = "upload" /\ First /\ handler = "read" /\ row' = row /\ toAgent \in Seq(Message)
      /\ Head(up) = Frame(Read + 1) /\ Head(up) \in Message /\ toAgent' = Append(toAgent, Head(up))
      /\ Read' = Read + 1 /\ Read + 1 <= size + 1 /\ Read \in Nat
      /\ counted' = counted \/ (counted' = counted + 1 /\ Read + 1 <= size)
      /\ Read + 1 <= size /\ row = "active" => counted' = counted + 1
      /\ counted \in Nat /\ size \in Nat
      /\ row = "active" => counted = IF Read <= size THEN Read ELSE size
  BY ReadFrameNext, FirstFades, UpTypes, ZenonT(30) DEF IInv, TypeOK, Pending
<1>1. UNCHANGED <<file, content, fromAgent, router, browser, down>>
  BY DEF ReadFrame, console, agent
<1>2. /\ Len(toAgent') = Len(toAgent) + 1 /\ Len(toAgent) \in Nat
      /\ \A i \in 1..Len(toAgent) : toAgent'[i] = toAgent[i]
      /\ toAgent'[Len(toAgent) + 1] = Head(up)
      /\ Has(toAgent', "upload") <=> Has(toAgent, "upload") \/ Head(up).kind = "upload"
      /\ \A i \in 1..Len(toAgent') : i \in 1..Len(toAgent) \/ i = Len(toAgent) + 1
  <2>1. toAgent \in Seq(Message) /\ Head(up) \in Message /\ toAgent' = Append(toAgent, Head(up))
    BY <1>0, ZenonT(30)
  <2> QED
    BY <2>1, AppendMessage
<1>3. Head(up).kind # "upload" /\ (Head(up).kind = "chunk" => Read + 1 <= size)
  BY <1>0, FrameKinds
<1>4. Has(toAgent, "upload")' <=> Has(toAgent', "upload")
  BY DEF Has
<1>5. Pending
  BY <1>0, <1>1, <1>2, <1>3, <1>4, ZenonT(30) DEF Pending
<1>6. /\ Base \in Int /\ Read = Base + Len(toAgent) /\ row = "active"
      /\ \A i \in 1..Len(toAgent) : toAgent[i] = Frame(Base + i) /\ Base + i <= size + 1
      /\ \A i \in 1..Len(toAgent) : toAgent[i].kind = "chunk" => Base + i <= counted
      /\ file = "open" => Len(content) <= counted
      /\ fromAgent = <<>> /\ router = "idle" /\ browser # "ok" /\ ~Has(down, "done")
  BY <1>0, <1>5, PendingFacts, ZenonT(30)
<1>7. Base' = Base /\ size' = size /\ (\A k : Frame(k)' = Frame(k)) /\ (Has(down, "done")' <=> Has(down, "done"))
  BY <1>0, <1>1, UpTypes DEF Base, Has
<1>8. \A i \in 1..Len(toAgent') : i \in 1..Len(toAgent) \/ i = Len(toAgent) + 1
  BY <1>2, ZenonT(30)
<1>9. \A i \in 1..Len(toAgent') : toAgent'[i] = Frame(Base + i) /\ Base + i <= size + 1
  BY <1>0, <1>2, <1>6, <1>8
<1>10. \A i \in 1..Len(toAgent') : toAgent'[i].kind = "chunk" => Base + i <= counted'
  <2>1. Head(up).kind = "chunk" => Base + (Len(toAgent) + 1) <= counted'
    BY <1>0, <1>2, <1>3, <1>6
  <2>2. counted <= counted' /\ counted' \in Nat
    BY <1>0
  <2>3. \A i \in 1..Len(toAgent) : Base + i <= counted => Base + i <= counted'
    BY <1>0, <1>2, <1>6, <2>2
  <2> QED
    BY <1>2, <1>6, <1>8, <2>1, <2>3, ZenonT(30)
<1>11. Read' = Base + Len(toAgent') /\ (file = "open" => Len(content) <= counted')
  <2>1. content \in Seq(Nat)
    BY ZenonT(30) DEF IInv, TypeOK
  <2> QED
    BY <1>0, <1>2, <1>6, <2>1
<1> QED
  BY <1>0, <1>1, <1>6, <1>7, <1>9, <1>10, <1>11, ZenonT(30) DEF PendingInv

\* So does the abort of a handler whose browser has gone.
LEMMA PendingReadError == ASSUME IInv, Next, ReadError, op = "upload", Pending' PROVE PendingInv'
<1>0. /\ First /\ handler = "read" /\ handler' = "delete" /\ toAgent \in Seq(Message)
      /\ Msg("error") \in Message /\ Msg("error").kind = "error"
  BY FirstFades, MessageTypes DEF ReadError, ReadFails, IInv, TypeOK, Pending, Kinds
<1>1. UNCHANGED <<file, content, fromAgent, router, browser, down, counted, row>>
  BY DEF ReadError, console, agent, socket, record
<1>2. PICK ok \in BOOLEAN : WriteAgent(Msg("error"), ok)
  BY DEF ReadError
<1>3. toAgent' = Append(toAgent, Msg("error"))
  BY <1>0, <1>2, WriteAgentAppends, ZenonT(30)
<1>4. /\ Len(toAgent') = Len(toAgent) + 1 /\ Len(toAgent) \in Nat
      /\ \A i \in 1..Len(toAgent) : toAgent'[i] = toAgent[i]
      /\ toAgent'[Len(toAgent) + 1] = Msg("error")
      /\ Has(toAgent', "upload") <=> Has(toAgent, "upload")
      /\ \A i \in 1..Len(toAgent') : i \in 1..Len(toAgent) \/ i = Len(toAgent) + 1
  <2>1. toAgent \in Seq(Message) /\ Msg("error") \in Message /\ Msg("error").kind # "upload"
    BY <1>0
  <2> DEFINE m == Msg("error")
             q == toAgent
  <2>2. q \in Seq(Message) /\ m \in Message /\ m.kind # "upload"
    BY <2>1
  <2> HIDE DEF m, q
  <2>3. /\ Len(Append(q, m)) = Len(q) + 1 /\ Len(q) \in Nat
        /\ \A i \in 1..Len(q) : Append(q, m)[i] = q[i]
        /\ Append(q, m)[Len(q) + 1] = m
        /\ Has(Append(q, m), "upload") <=> Has(q, "upload")
        /\ \A i \in 1..Len(Append(q, m)) : i \in 1..Len(q) \/ i = Len(q) + 1
    BY <2>2, AppendMessage, ZenonT(30)
  <2> QED
    BY <1>3, <2>3, ZenonT(30) DEF m, q
<1>5. Has(toAgent, "upload")' <=> Has(toAgent', "upload")
  BY DEF Has
<1>6. Pending
  BY <1>0, <1>1, <1>4, <1>5 DEF Pending
<1>7. /\ Base \in Int
      /\ \A i \in 1..Len(toAgent) : toAgent[i] = Frame(Base + i) /\ Base + i <= size + 1
      /\ \A i \in 1..Len(toAgent) : toAgent[i].kind = "chunk" => Base + i <= counted
      /\ file = "open" => Len(content) <= counted
      /\ fromAgent = <<>> /\ router = "idle" /\ browser # "ok" /\ ~Has(down, "done")
  BY <1>0, <1>6, PendingFacts
<1>8. /\ Base' = Base /\ size' = size /\ (\A k : Frame(k)' = Frame(k)) /\ Msg("error")' = Msg("error")
      /\ (Has(down, "done")' <=> Has(down, "done"))
  BY <1>0, <1>1, UpTypes DEF Base, Has, Msg
<1>9. \A i \in 1..Len(toAgent') : i \in 1..Len(toAgent) \/ i = Len(toAgent) + 1
  BY <1>4, ZenonT(30)
<1>10. \A i \in 1..Len(toAgent') :
         \/ toAgent'[i] = Frame(Base + i) /\ Base + i <= size + 1
         \/ i = Len(toAgent') /\ toAgent'[i] = Msg("error")
  BY <1>4, <1>7, <1>9
<1>11. \A i \in 1..Len(toAgent') : toAgent'[i].kind = "chunk" => Base + i <= counted
  BY <1>0, <1>4, <1>7, <1>9
<1> QED
  BY <1>0, <1>1, <1>7, <1>8, <1>10, <1>11, ZenonT(30) DEF PendingInv

\* The request of an upload is the first of its frames.
LEMMA PendingStart == ASSUME IInv, Next, Start, op = "upload", Pending' PROVE PendingInv'
<1>0. /\ handler = "start" /\ toAgent = <<>> /\ fromAgent = <<>> /\ down = <<>> /\ file = "none"
      /\ router = "idle" /\ row = "active" /\ browser # "ok" /\ First
  BY FirstFades DEF Start, IInv, LinkInv, RowInv, Managed, Pending
<1>1. UNCHANGED <<file, content, fromAgent, router, browser, down, counted, row, sent, up>>
  BY DEF Start, console, agent, socket, record
<1>2. Msg("upload") \in Message /\ Msg("upload").kind = "upload" /\ Msg("upload") = Frame(0)
  BY MessageTypes DEF Kinds, Frame
<1>3. PICK ok \in BOOLEAN : WriteAgent(Msg(op), ok)
  BY DEF Start
<1>4. toAgent' = Append(<<>>, Msg("upload"))
  BY <1>0, <1>2, <1>3, NoMessage, WriteAgentAppends
<1>5. Len(toAgent') = 1 /\ toAgent'[1] = Frame(0)
  BY <1>2, <1>4
<1>6. Base' = -1 /\ Read' = 0 /\ size' = size /\ size \in Nat /\ (\A k : Frame(k)' = Frame(k))
  BY <1>0, <1>1, UpTypes DEF Base, Read
<1>7. ~Has(down, "done")'
  BY <1>0, <1>1, NoMessage DEF Has
<1>8. \A i \in 1..Len(toAgent') : i = 1 /\ Base' + i = 0 /\ toAgent'[i] = Frame(0) /\ toAgent'[i].kind # "chunk"
  BY <1>2, <1>5, <1>6
<1>9. \A i \in 1..Len(toAgent') : toAgent'[i] = Frame(Base' + i) /\ Base' + i <= size + 1
  BY <1>6, <1>8
<1> QED
  BY <1>0, <1>1, <1>5, <1>6, <1>7, <1>8, <1>9 DEF PendingInv

\* What is under way of an upload that may still succeed is what the device lacks,
\* and nothing has been answered.
LEMMA NextPendingInv == ASSUME IInv, Next PROVE PendingInv'
<1> SUFFICES ASSUME op = "upload", Pending' PROVE PendingInv'
  BY TransferFixed DEF PendingInv
<1>0. First /\ ~Managed /\ op' = "upload" /\ conn \in Nat \ {0}
  BY FirstFades, TransferFixed, ZenonT(30) DEF Pending, Managed, IInv, TypeOK
<1>1. ASSUME UNCHANGED <<file, content, toAgent, fromAgent, router, counted>>, Read' = Read,
             handler' = "read" => handler = "read" /\ row' = row,
             browser' = "ok" => browser = "ok" \/ Has(down, "done"),
             Has(down, "done")' => Has(down, "done")
      PROVE  PendingInv'
  <2>1. Pending
    BY <1>0, <1>1 DEF Pending, Has
  <2>2. Base' = Base /\ size' = size /\ (\A k : Frame(k)' = Frame(k)) /\ Msg("error")' = Msg("error")
    BY <1>1, UpTypes DEF Base, Msg
  <2> QED
    BY <1>1, <2>1, <2>2, PendingFacts, ZenonT(30) DEF PendingInv
<1>2. CASE SendUpload
  <2>1. UNCHANGED <<file, content, toAgent, fromAgent, router, counted, handler, row, browser, down>>
    BY <1>2 DEF SendUpload, server, record, agent
  <2>2. Has(down, "done")' => Has(down, "done")
    BY <2>1 DEF Has
  <2> QED
    BY <1>1, <1>2, <2>1, <2>2, SendUploadFrame
<1>3. CASE Receive
  <2>1. UNCHANGED <<file, content, toAgent, fromAgent, router, counted, handler, row, sent, up>>
    BY <1>3 DEF Receive, server, record, agent
  <2>2. down \in Seq(Message) /\ down # <<>> /\ down' = Tail(down) /\ Only(down, {"done", "error"})
    BY <1>3, KindsByOp, ZenonT(30) DEF Receive, IInv, TypeOK, KindInv
  <2>3. /\ Head(down).kind \in {"done", "error"} /\ (Head(down).kind = "done" => Has(down, "done"))
        /\ Has(Tail(down), "done") => Has(down, "done")
    BY <2>2, TakeMessage
  <2>4. browser' = "ok" => Head(down).kind \in {"done", "result"}
    BY <1>3 DEF Receive
  <2>5. Has(down, "done")' => Has(down, "done")
    BY <2>2, <2>3 DEF Has
  <2>6. Read' = Read
    BY <2>1 DEF Read
  <2> QED
    BY <1>1, <2>1, <2>3, <2>4, <2>5, <2>6
<1>4. ASSUME UNCHANGED <<file, content, toAgent, fromAgent, router, counted, down, sent, up>>,
             handler' = "read" => handler = "read" /\ row' = row,
             browser' = "ok" => browser = "ok"
      PROVE  PendingInv'
  <2>1. Read' = Read /\ (Has(down, "done")' => Has(down, "done"))
    BY <1>4, ZenonT(30) DEF Read, Has
  <2> QED
    BY <1>1, <1>4, <2>1
<1>5. CASE SocketCloses \/ GiveUp \/ SocketBreaks \/ Delete \/ CloseTraffic \/ HangUp \/ Done
  BY <1>4, <1>5, ZenonT(30)
  DEF SocketCloses, GiveUp, SocketBreaks, Delete, CloseTraffic, HangUp, Done, vars, console,
      socket, server, record, agent
<1>6. CASE Refuse
  <2>1. toAgent' = <<>> /\ file' = "none"
    BY <1>6 DEF Refuse, agent, IInv, LinkInv
  <2> QED
    BY <2>1, NoMessage DEF Pending, Has
<1>7. CASE SendRequest \/ StartManager \/ ReadRequest \/ ManagerLeaves \/ RouteManager
  BY <1>0, <1>7, ZenonT(30) DEF SendRequest, StartManager, ReadRequest, ManagerLeaves, RouteManager
<1>8. CASE Route \/ RouteClose \/ RouteDelete
  <2>1. UNCHANGED <<toAgent, file>>
    BY <1>8 DEF Route, RouteClose, RouteDelete, agent
  <2>2. Pending
    BY <1>0, <2>1 DEF Pending, Has
  <2> QED
    BY <1>8, <2>2, PendingFacts, ZenonT(30) DEF Route, RouteClose, RouteDelete
<1>9. CASE OpenUpload
  <2>1. Handle("upload")
    BY <1>9 DEF OpenUpload
  <2>2. ~Has(toAgent', "upload") /\ Pending /\ file = "none" /\ content = <<>> /\ Base = -1
    BY <2>1, UploadHandled
  <2>3. file' = "open" /\ fromAgent' = fromAgent /\ content' = <<>>
    BY <1>9, <2>2 DEF OpenUpload, Pending, Has
  <2>4. Len(content') = 0 /\ Base' = Base + 1 /\ counted \in Nat
    BY <2>2, <2>3 DEF Base, IInv, TypeOK
  <2> QED
    BY <2>1, <2>2, <2>3, <2>4, PendingShift
<1>10. CASE WriteChunk
  <2>1. Handle("chunk")
    BY <1>10 DEF WriteChunk
  <2>2. ~Has(toAgent', "upload")
    BY <2>1, UploadHandled
  <2>3. file = "open" /\ file' = "open" /\ fromAgent' = fromAgent /\ content' = Append(content, Head(toAgent).n)
    BY <1>10, <2>2, ZenonT(30) DEF WriteChunk, Pending, Has
  <2>4. Pending /\ Base = Len(content) /\ Head(toAgent).n \in Nat /\ content \in Seq(Nat)
    BY <2>1, <2>3, UploadHandled, Handled, ZenonT(30) DEF IInv, TypeOK, Message
  <2>5. Len(content') = Len(content) + 1
    BY <2>3, <2>4, AppendNumber
  <2>6. Base' = Base + 1
    BY <2>3, <2>4, <2>5 DEF Base
  <2>7. Len(content') <= counted
    <3>1. 1 \in 1..Len(toAgent) /\ toAgent[1].kind = "chunk"
      <4>1. toAgent \in Seq(Message) /\ Len(toAgent) \in Nat
        BY DEF IInv, TypeOK
      <4>2. Len(toAgent) >= 1 /\ Head(toAgent) = toAgent[1] /\ Head(toAgent).kind = "chunk"
        BY <2>1, Handled
      <4> QED
        BY <4>1, <4>2
    <3> QED
      BY <2>4, <2>5, <3>1, PendingFacts, ZenonT(30)
  <2> QED
    BY <2>1, <2>3, <2>4, <2>6, <2>7, PendingShift
<1>11. CASE EndUpload \/ AbortUpload
  <2>1. PICK kind : Handle(kind)
    BY <1>11 DEF EndUpload, AbortUpload
  <2>2. ~Has(toAgent', "upload")
    BY <2>1, UploadHandled
  <2>3. file' # "open"
    BY <1>11 DEF EndUpload, AbortUpload
  <2> QED
    BY <2>2, <2>3 DEF Pending, Has
<1>12. CASE StartDownload \/ Change \/ List
  <2>1. PICK kind \in {"download", "change", "list"} : Handle(kind)
    BY <1>12 DEF StartDownload, Change, List
  <2> QED
    BY <2>1, Handled, KindsByOp
<1>13. CASE Stream
  BY <1>13, Streamed
<1>14. CASE LinkLost \/ Cleanup \/ Reconnect
  BY <1>0, <1>14 DEF LinkLost, Cleanup, Reconnect, Pending, First
<1> QED
  BY <1>2, <1>3, <1>5, <1>6, <1>7, <1>8, <1>9, <1>10, <1>11, <1>12, <1>13, <1>14, PendingStart,
     PendingReadFrame, PendingReadError, ZenonT(30) DEF Next, Browser, Handler, Router, Control

\* A file that is whole so far stays so with its next chunk.
LEMMA NextChunk ==
  ASSUME NEW c \in Seq(Nat), c = [i \in 1..Len(c) |-> i]
  PROVE  LET d == Append(c, Len(c) + 1)
         IN  d \in Seq(Nat) /\ Len(d) = Len(c) + 1 /\ d = [i \in 1..Len(d) |-> i]
<1> DEFINE d == Append(c, Len(c) + 1)
<1>1. Len(c) \in Nat
  OBVIOUS
<1>2. /\ d \in Seq(Nat) /\ Len(d) = Len(c) + 1
      /\ \A i \in 1..Len(c) : d[i] = c[i]
      /\ d[Len(c) + 1] = Len(c) + 1
  BY <1>1, AppendNumber
<1>3. \A i \in 1..Len(c) : c[i] = i
  OBVIOUS
<1>4. \A i \in 1..Len(d) : i \in 1..Len(c) \/ i = Len(c) + 1
  BY <1>1, <1>2
<1>5. \A i \in 1..Len(d) : d[i] = i
  BY <1>2, <1>3, <1>4
<1>6. d = [i \in 1..Len(d) |-> d[i]]
  BY <1>2
<1> HIDE DEF d
<1>7. d = [i \in 1..Len(d) |-> i]
  BY <1>5, <1>6
<1> QED
  BY <1>2, <1>7 DEF d

\* An upload's file is written in order, and the end follows all its frames.
LEMMA NextFileInv == ASSUME IInv, Next PROVE FileInv'
<1> SUFFICES ASSUME op = "upload" PROVE FileInv'
  BY TransferFixed DEF FileInv
<1>0. /\ ~Managed /\ op' = "upload" /\ size' = size /\ size \in Nat
      /\ content = [i \in 1..Len(content) |-> i] /\ Len(content) <= size
      /\ Has(toAgent, "upload") => file = "none" /\ content = <<>>
      /\ Has(toAgent, "end") => up = <<>> /\ sent = size + 1
      /\ toAgent \in Seq(Message) /\ content \in Seq(Nat)
  BY TransferFixed DEF Managed, IInv, TypeOK, FileInv
<1>1. ASSUME content' = content, toAgent' = toAgent, file' = file,
             Has(toAgent, "end") => UNCHANGED <<up, sent>>
      PROVE  FileInv'
  BY <1>0, <1>1 DEF FileInv, Has
<1>2. CASE SendUpload
  <2>1. UNCHANGED <<content, toAgent, file>> /\ sent <= size
    BY <1>2 DEF SendUpload, agent
  <2> QED
    BY <1>0, <1>1, <2>1
<1>3. CASE Receive \/ SocketCloses \/ GiveUp \/ SocketBreaks \/ Refuse \/ Delete \/ CloseTraffic \/ HangUp
           \/ Route \/ RouteClose \/ RouteDelete \/ Done
  <2>1. UNCHANGED <<content, toAgent, file, up, sent>>
    BY <1>3, ZenonT(30) DEF Receive, SocketCloses, GiveUp, SocketBreaks, Refuse, Delete, CloseTraffic, HangUp, Route,
       RouteClose, RouteDelete, Done, vars, console, socket, agent
  <2> QED
    BY <1>1, <2>1
<1>4. CASE SendRequest \/ StartManager \/ ReadRequest \/ ManagerLeaves \/ RouteManager
  BY <1>0, <1>4 DEF SendRequest, StartManager, ReadRequest, ManagerLeaves, RouteManager
<1>5. ASSUME UNCHANGED <<content, file, sent>>, NEW m \in Message, toAgent' \in {toAgent, Append(toAgent, m)},
             m.kind = "upload" => file = "none" /\ content = <<>>,
             Has(toAgent, "end") => up' = up,
             m.kind = "end" => up' = <<>> /\ sent = size + 1
      PROVE  FileInv'
  <2>1. \A kind : Has(Append(toAgent, m), kind) <=> Has(toAgent, kind) \/ m.kind = kind
    BY <1>0, AppendMessage, ZenonT(30)
  <2>2. Has(toAgent', "upload") => file' = "none" /\ content' = <<>>
    BY <1>0, <1>5, <2>1, ZenonT(30)
  <2>3. Has(toAgent', "end") => up' = <<>> /\ sent' = size + 1
    BY <1>0, <1>5, <2>1, ZenonT(30)
  <2> QED
    BY <1>0, <1>5, <2>2, <2>3, ZenonT(30) DEF FileInv, Has
<1>6. CASE Start
  <2>1. UNCHANGED <<content, file, sent, up>> /\ file = "none" /\ content = <<>>
    BY <1>6 DEF Start, console, socket, agent, IInv, LinkInv
  <2>2. toAgent' \in {toAgent, Append(toAgent, Msg("upload"))}
    BY <1>6 DEF Start, WriteAgent
  <2>3. Msg("upload") \in Message /\ Msg("upload").kind = "upload"
    BY MessageTypes DEF Kinds
  <2> QED
    BY <1>5, <2>1, <2>2, <2>3
<1>7. CASE ReadFrame
  <2>1. UNCHANGED <<content, file>> /\ up # <<>>
    BY <1>7 DEF ReadFrame, agent
  <2>2. /\ sent' = sent /\ toAgent' \in {toAgent, Append(toAgent, Head(up))} /\ Head(up) \in Message
        /\ Head(up) = Frame(Read + 1) /\ Read + 1 <= size + 1
        /\ Read + 1 = size + 1 => up' = <<>> /\ sent = size + 1
    BY <1>7, ReadFrameNext
  <2>3. Read \in Nat
    BY UpTypes
  <2>4. Head(up).kind # "upload" /\ (Head(up).kind = "end" => Read + 1 = size + 1)
    BY <1>0, <2>2, <2>3, FrameKinds
  <2> QED
    BY <1>0, <1>5, <2>1, <2>2, <2>4
<1>8. CASE ReadError
  <2>1. UNCHANGED <<content, file, sent, up>>
    BY <1>8 DEF ReadError, console, socket, agent
  <2>2. toAgent' \in {toAgent, Append(toAgent, Msg("error"))}
    BY <1>8 DEF ReadError, WriteAgent
  <2>3. Msg("error") \in Message /\ Msg("error").kind = "error"
    BY MessageTypes DEF Kinds
  <2> QED
    BY <1>5, <2>1, <2>2, <2>3
<1>9. CASE Control
  <2>1. PICK kind : Handle(kind)
    BY <1>9 DEF Control, OpenUpload, WriteChunk, EndUpload, AbortUpload, StartDownload, Change, List
  <2>2. ~Has(toAgent', "upload") /\ (Has(toAgent', "end") => Has(toAgent, "end")) /\ UNCHANGED <<up, sent>>
    BY <2>1, UploadHandled, Handled
  <2>3. content' = [i \in 1..Len(content') |-> i] /\ Len(content') <= size
    <3>1. CASE content' = content
      BY <1>0, <3>1
    <3>2. CASE Change
      BY <3>2, Handled, KindsByOp DEF Change
    <3>3. CASE WriteChunk /\ content' # content
      <4>1. Handle("chunk") /\ file = "open" /\ content' = Append(content, Head(toAgent).n)
        BY <3>3 DEF WriteChunk
      <4>2. Head(toAgent).n = Len(content) + 1 /\ Len(content) + 1 <= size
        BY <4>1, UploadHandled
      <4> QED
        BY <1>0, <4>1, <4>2, NextChunk
    <3> QED
      BY <1>9, <3>1, <3>2, <3>3 DEF Control, OpenUpload, EndUpload, AbortUpload, StartDownload, List
  <2> QED
    BY <1>0, <2>2, <2>3 DEF FileInv, Has
<1>10. CASE Stream
  BY <1>10, Streamed
<1>11. CASE LinkLost
  <2>1. toAgent' = <<>> /\ UNCHANGED <<content, file, up, sent>>
    BY <1>11, LinkLostKeeps
  <2> QED
    BY <1>0, <2>1, NoMessage DEF FileInv, Has
<1>12. CASE Cleanup \/ Reconnect
  <2>1. UNCHANGED <<content, toAgent, up, sent>>
    BY <1>12 DEF Cleanup, Reconnect, console, socket, agent
  <2>2. toAgent = <<>>
    BY <1>12 DEF Cleanup, Reconnect, First, IInv, LinkInv
  <2> QED
    BY <1>0, <2>1, <2>2, NoMessage DEF FileInv, Has
<1> QED
  BY <1>2, <1>3, <1>4, <1>6, <1>7, <1>8, <1>9, <1>10, <1>11, <1>12
  DEF Next, Browser, Handler, Router

\* Only the end of an upload, or a change, makes the device say that all went well
\* for the first time.
LEMMA FirstSuccess ==
  ASSUME IInv, Next, op \in {"upload", "change"}, Succeeded', ~Succeeded
  PROVE  ((EndUpload /\ file = "open") \/ Change) /\ Reply("done")
<1>0. /\ fromAgent \in Seq(Message) /\ down \in Seq(Message) /\ op \in {"upload", "change"}
      /\ browser # "ok" /\ ~Has(down, "done") /\ ~Has(fromAgent, "done")
  BY DEF IInv, TypeOK, Succeeded
<1>1. browser' = "ok" \/ Has(down', "done") \/ Has(fromAgent', "done")
  BY DEF Succeeded, Has
<1>2. CASE SendUpload \/ SendRequest \/ SocketCloses \/ GiveUp \/ SocketBreaks \/ Start \/ ReadFrame
           \/ ReadError \/ Delete \/ CloseTraffic \/ HangUp \/ StartManager \/ ReadRequest
           \/ ManagerLeaves \/ RouteClose \/ RouteDelete \/ Cleanup \/ Done
  BY <1>0, <1>1, <1>2, ZenonT(30) DEF SendUpload, SendRequest, SocketCloses, GiveUp, SocketBreaks, Start, ReadFrame,
     ReadError, Delete, CloseTraffic, HangUp, StartManager, ReadRequest, ManagerLeaves, RouteClose,
     RouteDelete, Cleanup, Done, vars, console, socket
<1>3. CASE Receive
  <2>1. down # <<>> /\ down' = Tail(down) /\ fromAgent' = fromAgent /\ Only(down, {"done", "error"})
    BY <1>0, <1>3, KindsByOp, ZenonT(30) DEF Receive, IInv, KindInv
  <2>2. Head(down).kind = "error" /\ ~Has(down', "done")
    BY <1>0, <2>1, TakeMessage
  <2> QED
    BY <1>0, <1>1, <1>3, <2>1, <2>2 DEF Receive
<1>4. CASE Refuse
  <2>1. browser' = browser /\ fromAgent' = fromAgent /\ ToBrowser(Msg("error"))
    BY <1>4 DEF Refuse, console
  <2>2. down' = down \/ down' = Append(down, Msg("error"))
    BY <2>1, ZenonT(30) DEF ToBrowser
  <2>3. ~Has(Append(down, Msg("error")), "done")
    BY <1>0, AppendMessage, MessageTypes, ZenonT(30) DEF Kinds
  <2> QED
    BY <1>0, <1>1, <2>1, <2>2, <2>3, ZenonT(30)
<1>5. CASE Route \/ RouteManager
  <2>1. browser' = browser /\ fromAgent # <<>> /\ fromAgent' = Tail(fromAgent)
    BY <1>5 DEF Route, RouteManager, console
  <2>2. down' = down \/ down' = Append(down, Head(fromAgent))
    BY <1>5, ZenonT(30) DEF Route, RouteManager, ToBrowser
  <2>3. Head(fromAgent) \in Message /\ Head(fromAgent).kind # "done" /\ ~Has(fromAgent', "done")
    BY <1>0, <2>1, TakeMessage, ZenonT(30)
  <2>4. ~Has(Append(down, Head(fromAgent)), "done")
    BY <1>0, <2>3, AppendMessage, ZenonT(30)
  <2> QED
    BY <1>0, <1>1, <2>1, <2>2, <2>3, <2>4, ZenonT(30)
<1>6. CASE Control
  <2>1. PICK kind : Handle(kind)
    BY <1>6 DEF Control, OpenUpload, WriteChunk, EndUpload, AbortUpload, StartDownload, Change, List
  <2>2. browser' = browser /\ down' = down /\ First
    BY <2>1, Handled
  <2>3. fromAgent' # fromAgent
    BY <1>0, <1>1, <2>2
  <2>4. ~Reply("error") /\ ~Reply("result")
    <3>1. ASSUME NEW k \in {"error", "result"}, Reply(k) PROVE FALSE
      <4>1. Msg(k) \in Message /\ Msg(k).kind = k /\ fromAgent' = Append(fromAgent, Msg(k))
        BY <2>2, <3>1, Replied, MessageTypes DEF Kinds
      <4> QED
        BY <1>0, <1>1, <2>2, <4>1, AppendMessage, ZenonT(30)
    <3> QED
      BY <3>1
  <2> QED
    BY <1>6, <2>3, <2>4 DEF Control, OpenUpload, WriteChunk, EndUpload, AbortUpload, StartDownload,
       Change, List
<1>7. CASE Stream
  BY <1>7, Streamed
<1>8. CASE LinkLost
  BY <1>0, <1>1, <1>8, LinkLostKeeps
<1>9. CASE Reconnect
  <2>1. UNCHANGED <<browser, down>> /\ fromAgent' = <<>>
    BY <1>9, ZenonT(30) DEF Reconnect, console, socket
  <2> QED
    BY <1>0, <1>1, <2>1, NoMessage
<1> QED
  BY <1>2, <1>3, <1>4, <1>5, <1>6, <1>7, <1>8, <1>9 DEF Next, Browser, Handler, Router

\* The device says so when it holds the whole file and has closed it.
LEMMA EndUploadDone ==
  ASSUME IInv, Next, op = "upload", EndUpload, file = "open", Reply("done")
  PROVE  UploadDone'
<1>0. Handle("end") /\ UNCHANGED content /\ file' = "shut"
  <2>1. Handle("end") /\ UNCHANGED content
    BY DEF EndUpload
  <2> QED
    BY <2>1 DEF EndUpload
<1>1. /\ ~Has(toAgent', "upload") /\ Pending /\ Base = Len(content) /\ Len(content) = size
  BY <1>0, UploadHandled
<1>2. /\ First /\ Has(toAgent, "end") /\ UNCHANGED <<op, size, sent, up, counted, endState>>
      /\ Len(toAgent') = Len(toAgent) - 1
      /\ \A i \in 1..Len(toAgent') : toAgent'[i] = toAgent[i + 1] /\ i + 1 \in 1..Len(toAgent)
  BY <1>0, Handled
<1>3. fromAgent = <<>> /\ Len(content) <= counted /\ Base \in Int /\ Len(toAgent) \in Nat /\ size \in Nat
  BY <1>1, PendingFacts
<1>4. fromAgent' = Append(fromAgent, Msg("done"))
  BY <1>2, <1>3, Replied DEF Kinds
<1>5. Len(fromAgent') = 1 /\ ~Has(fromAgent', "error")
  <2>1. Msg("done") \in Message /\ Msg("done").kind = "done"
    BY MessageTypes DEF Kinds
  <2>2. fromAgent \in Seq(Message) /\ Len(fromAgent) = 0 /\ ~Has(fromAgent, "error")
    BY <1>3, NoMessage, ZenonT(30)
  <2>3. /\ Len(Append(fromAgent, Msg("done"))) = Len(fromAgent) + 1
        /\ \A k : Has(Append(fromAgent, Msg("done")), k) <=> Has(fromAgent, k) \/ Msg("done").kind = k
    BY <2>1, <2>2, AppendMessage, ZenonT(30)
  <2>4. ~Has(Append(fromAgent, Msg("done")), "error")
    BY <2>1, <2>2, <2>3
  <2>5. Len(Append(fromAgent, Msg("done"))) = 1
    BY <2>2, <2>3
  <2> QED
    BY <1>4, <2>4, <2>5
<1>6. content' = Whole'
  BY <1>0, <1>1, <1>2 DEF IInv, FileInv, Whole
<1>7. up = <<>> /\ sent = size + 1
  BY <1>2 DEF IInv, FileInv
<1>8. counted = size
  <2>1. counted <= size /\ counted \in Nat
    BY UpTypes
  <2> QED
    BY <1>1, <1>3, <2>1
<1>9. endState = "closed"
  BY <1>2 DEF IInv, LinkInv, TypeOK
<1>10. ASSUME Has(toAgent', "end") PROVE FALSE
  <2>1. PICK i \in 1..Len(toAgent') : toAgent'[i].kind = "end"
    BY <1>10 DEF Has
  <2>2. toAgent[i + 1].kind = "end" /\ i + 1 \in 1..Len(toAgent) /\ i >= 1 /\ i \in Nat
    BY <1>2, <1>3, <2>1
  <2>3. ~(Base + (i + 1) <= size + 1)
    BY <1>1, <1>3, <2>2
  <2>4. toAgent[i + 1] = Msg("error")
    BY <1>1, <2>2, <2>3, PendingFacts
  <2> QED
    BY <2>2, <2>4, MessageTypes DEF Kinds
<1> QED
  BY <1>0, <1>1, <1>2, <1>5, <1>6, <1>7, <1>8, <1>9, <1>10 DEF UploadDone, Has

\* After that, nothing touches the file or the count again.
LEMMA NextUploadDone == ASSUME IInv, Next PROVE UploadDone'
<1> SUFFICES ASSUME op = "upload", Succeeded' PROVE UploadDone'
  BY TransferFixed DEF UploadDone
<1>1. CASE ~Succeeded
  <2>1. ~Change
    BY Handled, KindsByOp DEF Change
  <2> QED
    BY <1>1, <2>1, FirstSuccess, EndUploadDone
<1> SUFFICES ASSUME Succeeded PROVE UploadDone'
  BY <1>1
<1>0. /\ ~Managed /\ size' = size /\ Whole' = Whole /\ size \in Nat
      /\ content = Whole /\ file = "shut" /\ ~Has(toAgent, "upload") /\ ~Has(toAgent, "end")
      /\ Len(fromAgent) <= 1 /\ ~Has(fromAgent, "error")
      /\ up = <<>> /\ sent = size + 1 /\ counted = size /\ endState = "closed"
      /\ toAgent \in Seq(Message) /\ fromAgent \in Seq(Message) /\ Len(fromAgent) \in Nat
  <2>1. UploadDone /\ toAgent \in Seq(Message) /\ fromAgent \in Seq(Message) /\ size \in Nat
    BY DEF IInv, TypeOK
  <2>2. Len(fromAgent) \in Nat
    BY <2>1
  <2> QED
    BY <2>1, <2>2, TransferFixed, ZenonT(30) DEF Managed, UploadDone
<1>2. ASSUME UNCHANGED <<content, file, up, sent, counted, endState>>,
             Has(toAgent', "upload") => Has(toAgent, "upload"),
             Has(toAgent', "end") => Has(toAgent, "end"),
             Len(fromAgent') <= 1, Has(fromAgent', "error") => Has(fromAgent, "error")
      PROVE  UploadDone'
  BY <1>0, <1>2, ZenonT(30) DEF UploadDone, Has
<1>3. handler # "start"
  <2>1. ~Has(<<>>, "done")
    BY NoMessage, ZenonT(30)
  <2> QED
    BY <2>1 DEF Succeeded, IInv, LinkInv
<1>4. CASE SendUpload \/ Start \/ Refuse \/ ReadFrame
  <2>1. ~(sent <= size) /\ up = <<>>
    BY <1>0
  <2> QED
    BY <1>3, <1>4, <2>1, ZenonT(30) DEF SendUpload, Start, Refuse, ReadFrame
<1>5. CASE SendRequest \/ StartManager \/ ReadRequest \/ ManagerLeaves \/ RouteManager
  BY <1>0, <1>5 DEF SendRequest, StartManager, ReadRequest, ManagerLeaves, RouteManager
<1>6. CASE Receive \/ SocketCloses \/ GiveUp \/ SocketBreaks \/ Delete \/ CloseTraffic \/ HangUp
           \/ RouteClose \/ RouteDelete \/ Done
  <2>1. UNCHANGED <<content, file, up, sent, counted, endState, toAgent, fromAgent>>
    BY <1>6, ZenonT(30) DEF Receive, SocketCloses, GiveUp, SocketBreaks, Delete, CloseTraffic, HangUp, RouteClose,
       RouteDelete, Done, vars, console, socket, server, record, agent
  <2> QED
    BY <1>0, <1>2, <2>1
<1>7. CASE ReadError
  <2>1. UNCHANGED <<content, file, up, sent, counted, endState, fromAgent>>
    BY <1>7 DEF ReadError, console, socket, record, agent
  <2>2. toAgent' \in {toAgent, Append(toAgent, Msg("error"))}
    BY <1>7 DEF ReadError, WriteAgent
  <2>3. Msg("error") \in Message /\ Msg("error").kind = "error"
    BY MessageTypes DEF Kinds
  <2>4. ~Has(Append(toAgent, Msg("error")), "upload") /\ ~Has(Append(toAgent, Msg("error")), "end")
    BY <1>0, <2>3, AppendMessage, ZenonT(30)
  <2> QED
    BY <1>0, <1>2, <2>1, <2>2, <2>4, ZenonT(30)
<1>8. CASE Route
  <2>1. fromAgent # <<>> /\ fromAgent' = Tail(fromAgent) /\ Only(fromAgent, {"done", "error"})
    BY <1>8, KindsByOp, ZenonT(30) DEF Route, IInv, KindInv
  <2>2. /\ Head(fromAgent).kind # "chunk" /\ Len(fromAgent') <= 1
        /\ Has(fromAgent', "error") => Has(fromAgent, "error")
    BY <1>0, <2>1, TakeMessage
  <2>3. UNCHANGED <<content, file, up, sent, counted, endState, toAgent>>
    BY <1>8, <2>2 DEF Route, console, agent
  <2> QED
    BY <1>0, <1>2, <2>2, <2>3
<1>9. CASE Control
  <2>1. PICK kind : Handle(kind)
    BY <1>9 DEF Control, OpenUpload, WriteChunk, EndUpload, AbortUpload, StartDownload, Change, List
  <2>2. /\ Has(toAgent', "upload") => Has(toAgent, "upload")
        /\ Has(toAgent', "end") => Has(toAgent, "end")
        /\ UNCHANGED <<up, sent, counted, endState>>
    BY <2>1, Handled
  <2>3. ~Handle("upload") /\ ~Handle("end")
    BY <1>0, Handled
  <2>4. ~Handle("download") /\ ~Handle("change") /\ ~Handle("list")
    BY Handled, KindsByOp, ZenonT(30)
  <2>5. UNCHANGED <<content, file, fromAgent>>
    BY <1>0, <1>9, <2>3, <2>4 DEF Control, OpenUpload, WriteChunk, EndUpload, AbortUpload,
       StartDownload, Change, List
  <2> QED
    BY <1>0, <1>2, <2>2, <2>5, ZenonT(30)
<1>10. CASE Stream
  BY <1>10, Streamed
<1>11. CASE LinkLost
  <2>1. /\ UNCHANGED <<content, file, up, sent, counted, endState>> /\ toAgent' = <<>>
        /\ Len(fromAgent') <= Len(fromAgent) /\ (Has(fromAgent', "error") => Has(fromAgent, "error"))
        /\ Len(fromAgent') \in Nat
    BY <1>11, LinkLostKeeps
  <2>2. Len(fromAgent') <= 1
    BY <1>0, <2>1
  <2> QED
    BY <1>2, <2>1, <2>2, NoMessage
<1>12. CASE Cleanup
  <2>1. UNCHANGED <<content, file, up, sent, counted, endState, toAgent, fromAgent>>
    BY <1>0, <1>12 DEF Cleanup, console, socket, server, record
  <2> QED
    BY <1>0, <1>2, <2>1
<1>13. CASE Reconnect
  <2>1. UNCHANGED <<content, file, up, sent, counted, endState, toAgent>> /\ fromAgent' = <<>>
    BY <1>13 DEF Reconnect, console, socket, server, record, agent
  <2> QED
    BY <1>2, <2>1, NoMessage
<1> QED
  BY <1>4, <1>5, <1>6, <1>7, <1>8, <1>9, <1>10, <1>11, <1>12, <1>13, ZenonT(30)
  DEF Next, Browser, Handler, Router, Control

-----------------------------------------------------------------------------
(* The file manager.                                                       *)

\* A request is in one place at a time, and what it changes is changed once.
LEMMA NextManagerInv == ASSUME IInv, Next PROVE ManagerInv'
<1> SUFFICES ASSUME Managed PROVE ManagerInv'
  BY TransferFixed DEF ManagerInv
<1>0. /\ op' = op /\ size' = size /\ op \in {"change", "list"} /\ Requests = {op}
      /\ size = 1 /\ sent <= 1 /\ Len(up) + Len(toAgent) + Len(content) <= sent
      /\ \A i \in 1..Len(content) : content[i] = 1
      /\ op = "change" /\ Succeeded => Len(content) = 1
      /\ up \in Seq(Message) /\ toAgent \in Seq(Message) /\ content \in Seq(Nat)
      /\ Len(up) \in Nat /\ Len(toAgent) \in Nat /\ Len(content) \in Nat /\ sent \in Nat
  BY TransferFixed, KindsByOp DEF Managed, IInv, TypeOK, ManagerInv
<1>1. ASSUME sent' <= 1, Len(up') + Len(toAgent') + Len(content') <= sent', content' = content,
             ~(EndUpload /\ file = "open") /\ ~(Change /\ Reply("done"))
      PROVE  ManagerInv'
  <2>1. op = "change" /\ Succeeded' => Succeeded
    BY <1>1, FirstSuccess
  <2> QED
    BY <1>0, <1>1, <2>1 DEF ManagerInv
<1>2. ~Handle("end") /\ ~Handle("upload") /\ ~Handle("chunk") /\ ~Handle("error") /\ ~Handle("download")
  BY <1>0, Handled
<1>3. CASE SendRequest
  <2>1. sent = 0 /\ sent' = 1 /\ up' = Append(up, Msg(op)) /\ UNCHANGED <<toAgent, content>>
    BY <1>3 DEF SendRequest, agent
  <2>2. Msg(op) \in Message
    BY <1>0, MessageTypes DEF Kinds
  <2>3. Len(up') = Len(up) + 1
    BY <1>0, <2>1, <2>2, AppendMessage, ZenonT(30)
  <2>4. sent' <= 1 /\ Len(up') + Len(toAgent') + Len(content') <= sent'
    BY <1>0, <2>1, <2>3
  <2>5. ~Change
    BY <2>1, Handled DEF Change
  <2> QED
    BY <1>1, <1>2, <2>1, <2>4, <2>5 DEF EndUpload
<1>4. CASE ReadRequest
  <2>1. up # <<>> /\ up' = Tail(up) /\ UNCHANGED <<sent, content>>
    BY <1>4 DEF ReadRequest, console, agent
  <2>2. Len(up') = Len(up) - 1 /\ Len(up) >= 1 /\ Head(up) \in Message
    BY <1>0, <2>1, TakeMessage
  <2>3. toAgent' = toAgent \/ toAgent' = Append(toAgent, Head(up))
    BY <1>4, ZenonT(30) DEF ReadRequest, WriteAgent
  <2>4. Len(Append(toAgent, Head(up))) = Len(toAgent) + 1
    BY <1>0, <2>2, AppendMessage
  <2>5. Len(toAgent') = Len(toAgent) \/ Len(toAgent') = Len(toAgent) + 1
    BY <2>3, <2>4
  <2>6. sent' <= 1 /\ Len(up') + Len(toAgent') + Len(content') <= sent'
    BY <1>0, <2>1, <2>2, <2>5
  <2>7. ~Change
    <3>1. up' # up
      BY <1>0, <2>2
    <3> QED
      BY <3>1, Handled DEF Change
  <2> QED
    BY <1>1, <1>2, <2>1, <2>6, <2>7 DEF EndUpload
<1>5. CASE Change \/ List
  <2>1. PICK kind : Handle(kind)
    BY <1>5 DEF Change, List
  <2>2. UNCHANGED <<sent, up>> /\ Len(toAgent') = Len(toAgent) - 1 /\ Len(toAgent) >= 1
    BY <2>1, Handled
  <2>3. CASE content' = content /\ ~(Change /\ Reply("done"))
    <3>1. sent' <= 1 /\ Len(up') + Len(toAgent') + Len(content') <= sent'
      BY <1>0, <2>2, <2>3
    <3> QED
      BY <1>1, <1>2, <2>3, <3>1 DEF EndUpload
  <2>4. CASE content' = Append(content, 1)
    <3>1. Len(content) = 0 /\ Len(toAgent) = 1 /\ Len(up) = 0
      BY <1>0, <2>2
    <3>2. Len(content') = 1 /\ content'[1] = 1
      BY <1>0, <2>4, <3>1, AppendNumber
    <3>3. \A i \in 1..Len(content') : content'[i] = 1
      BY <3>2
    <3>4. sent' <= 1 /\ Len(up') + Len(toAgent') + Len(content') <= sent'
      <4>1. sent' = sent /\ up' = up /\ Len(toAgent') = Len(toAgent) - 1
        BY <2>2, ZenonT(30)
      <4>2. sent \in Nat /\ sent <= 1 /\ Len(up) + Len(toAgent) + Len(content) <= sent
        BY <1>0, ZenonT(30)
      <4> QED
        BY <3>1, <3>2, <4>1, <4>2
    <3> QED
      BY <1>0, <3>2, <3>3, <3>4 DEF ManagerInv
  <2>5. CASE content' = content /\ Change /\ Reply("done")
    <3>1. Reply("error")
      BY <1>0, <2>5 DEF Change
    <3>2. First
      BY <2>1, Handled
    <3>3. Append(fromAgent, Msg("done")) = Append(fromAgent, Msg("error"))
      BY <2>5, <3>1, <3>2, Replied DEF Kinds
    <3>4. fromAgent \in Seq(Message)
      BY DEF IInv, TypeOK
    <3>5. /\ Msg("done") \in Message /\ Msg("done").kind = "done"
          /\ Msg("error") \in Message /\ Msg("error").kind = "error"
      BY MessageTypes DEF Kinds
    <3>6. Msg("done") = Msg("error")
      <4>1. /\ Append(fromAgent, Msg("done"))[Len(fromAgent) + 1] = Msg("done")
            /\ Append(fromAgent, Msg("error"))[Len(fromAgent) + 1] = Msg("error")
        BY <3>4, <3>5, AppendMessage, ZenonT(30)
      <4> QED
        BY <3>3, <4>1, ZenonT(30)
    <3> QED
      BY <3>5, <3>6, ZenonT(30)
  <2> QED
    BY <1>5, <2>3, <2>4, <2>5 DEF Change, List
<1>6. ASSUME UNCHANGED <<sent, up, content>>, toAgent' = toAgent PROVE ManagerInv'
  <2>1. ~Change /\ ~EndUpload
    BY <1>0, <1>6, Handled DEF Change, EndUpload
  <2> QED
    BY <1>0, <1>1, <1>6, <2>1
<1>7. CASE Receive \/ SocketCloses \/ GiveUp \/ SocketBreaks \/ Delete \/ HangUp \/ CloseTraffic
           \/ StartManager \/ ManagerLeaves \/ RouteManager \/ RouteClose \/ RouteDelete
           \/ Cleanup \/ Reconnect \/ Done
  BY <1>6, <1>7, ZenonT(30) DEF Receive, SocketCloses, GiveUp, SocketBreaks, Delete, HangUp, CloseTraffic, StartManager,
     ManagerLeaves, RouteManager, RouteClose, RouteDelete, Cleanup, Reconnect, Done, vars, console,
     socket, agent
<1>8. CASE SendUpload \/ Start \/ Refuse \/ ReadFrame \/ ReadError \/ Route
  BY <1>0, <1>8, ZenonT(30) DEF SendUpload, Start, Refuse, ReadFrame, ReadError, Route
<1>9. CASE OpenUpload \/ WriteChunk \/ EndUpload \/ AbortUpload \/ StartDownload
  BY <1>2, <1>9 DEF OpenUpload, WriteChunk, EndUpload, AbortUpload, StartDownload
<1>10. CASE Stream
  BY <1>0, <1>10, Streamed
<1>11. CASE LinkLost
  <2>1. UNCHANGED <<sent, up, content>> /\ toAgent' = <<>>
    BY <1>11, LinkLostKeeps
  <2>2. sent' <= 1 /\ Len(up') + Len(toAgent') + Len(content') <= sent'
    BY <1>0, <2>1, NoMessage
  <2>3. ~Change
    BY <1>11 DEF Change, Handle, device, LinkLost
  <2> QED
    BY <1>1, <1>2, <2>1, <2>2, <2>3 DEF EndUpload
<1> QED
  BY <1>3, <1>4, <1>5, <1>7, <1>8, <1>9, <1>10, <1>11 DEF Next, Browser, Handler, Router, Control
=============================================================================
