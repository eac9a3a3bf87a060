------------------------- MODULE ForwardConnProofs -------------------------
(***************************************************************************)
(* Proofs about ForwardConn, for every channel capacity of at least two    *)
(* and any number of messages: type correctness, in-order delivery, the    *)
(* slot kept for the end marker, clean close, absence of socket leaks, and *)
(* the refinement of ByteStream.  And about ForwardSession, the relay's    *)
(* side of the same tunnel: the row of a closed session is complete and    *)
(* final, and a direct path suppresses the relay fallback.                 *)
(***************************************************************************)
EXTENDS ForwardConn, ForwardSession, SequenceTheorems, TLAPS

\* No writer has yet failed, met the end marker or ended.
Intact == \A w \in Writers : pc[w] \in {"off", "loop", "write"}

\* Chunks that left the channel: those written and the one a writer holds.
Base == Len(written) + (IF \E w \in Writers : pc[w] = "write" THEN 1 ELSE 0)

\* The next chunk that arrives, or the one in the control loop's hands, will be
\* queued unless the backlog is full.
Accepting ==
  /\ ~closed /\ ~draining /\ pc["ctl"] # "overflow"
  /\ registered = "yes" \/ pc["ctl"] \in {"enqueue", "gracefulClose"}

\* At most one writeLoop ever runs.
WriterInv ==
  /\ \A w \in Writers : pc[w] # "off" => writing
  /\ pc["writer1"] = "off" \/ pc["writer2"] = "off"

\* closed, cause, cancelled and the goroutine inside Close agree.
CloseInv ==
  /\ closed <=> cause # "none"
  /\ cancelled => closed /\ conn # "open"
  /\ closed => cancelled \/ \E a \in Actors : pc[a] = "release"
  /\ \A a \in Actors : pc[a] = "release" => closed
  /\ \A w \in Writers : pc[w] = "done" => closed
  /\ cause = "eof" => \A w \in Writers : pc[w] \in {"off", "release", "done"}

\* While no writer has failed the channel holds consecutive chunks, the first
\* one following what left it, and behind them the marker if draining.
QueueOrder ==
  \A i \in 1..Len(writes) :
    writes[i] = IF draining /\ i = Len(writes) THEN EOF ELSE Base + i
QueueHeld == \A w \in Writers : pc[w] = "write" => item[w] = Len(written) + 1
QueueEnd ==
  /\ draining => Len(writes) > 0 /\ Base + Len(writes) - 1 = owed /\ owed <= arrived
  /\ ~draining => Base + Len(writes) <= arrived
QueueAccepts ==
  Accepting => Base + Len(writes) = IF pc["ctl"] = "enqueue" THEN arrived - 1 ELSE arrived
QueueInv == QueueOrder /\ QueueHeld /\ QueueEnd /\ QueueAccepts

StreamInv ==
  /\ ~draining => Len(writes) < Cap
  /\ draining <=> owed # NoEnd
  /\ Intact => QueueInv
  /\ InOrder
  /\ \A w \in Writers : pc[w] = "eof" => Len(written) = owed
  /\ CleanCloseDeliversAll

OwnerInv ==
  /\ pc["owner"] \in {"close", "release", "done"} => registered # "yes"
  /\ pc["owner"] = "done" => closed

IInv == TypeOK /\ WriterInv /\ CloseInv /\ StreamInv /\ OwnerInv

-----------------------------------------------------------------------------
(* Type correctness.                                                       *)

\* The initial state is well typed.
LEMMA InitTypeOK == Init => TypeOK
<1> SUFFICES ASSUME Init PROVE TypeOK
  OBVIOUS
<1> USE DEF Init, Actors, Writers
<1>1. /\ role \in {"source", "target"} /\ conn \in {"nil", "open", "shut"}
      /\ closed \in BOOLEAN /\ cause \in Causes /\ cancelled \in BOOLEAN
      /\ writing \in BOOLEAN /\ draining \in BOOLEAN /\ owed \in Nat \cup {NoEnd}
      /\ registered \in {"yes", "finished", "removed"}
      /\ current \in BOOLEAN /\ opened \in BOOLEAN /\ notified \in BOOLEAN
  BY DEF Causes
<1>2. /\ writes \in Seq(Nat) /\ Len(writes) <= Cap
      /\ item \in [Writers -> Nat] /\ arrived \in Nat /\ written \in Seq(Nat)
  BY CapAssumption DEF EOF
<1>3. /\ pc \in [Actors -> CtlLabels \cup OwnerLabels \cup WriterLabels \cup TimerLabels]
      /\ pc["ctl"] \in CtlLabels /\ pc["owner"] \in OwnerLabels
      /\ pc["timer"] \in TimerLabels /\ \A w \in Writers : pc[w] \in WriterLabels
  BY DEF CtlLabels, OwnerLabels, WriterLabels, TimerLabels
<1> QED
  BY <1>1, <1>2, <1>3 DEF TypeOK

\* Every step keeps the types, and none overfills the channel.
LEMMA NextTypeOK == TypeOK /\ [Next]_vars => TypeOK'
<1> SUFFICES ASSUME TypeOK, [Next]_vars PROVE TypeOK'
  OBVIOUS
<1> USE CapAssumption DEF TypeOK, Actors, Writers, CtlLabels, OwnerLabels, WriterLabels,
      TimerLabels, Causes, EOF, NoEnd, sock, queue, session, data
<1>1. CASE RecvData
  BY <1>1 DEF RecvData, CtlIdle, CtlGoto
<1>2. CASE Enqueue
  BY <1>2 DEF Enqueue, EnqueueUpTo, CtlGoto
<1>3. CASE RecvClose
  BY <1>3 DEF RecvClose, CtlIdle, CtlGoto
<1>4. CASE GracefulClose
  <2>1. CASE UNCHANGED queue /\ \E label \in CtlLabels : CtlGoto(label)
    BY <1>4, <2>1 DEF GracefulClose, GracefulCloseWith, CtlGoto
  <2>2. CASE /\ ~closed /\ ~draining /\ writing /\ conn # "nil" /\ Len(writes) < Cap
             /\ pc' = [pc EXCEPT !["ctl"] = "idle", !["timer"] = "armed"]
             /\ draining' = TRUE /\ owed' = arrived
             /\ writes' = Append(writes, EOF) /\ UNCHANGED writing
    <3>1. writes' \in Seq(Nat) /\ Len(writes') <= Cap
      BY <2>2
    <3>2. pc' \in [Actors -> CtlLabels \cup OwnerLabels \cup WriterLabels \cup TimerLabels]
      BY <2>2
    <3>3. /\ pc'["ctl"] = "idle" /\ pc'["timer"] = "armed" /\ pc'["owner"] = pc["owner"]
          /\ \A w \in Writers : pc'[w] = pc[w]
      BY <2>2
    <3>4. UNCHANGED <<sock, session, data>>
      BY <1>4 DEF GracefulClose, GracefulCloseWith
    <3> QED
      BY <2>2, <3>1, <3>2, <3>3, <3>4
  <2> QED
    BY <1>4, <2>1, <2>2 DEF GracefulClose, GracefulCloseWith, CtlGoto
<1>5. CASE RecvError
  BY <1>5 DEF RecvError, CtlIdle, CtlGoto
<1>6. CASE RecvOpen
  BY <1>6 DEF RecvOpen, CtlIdle
<1>7. CASE LoseConn
  <2>1. current' \in BOOLEAN
    BY <1>7 DEF LoseConn
  <2>2. pc' = [pc EXCEPT !["ctl"] = "cleanup"]
    BY <1>7 DEF LoseConn, CtlGoto
  <2>3. UNCHANGED <<sock, queue, role, registered, opened, notified, data>>
    BY <1>7 DEF LoseConn
  <2> QED
    BY <2>1, <2>2, <2>3
<1>8. CASE CleanupSessions
  BY <1>8 DEF CleanupSessions, CtlGoto
<1>9. CASE CtlClose
  BY <1>9 DEF CtlClose, CallClose, Resume
<1>10. CASE ClientStart
  BY <1>10 DEF ClientStart, StartWriter, StartWriterIf
<1>11. CASE ClientConnect
  BY <1>11 DEF ClientConnect, OwnerGoto
<1>12. CASE ClientCancelled
  BY <1>12 DEF ClientCancelled, OwnerMove, OwnerGoto
<1>13. CASE ClientRelay
  BY <1>13 DEF ClientRelay, OwnerMove, OwnerGoto
<1>14. CASE ClientDirect
  BY <1>14 DEF ClientDirect, OwnerMove, OwnerGoto
<1>15. CASE ClientTimeout
  BY <1>15 DEF ClientTimeout, OwnerGoto
<1>16. CASE DirectEnds
  BY <1>16 DEF DirectEnds, OwnerGoto
<1>17. ASSUME NEW ok \in BOOLEAN, Dial(ok) PROVE TypeOK'
  BY <1>17 DEF Dial, OwnerGoto
<1>18. CASE Attach
  BY <1>18 DEF Attach, OwnerGoto
<1>19. CASE OwnerStart
  <2>1. PICK w \in Writers, label \in OwnerLabels : StartWriter(w, label)
    BY <1>19 DEF OwnerStart
  <2>2. pc' = [pc EXCEPT !["owner"] = label, ![w] = IF ~closed /\ ~writing THEN "loop" ELSE @]
    BY <2>1 DEF StartWriter, StartWriterIf
  <2>3. pc' \in [Actors -> CtlLabels \cup OwnerLabels \cup WriterLabels \cup TimerLabels]
    BY <2>2
  <2>4. /\ pc'["ctl"] = pc["ctl"] /\ pc'["timer"] = pc["timer"] /\ pc'["owner"] = label
        /\ \A v \in Writers : pc'[v] \in {pc[v], "loop"}
    BY <2>2
  <2>5. writing' \in BOOLEAN /\ UNCHANGED <<sock, writes, draining, owed, session, data>>
    BY <2>1 DEF StartWriter, StartWriterIf
  <2> QED
    BY <2>3, <2>4, <2>5
<1>20. CASE TargetOpen
  BY <1>20 DEF TargetOpen, OwnerGoto
<1>21. CASE ReadEnds
  BY <1>21 DEF ReadEnds, OwnerMove, OwnerGoto
<1>22. CASE AfterRead
  BY <1>22 DEF AfterRead, OwnerMove, OwnerGoto
<1>23. CASE AwaitDrained
  BY <1>23 DEF AwaitDrained, OwnerMove, OwnerGoto
<1>24. CASE NotifyRelay
  BY <1>24 DEF NotifyRelay, OwnerGoto
<1>25. CASE FinishForward
  BY <1>25 DEF FinishForward, OwnerGoto
<1>26. CASE OwnerClose
  BY <1>26 DEF OwnerClose, CallClose, Resume
<1>27. ASSUME NEW w \in Writers, Take(w) PROVE TypeOK'
  BY <1>27 DEF Take, WriterGoto
<1>28. ASSUME NEW w \in Writers, WriterExit(w) PROVE TypeOK'
  BY <1>28 DEF WriterExit, WriterGoto
<1>29. ASSUME NEW w \in Writers, WriteOK(w) PROVE TypeOK'
  BY <1>29 DEF WriteOK, WriterGoto
<1>30. ASSUME NEW w \in Writers, WriteErr(w) PROVE TypeOK'
  BY <1>30 DEF WriteErr, WriterGoto
<1>31. ASSUME NEW w \in Writers, WriterClose(w) PROVE TypeOK'
  BY <1>31 DEF WriterClose, CallClose, Resume
<1>32. CASE DrainTimeout
  BY <1>32 DEF DrainTimeout, CallClose, Resume
<1>33. ASSUME NEW a \in Actors, Release(a) PROVE TypeOK'
  BY <1>33 DEF Release, Resume
<1>34. CASE UNCHANGED vars
  BY <1>34 DEF vars
<1> QED
  BY <1>1, <1>2, <1>3, <1>4, <1>5, <1>6, <1>7, <1>8, <1>9, <1>10, <1>11, <1>12, <1>13,
     <1>14, <1>15, <1>16, <1>17, <1>18, <1>19, <1>20, <1>21, <1>22, <1>23, <1>24, <1>25,
     <1>26, <1>27, <1>28, <1>29, <1>30, <1>31, <1>32, <1>33, <1>34
  DEF Next, Ctl, Owner, Writer

\* Every reachable state is well typed and the channel within its capacity.
THEOREM TypeCorrect == Spec => []TypeOK
BY InitTypeOK, NextTypeOK, PTL DEF Spec

-----------------------------------------------------------------------------
(* What groups of actions leave alone.  Most of them only move a goroutine *)
(* on, so the invariants are shown for the group and not action by action. *)

OthersStay(a) == \A x \in Actors \ {a} : pc'[x] = pc[x]

\* The owner moves on without closing f or starting a writer.
OwnerQuiet ==
  /\ OthersStay("owner")
  /\ UNCHANGED <<closed, cause, cancelled, queue, data>>
  /\ conn' = "open" => conn = "open" \/ ~closed
  /\ registered' = "yes" => registered = "yes"
  /\ pc["owner"] \notin {"release", "done"} /\ pc'["owner"] \notin {"release", "done"}
  /\ pc'["owner"] = "close" => registered' # "yes"

OwnerSteps ==
  \/ ClientConnect \/ ClientCancelled \/ ClientRelay \/ ClientDirect \/ ClientTimeout
  \/ DirectEnds \/ (\E ok \in BOOLEAN : Dial(ok)) \/ Attach \/ TargetOpen \/ ReadEnds
  \/ AfterRead \/ AwaitDrained \/ NotifyRelay \/ FinishForward

\* Owner steps other than startWriter and Close are quiet.
LEMMA OwnerStepsQuiet == TypeOK /\ OwnerSteps => OwnerQuiet
<1> SUFFICES ASSUME TypeOK, OwnerSteps PROVE OwnerQuiet
  OBVIOUS
<1> USE DEF TypeOK, Actors, OthersStay, OwnerQuiet, OwnerGoto, OwnerMove, queue, session,
            data, sock
<1>1. CASE ClientConnect
  BY <1>1 DEF ClientConnect
<1>2. CASE ClientCancelled \/ ClientRelay \/ ClientDirect
  BY <1>2 DEF ClientCancelled, ClientRelay, ClientDirect
<1>3. CASE ClientTimeout
  BY <1>3 DEF ClientTimeout
<1>4. CASE DirectEnds
  BY <1>4 DEF DirectEnds
<1>5. ASSUME NEW ok \in BOOLEAN, Dial(ok) PROVE OwnerQuiet
  BY <1>5 DEF Dial
<1>6. CASE Attach
  BY <1>6 DEF Attach
<1>7. CASE TargetOpen
  BY <1>7 DEF TargetOpen
<1>8. CASE ReadEnds \/ AfterRead \/ AwaitDrained
  BY <1>8 DEF ReadEnds, AfterRead, AwaitDrained
<1>9. CASE NotifyRelay
  BY <1>9 DEF NotifyRelay
<1>10. CASE FinishForward
  BY <1>10 DEF FinishForward
<1> QED
  BY <1>1, <1>2, <1>3, <1>4, <1>5, <1>6, <1>7, <1>8, <1>9, <1>10 DEF OwnerSteps

\* The control loop moves on without touching the stream or the socket.
CtlQuiet ==
  /\ OthersStay("ctl")
  /\ UNCHANGED <<sock, queue, data>>
  /\ pc["ctl"] # "release" /\ pc'["ctl"] # "release"
  /\ registered' = "yes" => registered = "yes"
  /\ Accepting' => Accepting /\ pc["ctl"] # "enqueue" /\ pc'["ctl"] # "enqueue"

CtlSteps == RecvClose \/ RecvError \/ RecvOpen \/ LoseConn \/ CleanupSessions

\* The messages that carry no data, and the loss of the connection, are quiet.
LEMMA CtlStepsQuiet == TypeOK /\ CtlSteps => CtlQuiet
<1> SUFFICES ASSUME TypeOK, CtlSteps PROVE CtlQuiet
  OBVIOUS
<1> USE DEF TypeOK, Actors, OthersStay, CtlQuiet, Accepting, CtlGoto, CtlIdle, queue, data, sock
<1>1. CASE RecvClose
  BY <1>1 DEF RecvClose
<1>2. CASE RecvError
  BY <1>2 DEF RecvError
<1>3. CASE RecvOpen
  BY <1>3 DEF RecvOpen
<1>4. CASE LoseConn
  BY <1>4 DEF LoseConn
<1>5. CASE CleanupSessions
  BY <1>5 DEF CleanupSessions
<1> QED
  BY <1>1, <1>2, <1>3, <1>4, <1>5 DEF CtlSteps

\* The two startWriter calls of the owner, as one step.
StartsWriter ==
  \E w \in Writers, label \in {"connect", "open", "read"} :
    pc["owner"] \in {"init", "start"} /\ StartWriter(w, label)

\* The four Close calls, as one step.
Closes ==
  \E a \in Actors, c \in Causes \ {"none"} :
    /\ CallClose(a, c) /\ pc[a] # "release"
    /\ a \in Writers => pc[a] = c /\ c \in {"eof", "writeErr"}
    /\ a \notin Writers => c # "eof"
    /\ a = "owner" => pc[a] = "close"

\* Next, regrouped.
LEMMA NextCases ==
  TypeOK /\ [Next]_vars =>
    \/ RecvData \/ Enqueue \/ GracefulClose \/ CtlQuiet \/ OwnerQuiet
    \/ StartsWriter \/ Closes
    \/ (\E w \in Writers : Take(w) \/ WriterExit(w) \/ WriteOK(w) \/ WriteErr(w))
    \/ (\E a \in Actors : Release(a))
    \/ UNCHANGED vars
<1> SUFFICES ASSUME TypeOK, [Next]_vars
             PROVE  NextCases!2
  OBVIOUS
<1>1. ClientStart \/ OwnerStart => StartsWriter
  BY DEF ClientStart, OwnerStart, StartsWriter, Writers
<1>2. CtlClose \/ DrainTimeout \/ OwnerClose \/ (\E w \in Writers : WriterClose(w)) => Closes
  <2>1. CtlClose => Closes
    BY DEF CtlClose, Closes, Causes, Actors, Writers
  <2>2. DrainTimeout => Closes
    BY DEF DrainTimeout, Closes, Causes, Actors, Writers
  <2>3. OwnerClose => Closes
    BY DEF OwnerClose, Closes, Causes, Actors, Writers
  <2>4. ASSUME NEW w \in Writers, WriterClose(w) PROVE Closes
    BY <2>4 DEF WriterClose, Closes, Causes, Actors, Writers
  <2> QED
    BY <2>1, <2>2, <2>3, <2>4
<1> QED
  BY <1>1, <1>2, OwnerStepsQuiet, CtlStepsQuiet
  DEF Next, Ctl, Owner, Writer, OwnerSteps, CtlSteps

-----------------------------------------------------------------------------
(* The inductive invariant, one part at a time.                            *)

\* The initial state satisfies it.
LEMMA InitIInv == Init => IInv
<1> SUFFICES ASSUME Init PROVE IInv
  OBVIOUS
<1> USE InitTypeOK, CapAssumption DEF Init, Actors, Writers, EOF, NoEnd
<1>1. WriterInv
  BY DEF WriterInv
<1>2. CloseInv
  BY DEF CloseInv
<1>3. StreamInv
  <2>1. Len(writes) = 0 /\ Len(written) = 0 /\ Base = 0
    BY DEF Base
  <2>2. ~draining /\ arrived = 0 /\ pc["ctl"] = "idle" /\ \A w \in Writers : pc[w] = "off"
    OBVIOUS
  <2>4. QueueInv
    <3>1. QueueOrder /\ QueueHeld
      BY <2>1, <2>2 DEF QueueOrder, QueueHeld
    <3>2. QueueEnd /\ QueueAccepts
      BY <2>1, <2>2 DEF QueueEnd, QueueAccepts
    <3> QED
      BY <3>1, <3>2 DEF QueueInv
  <2>3. InOrder /\ CleanCloseDeliversAll
    BY <2>1 DEF InOrder, CleanCloseDeliversAll
  <2> QED
    BY <2>1, <2>3, <2>4 DEF StreamInv
<1>4. OwnerInv
  BY DEF OwnerInv
<1> QED
  BY <1>1, <1>2, <1>3, <1>4 DEF IInv

\* f.writing lets one goroutine run writeLoop.
LEMMA NextWriterInv == IInv /\ [Next]_vars => WriterInv'
<1> SUFFICES ASSUME IInv, [Next]_vars PROVE WriterInv'
  OBVIOUS
<1>0. TypeOK /\ WriterInv
  BY DEF IInv
<1> USE <1>0 DEF TypeOK, WriterInv, Actors, Writers, sock, queue, session, data
<1>1. CASE RecvData
  BY <1>1 DEF RecvData, CtlGoto
<1>2. CASE Enqueue
  BY <1>2 DEF Enqueue, EnqueueUpTo, CtlGoto
<1>3. CASE GracefulClose
  BY <1>3 DEF GracefulClose, GracefulCloseWith, CtlGoto
<1>4. CASE CtlQuiet
  BY <1>4 DEF CtlQuiet, OthersStay
<1>5. CASE OwnerQuiet
  BY <1>5 DEF OwnerQuiet, OthersStay
<1>6. CASE StartsWriter
  <2>1. PICK w \in Writers, label \in {"connect", "open", "read"} : StartWriter(w, label)
    BY <1>6 DEF StartsWriter
  <2>2. CASE ~closed /\ ~writing
    <3>1. writing' = TRUE /\ pc["writer1"] = "off" /\ pc["writer2"] = "off"
      BY <2>1, <2>2 DEF StartWriter, StartWriterIf
    <3>2. \A x \in Writers \ {w} : pc'[x] = pc[x]
      BY <2>1 DEF StartWriter, StartWriterIf
    <3> QED
      BY <3>1, <3>2
  <2>3. CASE closed \/ writing
    <3>1. writing' = writing /\ \A x \in Writers : pc'[x] = pc[x]
      BY <2>1, <2>3 DEF StartWriter, StartWriterIf
    <3> QED
      BY <3>1
  <2> QED
    BY <2>2, <2>3
<1>7. CASE Closes
  BY <1>7 DEF Closes, CallClose, Resume
<1>8. ASSUME NEW w \in Writers, Take(w) \/ WriterExit(w) \/ WriteOK(w) \/ WriteErr(w)
      PROVE  WriterInv'
  BY <1>8 DEF Take, WriterExit, WriteOK, WriteErr, WriterGoto
<1>9. ASSUME NEW a \in Actors, Release(a) PROVE WriterInv'
  BY <1>9 DEF Release, Resume
<1>10. CASE UNCHANGED vars
  BY <1>10, Zenon DEF vars, queue
<1> QED
  BY NextCases, <1>1, <1>2, <1>3, <1>4, <1>5, <1>6, <1>7, <1>8, <1>9, <1>10

\* closed, its cause, ctx and the goroutine inside Close stay consistent.
LEMMA NextCloseInv == IInv /\ [Next]_vars => CloseInv'
<1> SUFFICES ASSUME IInv, [Next]_vars PROVE CloseInv'
  OBVIOUS
<1>0. TypeOK /\ WriterInv /\ CloseInv
  BY DEF IInv
<1> USE <1>0 DEF TypeOK, CloseInv, Actors, Writers, sock, queue, session, data
<1>1. CASE RecvData
  BY <1>1 DEF RecvData, CtlGoto, CtlIdle
<1>2. CASE Enqueue
  BY <1>2 DEF Enqueue, EnqueueUpTo, CtlGoto
<1>3. CASE GracefulClose
  BY <1>3 DEF GracefulClose, GracefulCloseWith, CtlGoto
<1>4. CASE CtlQuiet
  BY <1>4 DEF CtlQuiet, OthersStay
<1>5. CASE OwnerQuiet
  BY <1>5 DEF OwnerQuiet, OthersStay
<1>6. CASE StartsWriter
  BY <1>6 DEF StartsWriter, StartWriter, StartWriterIf
<1>7. CASE Closes
  BY <1>7 DEF Closes, CallClose, Resume, WriterInv
<1>8. ASSUME NEW w \in Writers, Take(w) \/ WriterExit(w) \/ WriteOK(w) \/ WriteErr(w)
      PROVE  CloseInv'
  BY <1>8 DEF Take, WriterExit, WriteOK, WriteErr, WriterGoto
<1>9. ASSUME NEW a \in Actors, Release(a) PROVE CloseInv'
  BY <1>9 DEF Release, Resume
<1>10. CASE UNCHANGED vars
  BY <1>10 DEF vars
<1> QED
  BY NextCases, <1>1, <1>2, <1>3, <1>4, <1>5, <1>6, <1>7, <1>8, <1>9, <1>10

\* finishForward unregisters before it closes.
LEMMA NextOwnerInv == IInv /\ [Next]_vars => OwnerInv'
<1> SUFFICES ASSUME IInv, [Next]_vars PROVE OwnerInv'
  OBVIOUS
<1>0. TypeOK /\ CloseInv /\ OwnerInv
  BY DEF IInv
<1> USE <1>0 DEF TypeOK, OwnerInv, Actors, Writers, sock, queue, session, data
<1>1. CASE RecvData \/ Enqueue
  BY <1>1 DEF RecvData, Enqueue, EnqueueUpTo, CtlGoto
<1>3. CASE GracefulClose
  BY <1>3 DEF GracefulClose, GracefulCloseWith, CtlGoto
<1>4. CASE CtlQuiet
  BY <1>4 DEF CtlQuiet, OthersStay
<1>5. CASE OwnerQuiet
  BY <1>5 DEF OwnerQuiet, OthersStay
<1>6. CASE StartsWriter
  BY <1>6 DEF StartsWriter, StartWriter, StartWriterIf
<1>7. CASE Closes
  BY <1>7 DEF Closes, CallClose, Resume
<1>8. ASSUME NEW w \in Writers, Take(w) \/ WriterExit(w) \/ WriteOK(w) \/ WriteErr(w)
      PROVE  OwnerInv'
  BY <1>8 DEF Take, WriterExit, WriteOK, WriteErr, WriterGoto
<1>9. ASSUME NEW a \in Actors, Release(a) PROVE OwnerInv'
  BY <1>9 DEF Release, Resume, CloseInv
<1>10. CASE UNCHANGED vars
  BY <1>10 DEF vars
<1> QED
  BY NextCases, <1>1, <1>3, <1>4, <1>5, <1>6, <1>7, <1>8, <1>9, <1>10

\* Steps that move no chunk and neither reopen the session nor find the marker
\* keep the stream as it is.
LEMMA StreamFrame ==
  ASSUME TypeOK, StreamInv,
         UNCHANGED <<writes, draining, owed, data>>,
         Intact' => Intact /\ \A w \in Writers : pc'[w] = "write" <=> pc[w] = "write",
         Accepting' => Accepting /\ (pc'["ctl"] = "enqueue" <=> pc["ctl"] = "enqueue"),
         \A w \in Writers : pc'[w] = "eof" => pc[w] = "eof",
         cause' = "eof" => Len(written) = owed
  PROVE  StreamInv'
<1> USE DEF StreamInv, data
<1>1. InOrder' /\ CleanCloseDeliversAll'
  BY DEF InOrder, CleanCloseDeliversAll
<1>2. ASSUME Intact' PROVE QueueInv'
  <2>1. Intact /\ QueueInv /\ \A w \in Writers : pc'[w] = "write" <=> pc[w] = "write"
    BY <1>2
  <2>2. Base' = Base
    BY <2>1 DEF Base
  <2>3. QueueOrder' /\ QueueHeld'
    BY <2>1, <2>2 DEF QueueInv, QueueOrder, QueueHeld
  <2>4. QueueEnd' /\ QueueAccepts'
    BY <2>1, <2>2 DEF QueueInv, QueueEnd, QueueAccepts
  <2> QED
    BY <2>3, <2>4 DEF QueueInv
<1> QED
  BY <1>1, <1>2

\* Arrival: the chunk is in the control loop's hands.
LEMMA RecvDataStream == IInv /\ RecvData => StreamInv'
<1> SUFFICES ASSUME IInv, RecvData PROVE StreamInv'
  OBVIOUS
<1>0. TypeOK /\ StreamInv
  BY DEF IInv
<1>1. /\ UNCHANGED <<writes, draining, owed, written, item, cause>>
      /\ arrived' = arrived + 1 /\ arrived \in Nat /\ Len(written) \in Nat /\ Len(writes) \in Nat
      /\ \A w \in Writers : pc'[w] = pc[w]
  BY <1>0 DEF RecvData, CtlGoto, sock, queue, session, TypeOK, Actors, Writers
<1>2. Accepting' => Accepting /\ pc["ctl"] = "idle" /\ pc'["ctl"] = "enqueue"
  BY <1>0 DEF RecvData, CtlGoto, CtlIdle, Accepting, sock, queue, session, TypeOK, Actors
<1>3. Base' = Base /\ (Intact' <=> Intact) /\ Base \in Nat
  BY <1>1 DEF Base, Intact
<1>4. InOrder' /\ CleanCloseDeliversAll'
  BY <1>0, <1>1 DEF StreamInv, InOrder, CleanCloseDeliversAll
<1>5. QueueInv => QueueInv'
  <2>1. QueueOrder /\ QueueHeld => (QueueOrder /\ QueueHeld)'
    BY <1>1, <1>3 DEF QueueOrder, QueueHeld
  <2>2. QueueEnd => QueueEnd'
    BY <1>0, <1>1, <1>3 DEF QueueEnd, TypeOK, NoEnd
  <2>3. QueueAccepts => QueueAccepts'
    BY <1>1, <1>2, <1>3 DEF QueueAccepts
  <2> QED
    BY <2>1, <2>2, <2>3 DEF QueueInv
<1> QED
  BY <1>0, <1>1, <1>3, <1>4, <1>5 DEF StreamInv

\* enqueue appends the chunk behind its predecessors or leaves the queue alone.
LEMMA EnqueueStream == IInv /\ Enqueue => StreamInv'
<1> SUFFICES ASSUME IInv, Enqueue PROVE StreamInv'
  OBVIOUS
<1>0. TypeOK /\ StreamInv
  BY DEF IInv
<1>1. /\ UNCHANGED <<draining, owed, data, cause, closed, registered>>
      /\ pc["ctl"] = "enqueue" /\ pc'["ctl"] # "enqueue"
      /\ \A w \in Writers : pc'[w] = pc[w]
  BY <1>0 DEF Enqueue, EnqueueUpTo, CtlGoto, sock, session, TypeOK, Actors, Writers
<1>2. CASE closed \/ draining \/ Len(writes) >= Cap - 1
  <2>1. writes' = writes /\ ~Accepting'
    BY <1>0, <1>1, <1>2 DEF Enqueue, EnqueueUpTo, CtlGoto, Accepting, TypeOK, Actors
  <2> QED
    BY <1>0, <1>1, <2>1, StreamFrame DEF Intact, StreamInv, CleanCloseDeliversAll
<1>3. CASE ~closed /\ ~draining /\ Len(writes) < Cap - 1
  <2>1. writes' = Append(writes, arrived) /\ writes \in Seq(Nat) /\ arrived \in Nat
    BY <1>0, <1>3, CapAssumption DEF Enqueue, EnqueueUpTo, TypeOK
  <2>2. /\ Len(writes') = Len(writes) + 1
        /\ \A i \in 1..Len(writes') :
             writes'[i] = IF i = Len(writes) + 1 THEN arrived ELSE writes[i]
    BY <2>1
  <2>3. Base' = Base /\ (Intact' <=> Intact) /\ Base \in Nat
    <3>1. Len(written) \in Nat /\ written' = written
      BY <1>0, <1>1 DEF TypeOK, data
    <3> QED
      BY <3>1, <1>1 DEF Base, Intact
  <2>4. Accepting
    BY <1>1, <1>3 DEF Accepting
  <2>5. QueueInv => QueueInv'
    <3> SUFFICES ASSUME QueueInv PROVE QueueInv'
      OBVIOUS
    <3>1. Base + Len(writes) = arrived - 1
      BY <1>1, <2>4 DEF QueueInv, QueueAccepts
    <3>2. QueueOrder'
      <4>1. \A i \in 1..Len(writes) : writes[i] = Base + i
        BY <1>3 DEF QueueInv, QueueOrder
      <4>2. Len(writes) \in Nat
        BY <2>1
      <4>3. ASSUME NEW i \in 1..Len(writes') PROVE writes'[i] = Base' + i
        <5>1. CASE i = Len(writes) + 1
          BY <5>1, <3>1, <2>1, <2>2, <2>3, <4>2
        <5>2. CASE i \in 1..Len(writes)
          BY <5>2, <4>1, <4>2, <2>2, <2>3
        <5> QED
          BY <5>1, <5>2, <4>2, <2>2
      <4> QED
        BY <4>3, <1>1, <1>3 DEF QueueOrder
    <3>3. QueueHeld'
      BY <1>1 DEF QueueInv, QueueHeld, data
    <3>4. QueueEnd' /\ QueueAccepts'
      BY <1>1, <1>3, <2>1, <2>2, <2>3, <3>1 DEF QueueEnd, QueueAccepts, data
    <3> QED
      BY <3>2, <3>3, <3>4 DEF QueueInv
  <2>6. InOrder' /\ CleanCloseDeliversAll'
    BY <1>0, <1>1 DEF StreamInv, InOrder, CleanCloseDeliversAll, data
  <2>7. Len(writes') < Cap
    BY <1>3, <2>1, <2>2, CapAssumption
  <2> QED
    BY <1>0, <1>1, <1>3, <2>3, <2>5, <2>6, <2>7 DEF StreamInv, data
<1> QED
  BY <1>2, <1>3, CapAssumption, <1>0 DEF TypeOK

\* gracefulClose puts the marker behind everything that arrived.
LEMMA GracefulCloseStream == IInv /\ GracefulClose => StreamInv'
<1> SUFFICES ASSUME IInv, GracefulClose PROVE StreamInv'
  OBVIOUS
<1>0. TypeOK /\ CloseInv /\ StreamInv /\ pc["ctl"] = "gracefulClose"
  BY DEF IInv, GracefulClose, GracefulCloseWith
<1>1. UNCHANGED <<data, cause, closed>> /\ pc'["ctl"] # "enqueue" /\ \A w \in Writers : pc'[w] = pc[w]
  BY <1>0 DEF GracefulClose, GracefulCloseWith, CtlGoto, sock, session, TypeOK, Actors,
              Writers
<1>2. CASE UNCHANGED queue
  <2>1. UNCHANGED <<writes, draining, owed>> /\ (Accepting' => Accepting)
    BY <1>0, <1>1, <1>2 DEF Accepting, queue
  <2> QED
    BY <1>0, <1>1, <2>1, StreamFrame DEF Intact, StreamInv, CleanCloseDeliversAll
<1>3. CASE /\ ~closed /\ ~draining /\ Len(writes) < Cap
           /\ draining' = TRUE /\ writes' = Append(writes, EOF) /\ owed' = arrived
  <2>1. /\ writes \in Seq(Nat) /\ arrived \in Nat /\ Len(written) \in Nat /\ Len(writes) \in Nat
        /\ UNCHANGED <<written, item, arrived>>
    BY <1>0, <1>1 DEF TypeOK, data
  <2>2. /\ Len(writes') = Len(writes) + 1
        /\ \A i \in 1..Len(writes') : writes'[i] = IF i = Len(writes') THEN EOF ELSE writes[i]
    BY <1>3, <2>1 DEF EOF
  <2>3. Base' = Base /\ (Intact' <=> Intact) /\ Base \in Nat
    BY <1>1, <2>1 DEF Base, Intact
  <2>4. Accepting /\ ~Accepting'
    BY <1>0, <1>3 DEF Accepting
  <2>5. QueueInv => QueueInv'
    <3> SUFFICES ASSUME QueueInv PROVE QueueInv'
      OBVIOUS
    <3>1. Base + Len(writes) = arrived
      BY <1>0, <2>4 DEF QueueInv, QueueAccepts
    <3>2. QueueOrder'
      BY <1>3, <2>1, <2>2, <2>3 DEF QueueInv, QueueOrder
    <3>3. QueueHeld' /\ QueueAccepts'
      BY <1>1, <2>1, <2>4 DEF QueueInv, QueueHeld, QueueAccepts
    <3>4. QueueEnd'
      BY <1>3, <2>1, <2>2, <2>3, <3>1 DEF QueueEnd
    <3> QED
      BY <3>2, <3>3, <3>4 DEF QueueInv
  <2>6. \A w \in Writers : pc'[w] # "eof"
    BY <1>0, <1>1, <1>3, <2>1 DEF StreamInv, NoEnd
  <2>7. InOrder' /\ CleanCloseDeliversAll'
    BY <1>0, <1>1, <1>3, <2>1 DEF StreamInv, InOrder, CleanCloseDeliversAll, CloseInv
  <2>8. owed' # NoEnd
    BY <1>3, <2>1 DEF NoEnd
  <2> QED
    BY <1>0, <1>3, <2>3, <2>5, <2>6, <2>7, <2>8 DEF StreamInv
<1> QED
  BY <1>2, <1>3 DEF GracefulClose, GracefulCloseWith

\* A writer takes the next chunk, or the marker once everything is written.
LEMMA TakeStream == ASSUME IInv, NEW w \in Writers, Take(w) PROVE StreamInv'
<1>0. TypeOK /\ WriterInv /\ CloseInv /\ StreamInv
  BY DEF IInv
<1>1. /\ pc[w] = "loop" /\ writes \in Seq(Nat) /\ Len(writes) \in Nat /\ Len(writes) > 0
      /\ Len(written) \in Nat /\ arrived \in Nat /\ owed \in Nat \cup {NoEnd}
      /\ item \in [Writers -> Nat]
  BY <1>0 DEF Take, TypeOK
<1>2. /\ UNCHANGED <<draining, owed, arrived, written, cause, closed, registered>>
      /\ pc'["ctl"] = pc["ctl"] /\ \A x \in Writers \ {w} : pc'[x] = pc[x] /\ pc[x] = "off"
  BY <1>0 DEF Take, WriterGoto, sock, session, TypeOK, WriterInv, Actors, Writers
<1>3. Intact /\ QueueInv /\ Base = Len(written)
  BY <1>0, <1>1, <1>2 DEF Intact, StreamInv, Base
<1>4. /\ Len(writes') = Len(writes) - 1 /\ Head(writes) = writes[1]
      /\ \A i \in 1..Len(writes') : writes'[i] = writes[i + 1]
  BY <1>1 DEF Take
<1>5. InOrder' /\ CleanCloseDeliversAll'
  BY <1>0, <1>2 DEF StreamInv, InOrder, CleanCloseDeliversAll
<1>6. ~draining => Len(writes') < Cap
  BY <1>0, <1>1, <1>4, CapAssumption DEF StreamInv
<1>7. CASE Head(writes) = EOF
  <2>1. pc'[w] = "eof"
    BY <1>0, <1>7 DEF Take, WriterGoto, TypeOK, Actors, Writers
  <2>2. draining /\ Len(writes) = 1
    BY <1>1, <1>3, <1>4, <1>7 DEF QueueInv, QueueOrder, EOF
  <2>3. Len(written) = owed
    BY <1>1, <1>3, <2>2 DEF QueueInv, QueueEnd
  <2>4. ~Intact'
    BY <2>1 DEF Intact
  <2> QED
    BY <1>0, <1>2, <1>5, <1>6, <2>3, <2>4 DEF StreamInv
<1>8. CASE Head(writes) # EOF
  <2>1. pc'[w] = "write"
    BY <1>0, <1>8 DEF Take, WriterGoto, TypeOK, Actors, Writers
  <2>2. draining => Len(writes) > 1
    BY <1>1, <1>3, <1>4, <1>8 DEF QueueInv, QueueOrder
  <2>3. item'[w] = Base + 1
    <3>1. item'[w] = writes[1]
      BY <1>1, <1>4 DEF Take
    <3>2. 1 \in 1..Len(writes)
      BY <1>1
    <3>3. ASSUME 1 = Len(writes) PROVE ~(Len(writes) > 1)
      BY <3>3
    <3>4. ~(draining /\ 1 = Len(writes))
      BY <2>2, <3>3
    <3> QED
      BY <1>3, <3>1, <3>2, <3>4 DEF QueueInv, QueueOrder
  <2>4. Base' = Base + 1
    BY <1>1, <1>2, <1>3, <2>1 DEF Base
  <2>5. QueueOrder'
    <3> SUFFICES ASSUME NEW i \in 1..Len(writes')
                 PROVE  writes'[i] = IF draining /\ i = Len(writes') THEN EOF ELSE Base' + i
      BY <1>2 DEF QueueOrder
    <3>1. i + 1 \in 1..Len(writes) /\ (i = Len(writes') <=> i + 1 = Len(writes))
      BY <1>1, <1>4
    <3>2. writes[i + 1] = IF draining /\ i + 1 = Len(writes) THEN EOF ELSE Base + (i + 1)
      BY <1>3, <3>1 DEF QueueInv, QueueOrder
    <3>3. Base' + i = Base + (i + 1)
      BY <1>1, <1>3, <2>4
    <3> QED
      BY <1>4, <3>1, <3>2, <3>3
  <2>6. QueueHeld'
    BY <1>2, <1>3, <2>3 DEF QueueHeld
  <2>7. QueueEnd' /\ QueueAccepts'
    <3>1. Base' + Len(writes') = Base + Len(writes) /\ (draining => Len(writes') > 0)
      BY <1>1, <1>3, <1>4, <2>2, <2>4
    <3>2. QueueEnd'
      <4>1. CASE draining
        <5>1. Base + Len(writes) - 1 = owed /\ owed <= arrived
          BY <4>1, <1>3 DEF QueueInv, QueueEnd
        <5>2. Base' + Len(writes') - 1 = owed
          BY <1>1, <1>3, <1>4, <2>4, <5>1
        <5> QED
          BY <4>1, <1>2, <3>1, <5>1, <5>2 DEF QueueEnd
      <4>2. CASE ~draining
        BY <4>2, <1>2, <1>3, <3>1 DEF QueueInv, QueueEnd
      <4> QED
        BY <4>1, <4>2
    <3>3. QueueAccepts'
      BY <1>2, <1>3, <3>1 DEF QueueInv, QueueAccepts, Accepting
    <3> QED
      BY <3>2, <3>3
  <2>8. QueueInv'
    BY <2>5, <2>6, <2>7 DEF QueueInv
  <2> QED
    BY <1>0, <1>2, <1>5, <1>6, <2>1, <2>8 DEF StreamInv
<1> QED
  BY <1>7, <1>8

\* The chunk a writer holds is the next one the socket takes.
LEMMA WriteOKStream == ASSUME IInv, NEW w \in Writers, WriteOK(w) PROVE StreamInv'
<1>0. TypeOK /\ WriterInv /\ CloseInv /\ StreamInv
  BY DEF IInv
<1>1. /\ pc[w] = "write" /\ written \in Seq(Nat) /\ Len(written) \in Nat /\ Len(writes) \in Nat
      /\ arrived \in Nat /\ owed \in Nat \cup {NoEnd} /\ item[w] \in Nat
  BY <1>0 DEF WriteOK, TypeOK
<1>2. /\ UNCHANGED <<writes, draining, owed, arrived, item, cause, closed, registered>>
      /\ pc'["ctl"] = pc["ctl"] /\ pc'[w] = "loop"
      /\ \A x \in Writers \ {w} : pc'[x] = pc[x] /\ pc[x] = "off"
  BY <1>0, <1>1 DEF WriteOK, WriterGoto, sock, queue, session, TypeOK, WriterInv, Actors,
                    Writers
<1>3. Intact /\ QueueInv /\ Base = Len(written) + 1
  BY <1>0, <1>1, <1>2 DEF Intact, StreamInv, Base
<1>4. written' = Append(written, Len(written) + 1)
  BY <1>1, <1>3 DEF WriteOK, QueueInv, QueueHeld
<1>5. /\ Len(written') = Len(written) + 1
      /\ \A i \in 1..Len(written') :
           written'[i] = IF i = Len(written) + 1 THEN Len(written) + 1 ELSE written[i]
  BY <1>1, <1>4
<1>6. Base' = Base
  <2>1. \A x \in Writers : pc'[x] # "write"
    BY <1>2
  <2> QED
    BY <1>1, <1>3, <1>5, <2>1 DEF Base
<1>7. Len(written') <= arrived'
  BY <1>1, <1>2, <1>3, <1>5 DEF QueueInv, QueueEnd, NoEnd
<1>8. InOrder'
  BY <1>0, <1>1, <1>5, <1>7 DEF StreamInv, InOrder
<1>9. CleanCloseDeliversAll'
  BY <1>0, <1>1, <1>2 DEF CloseInv, CleanCloseDeliversAll
<1>10. QueueOrder' /\ QueueEnd' /\ QueueAccepts'
  BY <1>2, <1>3, <1>6 DEF QueueInv, QueueOrder, QueueEnd, QueueAccepts, Accepting
<1>11. QueueHeld'
  BY <1>2 DEF QueueHeld
<1> QED
  BY <1>0, <1>2, <1>8, <1>9, <1>10, <1>11 DEF StreamInv, QueueInv

\* Every step keeps the stream invariant.
LEMMA NextStreamInv == IInv /\ [Next]_vars => StreamInv'
<1> SUFFICES ASSUME IInv, [Next]_vars PROVE StreamInv'
  OBVIOUS
<1>0. TypeOK /\ CloseInv /\ StreamInv
  BY DEF IInv
<1>1. CASE RecvData \/ Enqueue \/ GracefulClose
  BY <1>1, RecvDataStream, EnqueueStream, GracefulCloseStream
<1>4. CASE CtlQuiet
  <2>1. UNCHANGED <<writes, draining, owed, data, cause>> /\ \A w \in Writers : pc'[w] = pc[w]
    BY <1>4 DEF CtlQuiet, OthersStay, sock, queue, Actors, Writers
  <2>2. Accepting' => Accepting /\ (pc'["ctl"] = "enqueue" <=> pc["ctl"] = "enqueue")
    BY <1>4 DEF CtlQuiet
  <2> QED
    BY <1>0, <2>1, <2>2, StreamFrame DEF Intact, StreamInv, CleanCloseDeliversAll
<1>5. CASE OwnerQuiet
  <2>1. /\ UNCHANGED <<writes, draining, owed, data, cause>>
        /\ \A w \in Writers : pc'[w] = pc[w]
        /\ pc'["ctl"] = pc["ctl"] /\ (Accepting' => Accepting)
    BY <1>5 DEF OwnerQuiet, OthersStay, Accepting, sock, queue, Actors, Writers
  <2> QED
    BY <1>0, <2>1, StreamFrame DEF Intact, StreamInv, CleanCloseDeliversAll
<1>6. CASE StartsWriter
  <2>1. PICK w \in Writers, label \in {"connect", "open", "read"} : StartWriter(w, label)
    BY <1>6 DEF StartsWriter
  <2>2. /\ UNCHANGED <<writes, draining, owed, data, cause>>
        /\ pc'["ctl"] = pc["ctl"] /\ (Accepting' => Accepting)
    BY <1>0, <2>1 DEF StartWriter, StartWriterIf, Accepting, TypeOK, Actors, Writers,
                      sock, session
  <2>3. \A x \in Writers : pc'[x] = pc[x] \/ (pc[x] = "off" /\ pc'[x] = "loop")
    BY <1>0, <2>1 DEF StartWriter, StartWriterIf, TypeOK, Actors, Writers, IInv, WriterInv
  <2>4. Intact' => Intact
    BY <2>3 DEF Intact
  <2> QED
    BY <1>0, <2>2, <2>3, <2>4, StreamFrame DEF StreamInv, CleanCloseDeliversAll
<1>7. CASE Closes
  <2>1. PICK a \in Actors, c \in Causes \ {"none"} :
          /\ CallClose(a, c) /\ pc[a] # "release"
          /\ a \in Writers => pc[a] = c /\ c \in {"eof", "writeErr"}
          /\ a \notin Writers => c # "eof"
    BY <1>7 DEF Closes
  <2>2. UNCHANGED <<writes, draining, owed, data>> /\ ~Accepting'
    BY <2>1 DEF CallClose, Accepting, queue
  <2>3. \A x \in Writers : pc'[x] = pc[x] \/ pc'[x] \in {"release", "done"}
    BY <1>0, <2>1 DEF CallClose, Resume, TypeOK, Actors, Writers
  <2>4. Intact' => \A x \in Writers : pc'[x] = pc[x]
    BY <2>3 DEF Intact
  <2>5. cause' = "eof" => Len(written) = owed
    BY <1>0, <2>1 DEF CallClose, StreamInv, CleanCloseDeliversAll
  <2> QED
    BY <1>0, <2>2, <2>3, <2>4, <2>5, StreamFrame DEF Intact
<1>8. ASSUME NEW w \in Writers, Take(w) \/ WriteOK(w) PROVE StreamInv'
  BY <1>8, TakeStream, WriteOKStream
<1>9. ASSUME NEW w \in Writers, WriterExit(w) \/ WriteErr(w) PROVE StreamInv'
  <2>1. /\ UNCHANGED <<writes, draining, owed, data, cause>>
        /\ pc'["ctl"] = pc["ctl"] /\ (Accepting' => Accepting)
        /\ pc'[w] \in {"done", "writeErr"} /\ \A x \in Writers : x # w => pc'[x] = pc[x]
    BY <1>0, <1>9 DEF WriterExit, WriteErr, WriterGoto, Accepting, TypeOK, Actors, Writers,
                      sock, queue, session
  <2>2. ~Intact'
    BY <2>1 DEF Intact
  <2> QED
    BY <1>0, <2>1, <2>2, StreamFrame DEF StreamInv, CleanCloseDeliversAll
<1>10. ASSUME NEW a \in Actors, Release(a) PROVE StreamInv'
  <2>1. UNCHANGED <<writes, draining, owed, data, cause>> /\ ~Accepting'
    BY <1>0, <1>10 DEF Release, CloseInv, Accepting, queue
  <2>2. \A x \in Writers : pc'[x] = pc[x] \/ pc'[x] = "done"
    BY <1>0, <1>10 DEF Release, Resume, TypeOK, Actors, Writers
  <2>3. Intact' => \A x \in Writers : pc'[x] = pc[x]
    BY <2>2, Zenon DEF Intact
  <2> QED
    BY <1>0, <2>1, <2>2, <2>3, StreamFrame DEF Intact, StreamInv, CleanCloseDeliversAll
<1>11. CASE UNCHANGED vars
  BY <1>0, <1>11, StreamFrame DEF vars, sock, queue, session, data, Intact, Accepting,
                                 StreamInv, CleanCloseDeliversAll
<1> QED
  BY <1>0, NextCases, <1>1, <1>4, <1>5, <1>6, <1>7, <1>8, <1>9, <1>10, <1>11

\* IInv is inductive, hence an invariant.
THEOREM Invariance == Spec => []IInv
<1>1. IInv /\ [Next]_vars => IInv'
  BY NextTypeOK, NextWriterInv, NextCloseInv, NextStreamInv, NextOwnerInv DEF IInv
<1> QED
  BY InitIInv, <1>1, PTL DEF Spec

-----------------------------------------------------------------------------
(* The safety properties.                                                  *)

\* Data reaches the local socket in the order of arrival and without gaps.
THEOREM OrderedDelivery == Spec => []InOrder
<1>1. IInv => InOrder
  BY DEF IInv, StreamInv
<1> QED
  BY <1>1, Invariance, PTL

\* A session closed by its end marker has delivered all data that preceded the
\* relay's forward:close.
THEOREM CleanClose == Spec => []CleanCloseDeliversAll
<1>1. IInv => CleanCloseDeliversAll
  BY DEF IInv, StreamInv
<1> QED
  BY <1>1, Invariance, PTL

\* gracefulClose never waits for a slot of the channel while it holds f.mu.
THEOREM MarkerNeverBlocks == Spec => []MarkerSlotFree
<1>1. IInv => MarkerSlotFree
  BY DEF IInv, StreamInv, MarkerSlotFree
<1> QED
  BY <1>1, Invariance, PTL

\* A finished owner leaves no registration and no socket that nobody will shut.
THEOREM SocketsReleased == Spec => []NoSocketLeak
<1>1. IInv => NoSocketLeak
  BY DEF IInv, CloseInv, OwnerInv, NoSocketLeak, TypeOK
<1> QED
  BY <1>1, Invariance, PTL

-----------------------------------------------------------------------------
(* Refinement: data arrives by Offer, gracefulClose is EndOfStream, WriteOK *)
(* is Deliver, a Close is Finish or Abort, and the rest stutters.           *)

\* Steps that leave these variables alone are invisible.
LEMMA Invisible ==
  UNCHANGED <<arrived, owed, written, closed, cause>> => UNCHANGED Stream!streamVars
BY DEF Stream!streamVars

\* Every step is a step of the abstract stream or invisible.
LEMMA StepSimulation == IInv /\ [Next]_vars => [Stream!Next]_(Stream!streamVars)
<1> SUFFICES ASSUME IInv, [Next]_vars PROVE [Stream!Next]_(Stream!streamVars)
  OBVIOUS
<1>0. TypeOK /\ WriterInv /\ CloseInv /\ StreamInv
  BY DEF IInv
<1> USE DEF sock, queue, session, data
<1>1. CASE RecvData
  BY <1>1 DEF RecvData, Stream!Next, Stream!Offer
<1>2. CASE Enqueue
  BY <1>2, Invisible DEF Enqueue, EnqueueUpTo
<1>3. CASE GracefulClose
  <2>1. CASE UNCHANGED queue
    BY <1>3, <2>1, Invisible DEF GracefulClose, GracefulCloseWith
  <2>2. CASE ~closed /\ ~draining /\ owed' = arrived
    <3>1. owed = NoEnd
      BY <1>0, <2>2 DEF StreamInv
    <3>2. Stream!EndOfStream
      BY <1>3, <2>2, <3>1 DEF GracefulClose, GracefulCloseWith, Stream!EndOfStream,
                              NoEnd, Stream!NoEnd
    <3> QED
      BY <3>2 DEF Stream!Next
  <2> QED
    BY <1>3, <2>1, <2>2 DEF GracefulClose, GracefulCloseWith
<1>4. CASE CtlQuiet
  BY <1>4, Invisible DEF CtlQuiet
<1>5. CASE OwnerQuiet
  BY <1>5, Invisible DEF OwnerQuiet
<1>6. CASE StartsWriter
  BY <1>6, Invisible DEF StartsWriter, StartWriter, StartWriterIf
<1>7. CASE Closes
  <2>1. PICK a \in Actors, c \in Causes \ {"none"} :
          CallClose(a, c) /\ (a \in Writers => pc[a] = c) /\ (a \notin Writers => c # "eof")
    BY <1>7 DEF Closes
  <2>2. CASE closed
    BY <1>0, <2>1, <2>2, Invisible DEF CallClose, TypeOK
  <2>3. CASE ~closed /\ c = "eof"
    <3>1. Len(written) = owed
      BY <1>0, <2>1, <2>3 DEF StreamInv
    <3>2. Stream!Finish
      BY <2>1, <2>3, <3>1 DEF CallClose, Stream!Finish
    <3> QED
      BY <3>2 DEF Stream!Next
  <2>4. CASE ~closed /\ c # "eof"
    <3>1. Stream!Abort
      BY <2>1, <2>4 DEF CallClose, Stream!Abort
    <3> QED
      BY <3>1 DEF Stream!Next
  <2> QED
    BY <2>2, <2>3, <2>4
<1>8. ASSUME NEW w \in Writers, WriteOK(w) PROVE [Stream!Next]_(Stream!streamVars)
  <2>1. /\ pc[w] = "write" /\ Len(written) \in Nat /\ Len(writes) \in Nat /\ arrived \in Nat
        /\ UNCHANGED <<arrived, owed, closed, cause>>
    BY <1>0, <1>8 DEF WriteOK, TypeOK
  <2>2. \A x \in Writers : x # w => pc[x] = "off"
    BY <1>0, <2>1 DEF WriterInv, Writers
  <2>3. QueueInv /\ Base = Len(written) + 1
    BY <1>0, <2>1, <2>2 DEF StreamInv, Intact, Base
  <2>4. written' = Append(written, Len(written) + 1)
    BY <1>8, <2>1, <2>3 DEF WriteOK, QueueInv, QueueHeld
  <2>5. Len(written) < IF owed = NoEnd THEN arrived ELSE owed
    <3>1. CASE draining
      <4>1. Len(writes) > 0 /\ Base + Len(writes) - 1 = owed /\ owed # NoEnd
        BY <1>0, <2>3, <3>1 DEF QueueInv, QueueEnd, StreamInv
      <4> QED
        BY <2>1, <2>3, <4>1
    <3>2. CASE ~draining
      <4>1. Base + Len(writes) <= arrived /\ owed = NoEnd
        BY <1>0, <2>3, <3>2 DEF QueueInv, QueueEnd, StreamInv
      <4> QED
        BY <2>1, <2>3, <4>1
    <3> QED
      BY <3>1, <3>2
  <2>6. cause # "eof"
    BY <1>0, <2>1 DEF CloseInv
  <2>7. Stream!Deliver
    BY <2>1, <2>4, <2>5, <2>6 DEF Stream!Deliver, NoEnd, Stream!NoEnd
  <2> QED
    BY <2>7 DEF Stream!Next
<1>9. ASSUME NEW w \in Writers, Take(w) \/ WriterExit(w) \/ WriteErr(w)
      PROVE  UNCHANGED Stream!streamVars
  BY <1>9, Invisible DEF Take, WriterExit, WriteErr
<1>10. ASSUME NEW a \in Actors, Release(a) PROVE UNCHANGED Stream!streamVars
  BY <1>10, Invisible DEF Release
<1>11. CASE UNCHANGED vars
  BY <1>11, Invisible DEF vars
<1> QED
  BY <1>0, NextCases, <1>1, <1>2, <1>3, <1>4, <1>5, <1>6, <1>7, <1>8, <1>9, <1>10, <1>11

\* One direction of a relayed tunnel is a byte stream, whatever the interleaving
\* of control loop, owner, writers and drain timer.
THEOREM Refinement == Spec => ImplementsByteStream
<1>1. Init => Stream!Init
  BY DEF Init, Stream!Init, NoEnd, Stream!NoEnd
<1> QED
  BY <1>1, Invariance, StepSimulation, PTL DEF Spec, ImplementsByteStream, Stream!Spec

-----------------------------------------------------------------------------
(* The relay's side of a tunnel (ForwardSession), for any number of data   *)
(* messages and any set of returning devices.                              *)

RelayLabels == {"off", "idle", "insert", "arm", "armed", "markRelay", "setRelay", "fallback",
                "setDirect", "count", "write", "close", "finish",
                "teardown", "tearRecord", "tearNotify", "gone"}
Transports == {"negotiating", "relay", "direct"}
Args == Messages \cup EndStates \cup {"none"}
Rows == [state : {"none", "active"} \cup EndStates, transport : Transports, bytes : Nat]

\* Places only a session leads to, and places that carry a final state.
Early == {"insert", "arm", "finish", "tearRecord"}
Ending == {"close", "finish"}

FlagTypes ==
  /\ agents \in [Devices -> 0..2]
  /\ mapped \in BOOLEAN /\ direct \in BOOLEAN /\ transport \in Transports /\ timer \in BOOLEAN
  /\ offered \in BOOLEAN /\ sent \in Nat /\ relayed \in BOOLEAN
RecordTypes == row \in Rows /\ pend \in Nat /\ recClosed \in BOOLEAN /\ counted \in Nat
ThreadTypes == at \in [Threads -> RelayLabels] /\ arg \in [Threads -> Args]
RelayTypes == FlagTypes /\ RecordTypes /\ ThreadTypes

\* Every chunk counted is in the row or in the recorder until a crash, after which
\* no thread is left that could close the recorder.
RelayCount ==
  /\ ClosedRowComplete
  /\ recClosed => pend = 0
  /\ ~recClosed => row.bytes + pend = counted \/ \A t \in Threads : at[t] = "gone"

\* A thread on its way through closeForward carries the state the row ends in.
RelayCloseInv == \A t \in Threads : at[t] \in Ending => arg[t] \in EndStates

\* Before the tunnel was asked for there is nothing to close.
RelayFresh ==
  src = "none" => ~mapped /\ ~recClosed /\ \A t \in Threads : at[t] \notin Early

RelayInv == RelayTypes /\ RelayCount /\ RelayCloseInv /\ RelayFresh

-----------------------------------------------------------------------------
(* The inductive invariant.                                                *)

\* A new server with two connected agents and no session satisfies it.
LEMMA InitRelayInv == SessionInit => RelayInv
<1> SUFFICES ASSUME SessionInit PROVE RelayInv
  OBVIOUS
<1>1. FlagTypes
  <2>1. agents \in [Devices -> 0..2] /\ sent \in Nat /\ transport \in Transports
    BY DEF SessionInit, Devices, Transports
  <2> QED
    BY <2>1, Zenon DEF SessionInit, FlagTypes
<1>2. RecordTypes
  <2>1. row \in Rows /\ pend \in Nat /\ counted \in Nat
    BY DEF SessionInit, Rows, Transports
  <2> QED
    BY <2>1, Zenon DEF SessionInit, RecordTypes
<1>3. /\ ThreadTypes
      /\ \A t \in Threads : at[t] \in {"idle", "off"}
  BY DEF SessionInit, ThreadTypes, RelayLabels, Args
<1>4. RelayCloseInv /\ RelayFresh
  BY <1>3 DEF RelayCloseInv, RelayFresh, SessionInit, Early, Ending
<1>5. RelayCount
  BY DEF RelayCount, ClosedRowComplete, SessionInit
<1> QED
  BY <1>1, <1>2, <1>3, <1>4, <1>5 DEF RelayInv, RelayTypes

\* While a thread runs, every chunk counted is in the row or pending.
Counted ==
  /\ recClosed => row.bytes = counted /\ row.state \in EndStates /\ pend = 0
  /\ ~recClosed => row.bytes + pend = counted

LEMMA RunningCounted ==
  ASSUME RelayInv, NEW t \in Threads, at[t] # "gone" PROVE Counted
BY Zenon DEF RelayInv, RelayCount, ClosedRowComplete, Counted

LEMMA CountedCount == ASSUME Counted' PROVE RelayCount'
BY Zenon DEF Counted, RelayCount, ClosedRowComplete

\* What the threads do in a step that keeps the invariant.
Threading ==
  /\ \A u \in Threads : \/ at'[u] = at[u] /\ arg'[u] = arg[u]
                        \/ at'[u] \in Ending => arg'[u] \in EndStates
  /\ src' = "none" => /\ src = "none" /\ ~mapped' /\ ~recClosed'
                      /\ \A u \in Threads : at'[u] = at[u] \/ at'[u] \notin Early

LEMMA RelayStep ==
  ASSUME RelayInv, FlagTypes', RecordTypes', ThreadTypes', RelayCount', Threading
  PROVE  RelayInv'
<1>1. RelayCloseInv'
  BY Zenon DEF RelayInv, RelayCloseInv, Threading, Ending, Threads, Handlers, EndStates
<1>2. RelayFresh'
  BY Zenon DEF RelayInv, RelayFresh, Threading, Early, Threads, Handlers
<1> QED
  BY <1>1, <1>2, Zenon DEF RelayInv, RelayTypes

\* No thread moves and the record stays.
LEMMA StillStep ==
  ASSUME RelayInv, UNCHANGED at, UNCHANGED arg, UNCHANGED record, UNCHANGED counted,
         FlagTypes', mapped' => mapped, src' = "none" => src = "none"
  PROVE  RelayInv'
<1>1. UNCHANGED row /\ UNCHANGED pend /\ UNCHANGED recClosed
  BY DEF record
<1>2. RecordTypes' /\ ThreadTypes'
  BY <1>1, Zenon DEF RelayInv, RelayTypes, RecordTypes, ThreadTypes, Threads, Handlers,
                     RelayLabels, Args, Rows, Transports, EndStates, Messages
<1>3. RelayCount'
  BY <1>1, Zenon DEF RelayInv, RelayCount, ClosedRowComplete, Threads, Handlers, EndStates
<1>4. Threading
  BY <1>1, Zenon DEF RelayInv, RelayFresh, Threading
<1> QED
  BY <1>2, <1>3, <1>4, RelayStep

\* The record of a step that does not touch it.
LEMMA RecordKept ==
  ASSUME RelayInv, UNCHANGED record, UNCHANGED counted, NEW t \in Threads, at[t] # "gone"
  PROVE  RecordTypes' /\ Counted' /\ (recClosed' <=> recClosed)
<1>1. UNCHANGED row /\ UNCHANGED pend /\ UNCHANGED recClosed
  BY DEF record
<1>2. RecordTypes /\ Counted
  BY RunningCounted, Zenon DEF RelayInv, RelayTypes
<1> QED
  BY <1>1, <1>2, Zenon DEF RecordTypes, Counted, Rows, Transports, EndStates

\* One thread moves.
LEMMA ThreadMoves ==
  ASSUME RelayInv, NEW t \in Threads, NEW l \in RelayLabels, NEW a \in Args, Goto(t, l),
         arg' = [arg EXCEPT ![t] = a]
  PROVE  /\ ThreadTypes'
         /\ \A u \in Threads : IF u = t THEN at'[u] = l /\ arg'[u] = a
                               ELSE at'[u] = at[u] /\ arg'[u] = arg[u]
<1>1. at \in [Threads -> RelayLabels] /\ arg \in [Threads -> Args]
  BY DEF RelayInv, RelayTypes, ThreadTypes
<1>2. at' = [at EXCEPT ![t] = l]
  BY DEF Goto
<1>3. at' \in [Threads -> RelayLabels] /\ arg' \in [Threads -> Args]
  BY <1>1, <1>2
<1>4. ThreadTypes'
  BY <1>3, Zenon DEF ThreadTypes, Threads, Handlers, RelayLabels, Args, EndStates, Messages
<1> QED
  BY <1>1, <1>2, <1>4

LEMMA MoveStep ==
  ASSUME RelayInv, NEW t \in Threads, NEW l \in RelayLabels, NEW a \in Args, Goto(t, l),
         arg' = [arg EXCEPT ![t] = a] \/ (UNCHANGED arg /\ a = arg[t]),
         FlagTypes', RecordTypes', Counted', l \in Ending => a \in EndStates,
         src' = "none" => src = "none" /\ ~mapped' /\ ~recClosed' /\ l \notin Early
  PROVE  RelayInv'
<1>1. arg \in [Threads -> Args]
  BY DEF RelayInv, RelayTypes, ThreadTypes
<1>2. arg' = [arg EXCEPT ![t] = a]
  BY <1>1
<1>3. /\ ThreadTypes'
      /\ \A u \in Threads : IF u = t THEN at'[u] = l /\ arg'[u] = a
                            ELSE at'[u] = at[u] /\ arg'[u] = arg[u]
  BY <1>2, ThreadMoves, Zenon
<1>4. Threading
  BY <1>3, Zenon DEF Threading
<1> QED
  BY <1>3, <1>4, CountedCount, RelayStep, Zenon

\* ... and the record stays.
LEMMA QuietMove ==
  ASSUME RelayInv, NEW t \in Threads, at[t] # "gone", NEW l \in RelayLabels, NEW a \in Args,
         Goto(t, l), arg' = [arg EXCEPT ![t] = a] \/ (UNCHANGED arg /\ a = arg[t]),
         UNCHANGED record, UNCHANGED counted, FlagTypes', mapped' => mapped,
         l \in Ending => a \in EndStates,
         src' = "none" => src = "none" /\ l \notin Early
  PROVE  RelayInv'
<1>1. RecordTypes' /\ Counted' /\ (recClosed' <=> recClosed)
  BY RecordKept, Zenon
<1>2. src' = "none" => src = "none" /\ ~mapped' /\ ~recClosed' /\ l \notin Early
  BY <1>1, Zenon DEF RelayInv, RelayFresh
<1> QED
  BY <1>1, <1>2, MoveStep, Zenon

\* The fields of the session and the connections that do not change.
LEMMA FlagsKept ==
  ASSUME RelayInv, UNCHANGED agents, UNCHANGED sess, offered' \in BOOLEAN, relayed' \in BOOLEAN,
         sent' \in Nat
  PROVE  FlagTypes' /\ (mapped' => mapped)
<1>1. UNCHANGED <<mapped, direct, transport, timer>>
  BY DEF sess
<1> QED
  BY <1>1, Zenon DEF RelayInv, RelayTypes, FlagTypes, Devices, Transports

\* What holds before a step.
LEMMA RelayNow ==
  ASSUME RelayInv
  PROVE  /\ agents \in [Devices -> 0..2] /\ mapped \in BOOLEAN /\ direct \in BOOLEAN
         /\ transport \in Transports /\ timer \in BOOLEAN /\ offered \in BOOLEAN
         /\ sent \in Nat /\ relayed \in BOOLEAN
         /\ \A t \in Threads : at[t] \in RelayLabels /\ arg[t] \in Args
         /\ \A t \in Threads : at[t] \in Ending => arg[t] \in EndStates
         /\ src = "none" => ~mapped /\ ~recClosed /\ \A t \in Threads : at[t] \notin Early
<1>1. FlagTypes /\ ThreadTypes /\ RelayCloseInv /\ RelayFresh
  BY DEF RelayInv, RelayTypes
<1>2. \A t \in Threads : at[t] \in RelayLabels /\ arg[t] \in Args
  BY <1>1 DEF ThreadTypes
<1> QED
  BY <1>1, <1>2, Zenon DEF FlagTypes, RelayCloseInv, RelayFresh

\* The threads and their places.
LEMMA Places ==
  /\ "src1" \in Threads /\ "timer" \in Threads /\ (\A h \in Handlers : h \in Threads)
  /\ "none" \in Args /\ EndStates \subseteq Args /\ Messages \subseteq Args
  /\ \A d \in Handlers : Device(d) \in Devices
BY DEF Threads, Handlers, Args, Device, Devices

\* forward:connect, the insertion of the session and its timer keep it.
LEMMA ConnectSteps ==
  ASSUME RelayInv, ConnectRefused \/ ConnectAccepted \/ InsertForward \/ ArmTimer
  PROVE  RelayInv'
<1>1. CASE ConnectRefused
  <2>1. /\ UNCHANGED at /\ UNCHANGED arg /\ UNCHANGED record /\ UNCHANGED counted /\ src' # "none"
        /\ UNCHANGED agents /\ UNCHANGED sess /\ UNCHANGED offered /\ UNCHANGED sent
        /\ UNCHANGED relayed
    BY <1>1 DEF ConnectRefused
  <2>2. FlagTypes' /\ (mapped' => mapped)
    BY <2>1, RelayNow, FlagsKept, Zenon
  <2> QED
    BY <2>1, <2>2, StillStep, Zenon
<1>2. CASE ConnectAccepted
  <2>1. /\ UNCHANGED agents /\ UNCHANGED sess /\ UNCHANGED pend /\ UNCHANGED recClosed
        /\ UNCHANGED arg /\ UNCHANGED offered /\ UNCHANGED sent /\ UNCHANGED counted
        /\ UNCHANGED relayed /\ row' = [row EXCEPT !.state = "active"]
        /\ src = "none" /\ src' = "wait" /\ at["src1"] # "gone" /\ Goto("src1", "insert")
    BY <1>2 DEF ConnectAccepted, Reads
  <2>2. FlagTypes'
    BY <2>1, RelayNow, FlagsKept, Zenon
  <2>3. ~recClosed /\ Counted /\ row \in Rows /\ RecordTypes
    BY <2>1, RelayNow, RunningCounted, Places DEF RelayInv, RelayTypes, RecordTypes
  <2>4. row' \in Rows /\ row'.bytes = row.bytes
    BY <2>1, <2>3 DEF Rows
  <2>5. RecordTypes' /\ Counted'
    BY <2>1, <2>3, <2>4, Zenon DEF RecordTypes, Counted, Rows, Transports, EndStates
  <2>6. "insert" \in RelayLabels /\ "insert" \notin Ending /\ src' # "none"
    BY <2>1 DEF RelayLabels, Ending
  <2> QED
    BY <2>1, <2>2, <2>5, <2>6, RelayNow, Places, MoveStep, Zenon
<1>3. CASE InsertForward
  <2>1. /\ UNCHANGED agents /\ UNCHANGED direct /\ UNCHANGED transport /\ UNCHANGED timer
        /\ UNCHANGED record /\ UNCHANGED arg /\ UNCHANGED src /\ UNCHANGED offered
        /\ UNCHANGED sent /\ UNCHANGED counted /\ UNCHANGED relayed
        /\ mapped' = TRUE /\ at["src1"] = "insert" /\ Goto("src1", "arm")
    BY <1>3 DEF InsertForward, ends
  <2>2. FlagTypes'
    BY <2>1, RelayNow, Zenon DEF FlagTypes, Devices, Transports
  <2>3. at["src1"] # "gone" /\ "arm" \in RelayLabels /\ "arm" \notin Ending /\ "insert" \in Early
    BY <2>1 DEF RelayLabels, Ending, Early
  <2>4. RecordTypes' /\ Counted'
    BY <2>1, <2>3, Places, RecordKept, Zenon
  <2>5. src' # "none"
    BY <2>1, <2>3, RelayNow, Places, Zenon
  <2> QED
    BY <2>1, <2>2, <2>3, <2>4, <2>5, RelayNow, Places, MoveStep, Zenon
<1>4. CASE ArmTimer
  <2>1. /\ UNCHANGED agents /\ UNCHANGED direct /\ UNCHANGED transport /\ UNCHANGED mapped
        /\ UNCHANGED record /\ UNCHANGED arg /\ UNCHANGED src /\ UNCHANGED offered
        /\ UNCHANGED sent /\ UNCHANGED counted /\ UNCHANGED relayed
        /\ timer' = TRUE /\ at["src1"] = "arm"
        /\ at' = [at EXCEPT !["src1"] = "idle", !["timer"] = "armed"]
    BY <1>4 DEF ArmTimer, ends
  <2>2. FlagTypes'
    BY <2>1, RelayNow, Zenon DEF FlagTypes, Devices, Transports
  <2>3. at["src1"] # "gone" /\ "arm" \in Early
    BY <2>1 DEF Early
  <2>4. RecordTypes' /\ Counted'
    BY <2>1, <2>3, Places, RecordKept, Zenon
  <2>5. src' # "none"
    BY <2>1, <2>3, RelayNow, Places, Zenon
  <2>6. at \in [Threads -> RelayLabels] /\ arg \in [Threads -> Args]
    BY DEF RelayInv, RelayTypes, ThreadTypes
  <2>7. /\ at' \in [Threads -> RelayLabels] /\ arg' \in [Threads -> Args]
        /\ \A u \in Threads : at'[u] \in {at[u], "idle", "armed"} /\ arg'[u] = arg[u]
    BY <2>1, <2>6, Zenon DEF RelayLabels
  <2>8. ThreadTypes'
    BY <2>7, Zenon DEF ThreadTypes, Threads, Handlers, RelayLabels, Args, EndStates, Messages
  <2>9. Threading
    BY <2>5, <2>7 DEF Threading, Ending
  <2> QED
    BY <2>2, <2>4, <2>8, <2>9, CountedCount, RelayStep, Zenon
<1> QED
  BY <1>1, <1>2, <1>3, <1>4

\* The transport of the row is set.
LEMMA SetsTransport ==
  ASSUME RelayInv, NEW t \in Threads, at[t] # "gone", NEW p \in Transports, SetTransport(p),
         NEW l \in RelayLabels, Goto(t, l), l \notin Ending, l \notin Early,
         UNCHANGED agents, UNCHANGED sess, UNCHANGED pend, UNCHANGED recClosed, UNCHANGED arg,
         UNCHANGED src, UNCHANGED offered, UNCHANGED sent, UNCHANGED counted, UNCHANGED relayed
  PROVE  RelayInv'
<1>1. row' = [row EXCEPT !.transport = p]
  BY DEF SetTransport
<1>2. FlagTypes' /\ (mapped' => mapped)
  BY RelayNow, FlagsKept, Zenon
<1>3. Counted /\ row \in Rows /\ RecordTypes
  BY RunningCounted DEF RelayInv, RelayTypes, RecordTypes
<1>4. row' \in Rows /\ row'.bytes = row.bytes /\ row'.state = row.state
  BY <1>1, <1>3 DEF Rows
<1>5. RecordTypes' /\ Counted'
  BY <1>3, <1>4, Zenon DEF RecordTypes, Counted, Rows, Transports, EndStates
<1>6. src' = "none" => src = "none" /\ ~mapped' /\ ~recClosed'
  BY <1>2, RelayNow, Zenon
<1> QED
  BY <1>2, <1>5, <1>6, RelayNow, MoveStep, Zenon

\* The timer's callback keeps it.
LEMMA TimerSteps == ASSUME RelayInv, Timer PROVE RelayInv'
<1> USE Places
<1>1. CASE TimerFires
  <2>1. /\ UNCHANGED agents /\ UNCHANGED sess /\ UNCHANGED record /\ UNCHANGED arg
        /\ UNCHANGED src /\ UNCHANGED offered /\ UNCHANGED sent /\ UNCHANGED counted
        /\ UNCHANGED relayed /\ at["timer"] = "armed"
    BY <1>1 DEF TimerFires, ends
  <2>2. PICK l \in {"markRelay", "gone"} : Goto("timer", l)
    BY <1>1 DEF TimerFires
  <2>3. l \in RelayLabels /\ l \notin Ending /\ l \notin Early /\ at["timer"] # "gone"
    BY <2>1 DEF RelayLabels, Ending, Early
  <2>4. FlagTypes' /\ (mapped' => mapped)
    BY <2>1, RelayNow, FlagsKept, Zenon
  <2> QED
    BY <2>1, <2>2, <2>3, <2>4, RelayNow, QuietMove, Zenon
<1>2. CASE MarkRelay
  <2>1. /\ UNCHANGED agents /\ UNCHANGED mapped /\ UNCHANGED direct /\ UNCHANGED record
        /\ UNCHANGED arg /\ UNCHANGED src /\ UNCHANGED offered /\ UNCHANGED sent
        /\ UNCHANGED counted /\ UNCHANGED relayed /\ at["timer"] = "markRelay"
    BY <1>2 DEF MarkRelay, ends
  <2>2. PICK l \in {"setRelay", "gone"} : Goto("timer", l)
    BY <1>2 DEF MarkRelay
  <2>3. l \in RelayLabels /\ l \notin Ending /\ l \notin Early /\ at["timer"] # "gone"
    BY <2>1 DEF RelayLabels, Ending, Early
  <2>4. timer' \in {timer, FALSE} /\ transport' \in {transport, "relay"} /\ "relay" \in Transports
    BY <1>2, Zenon DEF MarkRelay, Transports
  <2>5. FlagTypes'
    BY <2>1, <2>4, RelayNow, Zenon DEF FlagTypes, Devices, Transports
  <2> QED
    BY <2>1, <2>2, <2>3, <2>5, RelayNow, QuietMove, Zenon
<1>3. CASE SetRelay
  <2>1. /\ at["timer"] = "setRelay" /\ SetTransport("relay") /\ Goto("timer", "fallback")
        /\ UNCHANGED agents /\ UNCHANGED sess /\ UNCHANGED pend /\ UNCHANGED recClosed
        /\ UNCHANGED arg /\ UNCHANGED src /\ UNCHANGED offered /\ UNCHANGED sent
        /\ UNCHANGED counted /\ UNCHANGED relayed
    BY <1>3 DEF SetRelay, ends
  <2>2. /\ "fallback" \in RelayLabels /\ "fallback" \notin Ending /\ "fallback" \notin Early
        /\ "relay" \in Transports
    BY DEF RelayLabels, Ending, Early, Transports
  <2>3. at["timer"] # "gone"
    BY <1>3 DEF SetRelay
  <2> QED
    BY <2>1, <2>2, <2>3, SetsTransport, Zenon
<1>4. ASSUME NEW ok \in BOOLEAN, StartRelayFallback(ok) PROVE RelayInv'
  <2>1. /\ UNCHANGED agents /\ UNCHANGED sess /\ UNCHANGED record /\ UNCHANGED src
        /\ UNCHANGED offered /\ UNCHANGED sent /\ UNCHANGED counted /\ at["timer"] = "fallback"
    BY <1>4 DEF StartRelayFallback
  <2>2. /\ relayed' \in {relayed, TRUE}
        /\ \/ Goto("timer", "gone") /\ UNCHANGED arg
           \/ Goto("timer", "close") /\ arg' = [arg EXCEPT !["timer"] = "failed"]
    BY <1>4, Zenon DEF StartRelayFallback, GotoWith
  <2>3. /\ "gone" \in RelayLabels /\ "close" \in RelayLabels /\ "gone" \notin Ending
        /\ "gone" \notin Early /\ "close" \notin Early /\ "failed" \in EndStates
        /\ at["timer"] # "gone"
    BY <2>1 DEF RelayLabels, Ending, Early, EndStates
  <2>4. relayed' \in BOOLEAN
    BY <2>2, RelayNow, Zenon
  <2>5. FlagTypes' /\ (mapped' => mapped)
    BY <2>1, <2>4, RelayNow, FlagsKept, Zenon
  <2> QED
    BY <2>1, <2>2, <2>3, <2>5, RelayNow, QuietMove, Zenon
<1> QED
  BY <1>1, <1>2, <1>3, <1>4, Zenon DEF Timer

\* A report of an open data channel and the messages of the agents keep it.
LEMMA ReceivingSteps ==
  ASSUME RelayInv, NEW h \in Handlers, Receiving(h) PROVE RelayInv'
<1> USE Places
<1>1. CASE DirectOK(h)
  <2>1. /\ UNCHANGED agents /\ UNCHANGED mapped /\ UNCHANGED record /\ UNCHANGED arg
        /\ UNCHANGED src /\ UNCHANGED offered /\ UNCHANGED sent /\ UNCHANGED counted
        /\ UNCHANGED relayed /\ at[h] = "idle" /\ mapped
    BY <1>1 DEF DirectOK, Reads, ends
  <2>2. direct' = TRUE /\ transport' = "direct" /\ timer' = FALSE /\ "direct" \in Transports
    BY <1>1 DEF DirectOK, Transports
  <2>3. FlagTypes'
    BY <2>1, <2>2, RelayNow, Zenon DEF FlagTypes, Devices, Transports
  <2>4. at[h] # "gone" /\ src' # "none"
    BY <2>1, RelayNow, Zenon
  <2>5. RecordTypes' /\ Counted'
    BY <2>1, <2>4, RecordKept, Zenon
  <2>6. at \in [Threads -> RelayLabels] /\ arg \in [Threads -> Args]
    BY DEF RelayInv, RelayTypes, ThreadTypes
  <2>7. PICK l \in {at["timer"], "gone"} :
          at' = [at EXCEPT ![h] = "setDirect", !["timer"] = l]
    <3>1. at' = [at EXCEPT ![h] = "setDirect",
                           !["timer"] = IF timer /\ @ = "armed" THEN "gone" ELSE @]
      BY <1>1 DEF DirectOK
    <3>2. h # "timer"
      BY DEF Handlers
    <3> QED
      BY <2>6, <3>1, <3>2, Zenon
  <2>8. /\ at' \in [Threads -> RelayLabels] /\ arg' \in [Threads -> Args]
        /\ \A u \in Threads : at'[u] \in {at[u], "setDirect", "gone"} /\ arg'[u] = arg[u]
    <3>1. h # "timer" /\ "gone" \in RelayLabels /\ "setDirect" \in RelayLabels
      BY DEF Handlers, RelayLabels
    <3> QED
      BY <2>1, <2>6, <2>7, <3>1
  <2>9. ThreadTypes'
    BY <2>8, Zenon DEF ThreadTypes, Threads, Handlers, RelayLabels, Args, EndStates, Messages
  <2>10. Threading
    BY <2>4, <2>8 DEF Threading, Ending
  <2> QED
    BY <2>3, <2>5, <2>9, <2>10, CountedCount, RelayStep, Zenon
<1>2. ASSUME NEW m \in Messages, RelayLookup(h, m) PROVE RelayInv'
  <2>1. /\ UNCHANGED agents /\ UNCHANGED sess /\ UNCHANGED record /\ UNCHANGED offered
        /\ UNCHANGED counted /\ UNCHANGED relayed /\ at[h] = "idle" /\ src' \in {src, "ended"}
    BY <1>2, Zenon DEF RelayLookup, Reads
  <2>2. sent' \in Nat
    BY <1>2, RelayNow DEF RelayLookup
  <2>3. FlagTypes' /\ (mapped' => mapped)
    BY <2>1, <2>2, RelayNow, FlagsKept, Zenon
  <2>4. \/ UNCHANGED at /\ UNCHANGED arg
        \/ Goto(h, "close") /\ arg' = [arg EXCEPT ![h] = "interrupted"]
        \/ \E l \in {"count", "write"} : Goto(h, l) /\ arg' = [arg EXCEPT ![h] = m]
    <3>1. CASE ~mapped
      BY <1>2, <3>1 DEF RelayLookup
    <3>2. CASE mapped /\ agents[Other(Device(h))] = 0
      BY <1>2, <3>2, Zenon DEF RelayLookup, GotoWith
    <3>3. CASE mapped /\ agents[Other(Device(h))] # 0
      BY <1>2, <3>3, Zenon DEF RelayLookup, GotoWith
    <3> QED
      BY <3>1, <3>2, <3>3, RelayNow
  <2>5. src' = "none" => src = "none"
    BY <2>1
  <2>6. /\ "close" \in RelayLabels /\ "close" \notin Early /\ "interrupted" \in EndStates
        /\ \A l \in {"count", "write"} : l \in RelayLabels /\ l \notin Early /\ l \notin Ending
        /\ at[h] # "gone"
    BY <2>1 DEF RelayLabels, Early, Ending, EndStates
  <2>7. CASE UNCHANGED at /\ UNCHANGED arg
    BY <2>1, <2>3, <2>5, <2>7, StillStep, Zenon
  <2>8. CASE Goto(h, "close") /\ arg' = [arg EXCEPT ![h] = "interrupted"]
    BY <2>1, <2>3, <2>5, <2>6, <2>8, QuietMove, Zenon
  <2>9. ASSUME NEW l \in {"count", "write"}, Goto(h, l), arg' = [arg EXCEPT ![h] = m]
        PROVE  RelayInv'
    BY <2>1, <2>3, <2>5, <2>6, <2>9, QuietMove, Zenon
  <2> QED
    BY <2>4, <2>7, <2>8, <2>9, Zenon
<1> QED
  BY <1>1, <1>2, Zenon DEF Receiving

\* Close of the recorder flushes the last batch and ends the row.
LEMMA RecorderCloses ==
  ASSUME RecordTypes, NEW state \in EndStates, RecorderClose(state)
  PROVE  /\ row' \in Rows /\ pend' \in Nat /\ recClosed' = TRUE
         /\ recClosed => row' = row /\ pend' = pend
         /\ ~recClosed => row'.bytes = row.bytes + pend /\ row'.state = state /\ pend' = 0
<1>1. CASE recClosed
  BY <1>1 DEF RecordTypes, RecorderClose, record
<1>2. CASE ~recClosed
  <2> DEFINE ended == [row EXCEPT !.state = state]
  <2>1. ended \in Rows /\ ended.bytes = row.bytes /\ ended.state = state
    BY DEF RecordTypes, Rows
  <2>2. row' = [ended EXCEPT !.bytes = ended.bytes + pend] /\ pend' = 0 /\ recClosed' = TRUE
    BY <1>2 DEF RecorderClose, AddConnectionTraffic
  <2> HIDE DEF ended
  <2>3. pend \in Nat /\ ended.bytes \in Nat
    BY <2>1 DEF RecordTypes, Rows
  <2>4. row' \in Rows /\ row'.bytes = ended.bytes + pend /\ row'.state = ended.state
    BY <2>1, <2>2, <2>3 DEF Rows
  <2> QED
    BY <1>2, <2>1, <2>2, <2>4
<1> QED
  BY <1>1, <1>2, Zenon

\* So a closed row holds everything that was counted.
LEMMA ClosesCounted ==
  ASSUME RecordTypes, Counted, NEW state \in EndStates, RecorderClose(state), UNCHANGED counted
  PROVE  RecordTypes' /\ Counted' /\ recClosed'
<1>1. /\ row' \in Rows /\ pend' \in Nat /\ recClosed' = TRUE
      /\ recClosed => row' = row /\ pend' = pend
      /\ ~recClosed => row'.bytes = row.bytes + pend /\ row'.state = state /\ pend' = 0
  BY RecorderCloses, Zenon
<1>2. RecordTypes'
  BY <1>1, Zenon DEF RecordTypes, Rows, Transports, EndStates
<1> QED
  BY <1>1, <1>2, Zenon DEF Counted, RecordTypes, EndStates

\* Add counts a chunk exactly if the recorder is open.
LEMMA AddsCounted ==
  ASSUME RecordTypes, Counted, RecorderAdd, UNCHANGED recClosed
  PROVE  RecordTypes' /\ Counted'
<1>1. CASE recClosed
  <2>1. UNCHANGED row /\ UNCHANGED pend /\ UNCHANGED counted
    BY <1>1 DEF RecorderAdd
  <2> QED
    BY <2>1, Zenon DEF RecordTypes, Counted, Rows, Transports, EndStates
<1>2. CASE ~recClosed
  <2>1. row \in Rows /\ row.bytes \in Nat /\ pend \in Nat /\ counted \in Nat
    BY DEF RecordTypes, Rows
  <2>2. row.bytes + pend = counted /\ counted' = counted + 1
    BY <1>2 DEF Counted, RecorderAdd
  <2>3. \/ pend' = pend + 1 /\ row' = row
        \/ pend' = 0 /\ row' = [row EXCEPT !.bytes = row.bytes + (pend + 1)]
    BY <1>2 DEF RecorderAdd, AddConnectionTraffic
  <2>4. row' \in Rows /\ pend' \in Nat /\ counted' \in Nat /\ row'.bytes + pend' = counted'
    BY <2>1, <2>2, <2>3 DEF Rows
  <2>5. RecordTypes'
    BY <2>4, Zenon DEF RecordTypes, Rows, Transports, EndStates
  <2> QED
    BY <1>2, <2>4, <2>5, Zenon DEF Counted
<1> QED
  BY <1>1, <1>2

\* The messages a read loop counts and routes keep it.
LEMMA RoutingSteps ==
  ASSUME RelayInv, NEW h \in Handlers,
         SetDirect(h) \/ CountData(h) \/ Routed(h) \/ RouteFails(h)
  PROVE  RelayInv'
<1> USE Places
<1>1. CASE SetDirect(h)
  <2>1. /\ at[h] = "setDirect" /\ SetTransport("direct") /\ Goto(h, "idle")
        /\ UNCHANGED agents /\ UNCHANGED sess /\ UNCHANGED pend /\ UNCHANGED recClosed
        /\ UNCHANGED arg /\ UNCHANGED src /\ UNCHANGED offered /\ UNCHANGED sent
        /\ UNCHANGED counted /\ UNCHANGED relayed
    BY <1>1 DEF SetDirect, ends
  <2>2. /\ "idle" \in RelayLabels /\ "idle" \notin Ending /\ "idle" \notin Early
        /\ "direct" \in Transports
    BY DEF RelayLabels, Ending, Early, Transports
  <2>3. at[h] # "gone"
    BY <1>1 DEF SetDirect
  <2> QED
    BY <2>1, <2>2, <2>3, SetsTransport, Zenon
<1>2. CASE CountData(h)
  <2>1. /\ at[h] = "count" /\ Goto(h, "write") /\ UNCHANGED agents /\ UNCHANGED sess
        /\ UNCHANGED recClosed /\ UNCHANGED arg /\ UNCHANGED src /\ UNCHANGED offered
        /\ UNCHANGED sent /\ UNCHANGED relayed
    BY <1>2 DEF CountData, ends
  <2>2. \/ RecorderAdd
        \/ UNCHANGED pend /\ UNCHANGED row /\ UNCHANGED counted
    BY <1>2 DEF CountData
  <2>3. /\ "write" \in RelayLabels /\ "write" \notin Ending /\ "write" \notin Early
        /\ at[h] # "gone"
    BY <2>1 DEF RelayLabels, Ending, Early
  <2>4. RecordTypes /\ Counted
    BY <2>3, RunningCounted, Zenon DEF RelayInv, RelayTypes
  <2>5. RecordTypes' /\ Counted'
    <3>1. CASE RecorderAdd
      BY <2>1, <2>4, <3>1, AddsCounted, Zenon
    <3>2. CASE UNCHANGED pend /\ UNCHANGED row /\ UNCHANGED counted
      BY <2>1, <2>4, <3>2, Zenon DEF RecordTypes, Counted, Rows, Transports, EndStates
    <3> QED
      BY <2>2, <3>1, <3>2, Zenon
  <2>6. FlagTypes' /\ (mapped' => mapped)
    BY <2>1, RelayNow, FlagsKept, Zenon
  <2>7. src' = "none" => src = "none" /\ ~mapped' /\ ~recClosed'
    BY <2>1, <2>6, RelayNow, Zenon
  <2> QED
    BY <2>1, <2>3, <2>5, <2>6, <2>7, RelayNow, MoveStep, Zenon
<1>3. CASE Routed(h)
  <2>1. /\ UNCHANGED agents /\ UNCHANGED sess /\ UNCHANGED record /\ UNCHANGED sent
        /\ UNCHANGED counted /\ UNCHANGED relayed /\ at[h] = "write"
    BY <1>3 DEF Routed
  <2>2. src' \in {src, "relay", "ended"}
    BY <1>3, Zenon DEF Routed
  <2>3. offered' \in BOOLEAN
    BY <1>3, RelayNow DEF Routed
  <2>4. \/ \E a \in {"failed", "closed"} : Goto(h, "close") /\ arg' = [arg EXCEPT ![h] = a]
        \/ Goto(h, "idle") /\ arg' = [arg EXCEPT ![h] = "none"]
    BY <1>3, Zenon DEF Routed, GotoWith
  <2>5. /\ "close" \in RelayLabels /\ "close" \notin Early
        /\ "idle" \in RelayLabels /\ "idle" \notin Early /\ "idle" \notin Ending
        /\ \A a \in {"failed", "closed"} : a \in EndStates
        /\ at[h] # "gone"
    BY <2>1 DEF RelayLabels, Early, Ending, EndStates
  <2>6. FlagTypes' /\ (mapped' => mapped)
    BY <2>1, <2>3, RelayNow, FlagsKept, Zenon
  <2>7. src' = "none" => src = "none"
    BY <2>2
  <2>8. ASSUME NEW a \in {"failed", "closed"}, Goto(h, "close"), arg' = [arg EXCEPT ![h] = a]
        PROVE  RelayInv'
    BY <2>1, <2>5, <2>6, <2>7, <2>8, QuietMove, Zenon
  <2>9. CASE Goto(h, "idle") /\ arg' = [arg EXCEPT ![h] = "none"]
    BY <2>1, <2>5, <2>6, <2>7, <2>9, QuietMove, Zenon
  <2> QED
    BY <2>4, <2>8, <2>9, Zenon
<1>4. CASE RouteFails(h)
  <2>1. /\ UNCHANGED agents /\ UNCHANGED sess /\ UNCHANGED record /\ UNCHANGED src
        /\ UNCHANGED offered /\ UNCHANGED sent /\ UNCHANGED counted /\ UNCHANGED relayed
        /\ at[h] = "write" /\ Goto(h, "close") /\ arg' = [arg EXCEPT ![h] = "interrupted"]
    BY <1>4 DEF RouteFails, GotoWith, ends
  <2>2. /\ "close" \in RelayLabels /\ "close" \notin Early /\ "interrupted" \in EndStates
        /\ at[h] # "gone"
    BY <2>1 DEF RelayLabels, Early, EndStates
  <2>3. FlagTypes' /\ (mapped' => mapped)
    BY <2>1, RelayNow, FlagsKept, Zenon
  <2> QED
    BY <2>1, <2>2, <2>3, QuietMove, Zenon
<1> QED
  BY <1>1, <1>2, <1>3, <1>4

\* closeForward keeps it.
LEMMA ClosingSteps ==
  ASSUME RelayInv, NEW t \in Threads, Closing(t) PROVE RelayInv'
<1> USE Places
<1>1. Back(t) \in RelayLabels /\ Back(t) \notin Ending /\ Back(t) \notin Early
  BY DEF Back, RelayLabels, Ending, Early
<1>2. CASE CloseForward(t)
  <2>1. /\ UNCHANGED agents /\ UNCHANGED direct /\ UNCHANGED transport /\ UNCHANGED timer
        /\ UNCHANGED record /\ UNCHANGED src /\ UNCHANGED offered /\ UNCHANGED sent
        /\ UNCHANGED counted /\ UNCHANGED relayed /\ mapped' = FALSE /\ at[t] = "close"
    BY <1>2 DEF CloseForward, ends
  <2>2. \/ mapped /\ Goto(t, "finish") /\ UNCHANGED arg
        \/ Goto(t, Back(t)) /\ arg' = [arg EXCEPT ![t] = "none"]
    BY <1>2, Zenon DEF CloseForward, GotoWith
  <2>3. /\ "finish" \in RelayLabels /\ at[t] # "gone" /\ at[t] \in Ending
    BY <2>1 DEF RelayLabels, Ending
  <2>4. FlagTypes'
    BY <2>1, RelayNow, Zenon DEF FlagTypes, Devices, Transports
  <2>5. CASE mapped /\ Goto(t, "finish") /\ UNCHANGED arg
    <3>1. src' # "none" /\ arg[t] \in EndStates
      BY <2>1, <2>3, <2>5, RelayNow, Zenon
    <3> QED
      BY <2>1, <2>3, <2>4, <2>5, <3>1, QuietMove, Zenon
  <2>6. CASE Goto(t, Back(t)) /\ arg' = [arg EXCEPT ![t] = "none"]
    BY <1>1, <2>1, <2>3, <2>4, <2>6, QuietMove, Zenon
  <2> QED
    BY <2>2, <2>5, <2>6, Zenon
<1>3. CASE FinishClose(t)
  <2>1. /\ UNCHANGED agents /\ UNCHANGED direct /\ UNCHANGED transport /\ UNCHANGED mapped
        /\ UNCHANGED src /\ UNCHANGED offered /\ UNCHANGED sent /\ UNCHANGED counted
        /\ UNCHANGED relayed /\ timer' = FALSE /\ at[t] = "finish" /\ RecorderClose(arg[t])
        /\ arg' = [arg EXCEPT ![t] = "none"]
    BY <1>3 DEF FinishClose, ends
  <2>2. at' = [x \in Threads |-> IF x = t THEN Back(t)
                                 ELSE IF x = "timer" /\ timer /\ at[x] = "armed" THEN "gone"
                                 ELSE at[x]]
    BY <1>3, Zenon DEF FinishClose
  <2>3. FlagTypes'
    BY <2>1, RelayNow, Zenon DEF FlagTypes, Devices, Transports
  <2>4. at[t] # "gone" /\ at[t] \in Ending /\ at[t] \in Early
    BY <1>3 DEF FinishClose, Ending, Early
  <2>5. src' # "none" /\ arg[t] \in EndStates
    BY <2>1, <2>4, RelayNow, Zenon
  <2>6. RecordTypes /\ Counted
    BY <2>4, RunningCounted, Zenon DEF RelayInv, RelayTypes
  <2>7. RecordTypes' /\ Counted'
    BY <2>1, <2>5, <2>6, ClosesCounted, Zenon
  <2>8. at \in [Threads -> RelayLabels] /\ arg \in [Threads -> Args] /\ "gone" \in RelayLabels
    BY DEF RelayInv, RelayTypes, ThreadTypes, RelayLabels
  <2>9. \A u \in Threads : at'[u] \in {at[u], "gone", Back(t)} /\ at'[u] \in RelayLabels
    BY <1>1, <2>2, <2>8
  <2>10. at'[t] = Back(t) /\ \A u \in Threads \ {t} : arg'[u] = arg[u]
    BY <2>1, <2>2, <2>8
  <2>11. at' \in [Threads -> RelayLabels] /\ arg' \in [Threads -> Args]
    BY <2>1, <2>2, <2>8, <2>9
  <2>12. ThreadTypes'
    BY <2>11, Zenon DEF ThreadTypes, Threads, Handlers, RelayLabels, Args, EndStates, Messages
  <2>13. Threading
    <3>1. "gone" \notin Ending
      BY DEF Ending
    <3>2. \A u \in Threads : \/ at'[u] = at[u] /\ arg'[u] = arg[u]
                             \/ at'[u] \in Ending => arg'[u] \in EndStates
      BY <1>1, <2>9, <2>10, <3>1, Zenon
    <3> QED
      BY <2>5, <3>2, Zenon DEF Threading
  <2> QED
    BY <2>3, <2>7, <2>12, <2>13, CountedCount, RelayStep, Zenon
<1> QED
  BY <1>2, <1>3, Zenon DEF Closing

\* closeAgentForwards keeps it.
LEMMA TeardownSteps ==
  ASSUME RelayInv, NEW h \in Handlers, Teardown(h) \/ TeardownRecord(h) \/ TeardownNotify(h)
  PROVE  RelayInv'
<1> USE Places
<1>1. CASE Teardown(h)
  <2>1. /\ UNCHANGED agents /\ UNCHANGED direct /\ UNCHANGED transport /\ UNCHANGED timer
        /\ UNCHANGED record /\ UNCHANGED arg /\ UNCHANGED src /\ UNCHANGED offered
        /\ UNCHANGED sent /\ UNCHANGED counted /\ UNCHANGED relayed
        /\ mapped' = FALSE /\ at[h] = "teardown"
    BY <1>1 DEF Teardown, ends
  <2>2. \/ mapped /\ Goto(h, "tearRecord")
        \/ Goto(h, "gone")
    BY <1>1, Zenon DEF Teardown
  <2>3. /\ "tearRecord" \in RelayLabels /\ "gone" \in RelayLabels /\ "tearRecord" \notin Ending
        /\ "gone" \notin Ending /\ "gone" \notin Early /\ at[h] # "gone"
    BY <2>1 DEF RelayLabels, Ending, Early
  <2>4. FlagTypes'
    BY <2>1, RelayNow, Zenon DEF FlagTypes, Devices, Transports
  <2>5. CASE mapped /\ Goto(h, "tearRecord")
    <3>1. src' # "none"
      BY <2>1, <2>5, RelayNow, Zenon
    <3> QED
      BY <2>1, <2>3, <2>4, <2>5, <3>1, RelayNow, QuietMove, Zenon
  <2>6. CASE Goto(h, "gone")
    BY <2>1, <2>3, <2>4, <2>6, RelayNow, QuietMove, Zenon
  <2> QED
    BY <2>2, <2>5, <2>6, Zenon
<1>2. CASE TeardownRecord(h)
  <2>1. /\ UNCHANGED agents /\ UNCHANGED sess /\ UNCHANGED arg /\ UNCHANGED src
        /\ UNCHANGED offered /\ UNCHANGED sent /\ UNCHANGED counted /\ UNCHANGED relayed
        /\ Goto(h, "tearNotify") /\ RecorderClose("interrupted")
    BY <1>2 DEF TeardownRecord, ends
  <2>2. /\ "tearNotify" \in RelayLabels /\ "tearNotify" \notin Ending
        /\ "tearNotify" \notin Early /\ "interrupted" \in EndStates
    BY DEF RelayLabels, Ending, Early, EndStates
  <2>3. at[h] # "gone" /\ at[h] \in Early
    BY <1>2 DEF TeardownRecord, Early
  <2>4. RecordTypes /\ Counted
    BY <2>3, RunningCounted, Zenon DEF RelayInv, RelayTypes
  <2>5. RecordTypes' /\ Counted'
    BY <2>1, <2>2, <2>4, ClosesCounted, Zenon
  <2>6. FlagTypes'
    BY <2>1, RelayNow, FlagsKept, Zenon
  <2>7. src' # "none"
    BY <2>1, <2>3, RelayNow, Zenon
  <2> QED
    BY <2>1, <2>2, <2>5, <2>6, <2>7, RelayNow, MoveStep, Zenon
<1>3. CASE TeardownNotify(h)
  <2>1. /\ UNCHANGED agents /\ UNCHANGED sess /\ UNCHANGED record /\ UNCHANGED arg
        /\ UNCHANGED offered /\ UNCHANGED sent /\ UNCHANGED counted /\ UNCHANGED relayed
        /\ Goto(h, "gone") /\ at[h] = "tearNotify"
    BY <1>3 DEF TeardownNotify
  <2>2. src' = "none" => src = "none"
    BY <1>3, Zenon DEF TeardownNotify
  <2>3. "gone" \in RelayLabels /\ "gone" \notin Ending /\ "gone" \notin Early /\ at[h] # "gone"
    BY <1>3 DEF TeardownNotify, RelayLabels, Ending, Early
  <2>4. FlagTypes' /\ (mapped' => mapped)
    BY <2>1, RelayNow, FlagsKept, Zenon
  <2> QED
    BY <2>1, <2>2, <2>3, <2>4, RelayNow, QuietMove, Zenon
<1> QED
  BY <1>1, <1>2, <1>3

\* Connections that come and go keep it.
LEMMA ConnectionSteps ==
  ASSUME RelayInv, NEW h \in Handlers, Reconnect(h) \/ LoopEnds(h) PROVE RelayInv'
<1> USE Places
<1>1. /\ UNCHANGED sess /\ UNCHANGED record /\ UNCHANGED arg /\ UNCHANGED offered
      /\ UNCHANGED sent /\ UNCHANGED counted /\ UNCHANGED relayed
  BY DEF Reconnect, LoopEnds
<1>2. UNCHANGED mapped /\ UNCHANGED direct /\ UNCHANGED transport /\ UNCHANGED timer
  BY <1>1 DEF sess
<1>3. agents' \in [Devices -> 0..2]
  <2>1. \/ agents' = [agents EXCEPT ![Device(h)] = 2]
        \/ agents' = [agents EXCEPT ![Device(h)] = 0]
        \/ agents' = agents
    BY Zenon DEF Reconnect, LoopEnds
  <2> QED
    BY <2>1, RelayNow
<1>4. FlagTypes'
  BY <1>1, <1>2, <1>3, RelayNow, Zenon DEF FlagTypes, Devices, Transports
<1>5. src' = "none" => src = "none"
  BY Zenon DEF Reconnect, LoopEnds, LoseEnd
<1>6. at[h] # "gone"
  BY DEF Reconnect, LoopEnds
<1>7. PICK l \in {"idle", "teardown", "gone"} : Goto(h, l)
  BY Zenon DEF Reconnect, LoopEnds
<1>8. l \in RelayLabels /\ l \notin Ending /\ l \notin Early
  BY DEF RelayLabels, Ending, Early
<1> QED
  BY <1>1, <1>2, <1>4, <1>5, <1>6, <1>7, <1>8, RelayNow, QuietMove, Zenon

\* The decisions of the source agent and a restart of the server keep it.
LEMMA OutsideSteps ==
  ASSUME RelayInv, SourceDirect \/ SourceGivesUp \/ Restart PROVE RelayInv'
<1>1. CASE SourceDirect \/ SourceGivesUp
  <2>1. /\ UNCHANGED at /\ UNCHANGED arg /\ UNCHANGED record /\ UNCHANGED counted
        /\ UNCHANGED agents /\ UNCHANGED sess /\ UNCHANGED offered /\ UNCHANGED sent
        /\ UNCHANGED relayed /\ src' # "none"
    BY <1>1 DEF SourceDirect, SourceGivesUp
  <2>2. FlagTypes' /\ (mapped' => mapped)
    BY <2>1, RelayNow, FlagsKept, Zenon
  <2> QED
    BY <2>1, <2>2, StillStep, Zenon
<1>2. CASE Restart
  <2>1. /\ UNCHANGED direct /\ UNCHANGED transport /\ UNCHANGED recClosed /\ UNCHANGED offered
        /\ UNCHANGED sent /\ UNCHANGED counted /\ UNCHANGED relayed
        /\ mapped' = FALSE /\ timer' = FALSE /\ pend' = 0 /\ src' # "none"
    BY <1>2 DEF Restart
  <2>2. /\ agents' = [d \in Devices |-> 0]
        /\ at' = [t \in Threads |-> "gone"] /\ arg' = [t \in Threads |-> "none"]
    BY <1>2, Zenon DEF Restart
  <2>3. agents' \in [Devices -> 0..2]
    BY <2>2
  <2>4. FlagTypes'
    BY <2>1, <2>3, RelayNow, Zenon DEF FlagTypes, Devices, Transports
  <2>5. /\ at' \in [Threads -> RelayLabels] /\ arg' \in [Threads -> Args]
        /\ \A t \in Threads : at'[t] = "gone"
    BY <2>2 DEF RelayLabels, Args
  <2>6. ThreadTypes'
    BY <2>5, Zenon DEF ThreadTypes, Threads, Handlers, RelayLabels, Args, EndStates, Messages
  <2>7. row \in Rows /\ counted \in Nat /\ recClosed \in BOOLEAN
    BY DEF RelayInv, RelayTypes, RecordTypes
  <2>8. /\ row' \in Rows /\ row'.bytes = row.bytes
        /\ row.state \in EndStates => row'.state = row.state
    <3>1. row' = IF row.state = "active" THEN [row EXCEPT !.state = "interrupted"] ELSE row
      BY <1>2 DEF Restart
    <3> QED
      BY <2>7, <3>1 DEF Rows, EndStates
  <2>9. pend' \in Nat
    BY <2>1
  <2>10. RecordTypes'
    BY <2>1, <2>7, <2>8, <2>9, Zenon DEF RecordTypes, Rows, Transports, EndStates
  <2>11. recClosed => row.bytes = counted /\ row.state \in EndStates
    BY Zenon DEF RelayInv, RelayCount, ClosedRowComplete
  <2>12. RelayCount'
    BY <2>1, <2>5, <2>8, <2>11, Zenon DEF RelayCount, ClosedRowComplete, Threads, Handlers,
                                          EndStates
  <2>13. Threading
    BY <2>1, <2>5 DEF Threading, Ending
  <2> QED
    BY <2>4, <2>6, <2>10, <2>12, <2>13, RelayStep, Zenon
<1> QED
  BY <1>1, <1>2

\* Every step keeps the invariant.
LEMMA NextRelayInv == RelayInv /\ [SessionNext]_sessionVars => RelayInv'
<1> SUFFICES ASSUME RelayInv, [SessionNext]_sessionVars PROVE RelayInv'
  OBVIOUS
<1>1. CASE SessionNext
  <2>1. ASSUME NEW h \in Handlers, Receiving(h) \/ Working(h) \/ Reconnect(h) \/ LoopEnds(h)
        PROVE  RelayInv'
    BY <2>1, ReceivingSteps, RoutingSteps, TeardownSteps, ConnectionSteps, Zenon DEF Working
  <2> QED
    BY <1>1, <2>1, ConnectSteps, TimerSteps, ClosingSteps, OutsideSteps, Zenon DEF SessionNext
<1>2. CASE UNCHANGED sessionVars
  <2>1. /\ UNCHANGED at /\ UNCHANGED arg /\ UNCHANGED record /\ UNCHANGED counted
        /\ UNCHANGED agents /\ UNCHANGED sess /\ UNCHANGED src /\ UNCHANGED offered
        /\ UNCHANGED sent /\ UNCHANGED relayed
    BY <1>2 DEF sessionVars, ends
  <2>2. FlagTypes' /\ (mapped' => mapped)
    BY <2>1, RelayNow, FlagsKept, Zenon
  <2> QED
    BY <2>1, <2>2, StillStep, Zenon
<1> QED
  BY <1>1, <1>2

\* So it holds throughout.
LEMMA RelayInvariance == SessionSpec => []RelayInv
BY InitRelayInv, NextRelayInv, PTL DEF SessionSpec

-----------------------------------------------------------------------------
(* What the server promises about a session.                               *)

\* The server's structures keep their types: a thread is always at one of the
\* places listed and a row is always in one of the states listed.
THEOREM RelayTypeCorrect == SessionSpec => []RelayTypes
<1>1. RelayInv => RelayTypes
  BY DEF RelayInv
<1> QED
  BY <1>1, RelayInvariance, PTL

\* A closed row holds exactly the bytes counted and ends in a final state: neither
\* the two Close callers nor a chunk relayed while one of them runs loses or adds
\* any (trafficRecorder.Add and Close).
THEOREM ClosedRow == SessionSpec => []ClosedRowComplete
<1>1. RelayInv => ClosedRowComplete
  BY DEF RelayInv, RelayCount
<1> QED
  BY <1>1, RelayInvariance, PTL

\* Once the recorder is closed, the row's state and bytes never change again, over
\* a second closeForward, closeAgentForwards, late chunks and a restart.
THEOREM ClosedRowFinal ==
  SessionSpec =>
    [][recClosed => recClosed' /\ row'.state = row.state
                     /\ row'.bytes = row.bytes]_sessionVars
<1> DEFINE Final == recClosed => recClosed' /\ row'.state = row.state /\ row'.bytes = row.bytes
<1>1. ASSUME RelayInv, [SessionNext]_sessionVars PROVE [Final]_sessionVars
  <2> SUFFICES ASSUME recClosed, SessionNext
               PROVE  recClosed' /\ row'.state = row.state /\ row'.bytes = row.bytes
    BY <1>1
  <2>0. row \in Rows /\ row.state \in EndStates /\ src # "none"
    BY <1>1, RelayNow DEF RelayInv, RelayTypes, RecordTypes, RelayCount, ClosedRowComplete
  <2> DEFINE Same(r) == r.state = row.state /\ r.bytes = row.bytes
  <2>01. /\ \A p : Same([row EXCEPT !.transport = p])
         /\ row.state # "active"
    BY <2>0 DEF Rows, EndStates
  <2>02. ASSUME UNCHANGED record PROVE recClosed' /\ Same(row')
    BY <2>02 DEF record
  <2>1. CASE ConnectRefused \/ ConnectAccepted \/ InsertForward \/ ArmTimer \/ Timer
    BY <2>0, <2>01, <2>02, <2>1, Zenon
       DEF ConnectRefused, ConnectAccepted, InsertForward, ArmTimer, Timer, TimerFires,
           MarkRelay, SetRelay, SetTransport, StartRelayFallback
  <2>2. ASSUME NEW t \in Threads, Closing(t) PROVE recClosed' /\ Same(row')
    BY <2>02, <2>2, Zenon DEF Closing, CloseForward, FinishClose, RecorderClose
  <2>3. ASSUME NEW h \in Handlers, Receiving(h) \/ Reconnect(h) \/ LoopEnds(h)
        PROVE  recClosed' /\ Same(row')
    BY <2>02, <2>3, Zenon DEF Receiving, DirectOK, RelayLookup, Reconnect, LoopEnds
  <2>4. ASSUME NEW h \in Handlers, Working(h) PROVE recClosed' /\ Same(row')
    BY <2>01, <2>02, <2>4, Zenon
       DEF Working, SetDirect, SetTransport, CountData, RecorderAdd, Routed, RouteFails,
           Teardown, TeardownRecord, RecorderClose, TeardownNotify
  <2>5. CASE SourceDirect \/ SourceGivesUp \/ Restart
    BY <2>01, <2>02, <2>5, Zenon DEF SourceDirect, SourceGivesUp, Restart
  <2> QED
    BY <2>1, <2>2, <2>3, <2>4, <2>5, Zenon DEF SessionNext
<1> QED
  BY <1>1, RelayInvariance, PTL DEF SessionSpec

\* The direct path won: it is marked and the timer callback is not past the point
\* where it looks at the mark.
DirectWon == direct /\ ~relayed /\ at["timer"] \notin {"setRelay", "fallback"}

\* Nothing undoes that: direct is never reset, and MarkRelay returns early.
LEMMA DirectWonStable == RelayInv /\ DirectWon /\ [SessionNext]_sessionVars => DirectWon'
<1> SUFFICES ASSUME RelayInv, DirectWon, [SessionNext]_sessionVars PROVE DirectWon'
  OBVIOUS
<1>0. at \in [Threads -> RelayLabels] /\ "timer" \in Threads /\ "timer" \notin Handlers
  BY DEF RelayInv, RelayTypes, ThreadTypes, Threads, Handlers
<1>1. ASSUME NEW t \in Threads, NEW l, Goto(t, l)
      PROVE  at'["timer"] = IF t = "timer" THEN l ELSE at["timer"]
  BY <1>0, <1>1 DEF Goto
<1>2. direct /\ ~relayed /\ at["timer"] \notin {"setRelay", "fallback"}
  BY DEF DirectWon
<1>3. CASE \/ ConnectRefused \/ ConnectAccepted \/ InsertForward \/ ArmTimer
           \/ SourceDirect \/ SourceGivesUp
  <2>1. direct' = direct /\ relayed' = relayed
    BY <1>3, Zenon DEF ConnectRefused, ConnectAccepted, InsertForward, ArmTimer, SourceDirect,
                       SourceGivesUp, sess
  <2>2. CASE ConnectAccepted \/ InsertForward
    <3>1. \E l : Goto("src1", l)
      BY <2>2, Zenon DEF ConnectAccepted, InsertForward
    <3> QED
      BY <1>1, <1>2, <2>1, <3>1, Places DEF DirectWon
  <2>3. CASE ArmTimer
    <3>1. at' = [at EXCEPT !["src1"] = "idle", !["timer"] = "armed"]
      BY <2>3 DEF ArmTimer
    <3>2. at'["timer"] = "armed"
      BY <1>0, <3>1
    <3> QED
      BY <1>2, <2>1, <3>2 DEF DirectWon
  <2>4. CASE ConnectRefused \/ SourceDirect \/ SourceGivesUp
    <3>1. at' = at
      BY <2>4, Zenon DEF ConnectRefused, SourceDirect, SourceGivesUp
    <3> QED
      BY <1>2, <2>1, <3>1 DEF DirectWon
  <2> QED
    BY <1>3, <2>2, <2>3, <2>4, Zenon
<1>4. CASE Timer
  <2>1. direct' = direct /\ relayed' = relayed
    BY <1>2, <1>4, Zenon DEF Timer, TimerFires, MarkRelay, SetRelay, StartRelayFallback, sess
  <2>2. PICK l \in {"markRelay", "gone"} : Goto("timer", l)
    BY <1>2, <1>4, Zenon DEF Timer, TimerFires, MarkRelay, SetRelay, StartRelayFallback
  <2>3. at'["timer"] = l
    BY <1>0, <1>1, <2>2, Zenon
  <2> QED
    BY <1>2, <2>1, <2>3 DEF DirectWon
<1>5. ASSUME NEW t \in Threads, Closing(t) PROVE DirectWon'
  <2>1. direct' = direct /\ relayed' = relayed
    BY <1>5, Zenon DEF Closing, CloseForward, FinishClose
  <2>2. CASE CloseForward(t)
    <3>1. PICK l \in {"finish", "gone", "idle"} : Goto(t, l)
      BY <2>2, Zenon DEF CloseForward, GotoWith, Back
    <3>2. at'["timer"] \in {at["timer"], l}
      BY <1>1, <3>1, Zenon
    <3> QED
      BY <1>2, <2>1, <3>2 DEF DirectWon
  <2>3. CASE FinishClose(t)
    <3>1. at'["timer"] \in {at["timer"], "gone", "idle"}
      BY <1>0, <2>3, Zenon DEF FinishClose, Back
    <3> QED
      BY <1>2, <2>1, <3>1 DEF DirectWon
  <2> QED
    BY <1>5, <2>2, <2>3, Zenon DEF Closing
<1>6. ASSUME NEW h \in Handlers, Receiving(h) \/ Working(h) \/ Reconnect(h) \/ LoopEnds(h)
      PROVE  DirectWon'
  <2>1. relayed' = relayed /\ direct'
    BY <1>2, <1>6, Zenon
       DEF Receiving, DirectOK, RelayLookup, Working, SetDirect, CountData, Routed, RouteFails,
           Teardown, TeardownRecord, TeardownNotify, Reconnect, LoopEnds, sess
  <2>2. at' = at \/ \E l : Goto(h, l)
    <3>1. CASE Receiving(h)
      BY <1>2, <3>1, Zenon DEF Receiving, DirectOK, RelayLookup, GotoWith
    <3>2. CASE Working(h)
      BY <3>2, Zenon DEF Working, SetDirect, CountData, Routed, RouteFails, Teardown,
                         TeardownRecord, TeardownNotify, GotoWith
    <3>3. CASE Reconnect(h) \/ LoopEnds(h)
      BY <3>3, Zenon DEF Reconnect, LoopEnds
    <3> QED
      BY <1>6, <3>1, <3>2, <3>3, Zenon
  <2>3. at'["timer"] = at["timer"]
    BY <1>0, <1>1, <2>2, Places, Zenon
  <2> QED
    BY <1>2, <2>1, <2>3, Zenon DEF DirectWon
<1>7. CASE Restart
  <2>1. at' = [t \in Threads |-> "gone"] /\ direct' = direct /\ relayed' = relayed
    BY <1>7, Zenon DEF Restart
  <2>2. at'["timer"] = "gone"
    BY <1>0, <2>1, Zenon
  <2> QED
    BY <1>2, <2>1, <2>2 DEF DirectWon
<1>8. CASE UNCHANGED sessionVars
  <2>1. at' = at /\ direct' = direct /\ relayed' = relayed
    BY <1>8 DEF sessionVars, sess
  <2> QED
    BY <1>2, <2>1 DEF DirectWon
<1> QED
  BY <1>3, <1>4, <1>5, <1>6, <1>7, <1>8, Zenon DEF SessionNext

\* A direct path reported before the timer callback chose the relay suppresses the
\* fallback for good: the target is never asked to dial a second stream
\* (handleDirectOK against the AfterFunc callback).
THEOREM DirectSuppresses == SessionSpec => DirectSuppressesRelay
<1>1. DirectWon => ~relayed
  BY DEF DirectWon
<1>2. DirectSuppressesRelay <=> [](DirectWon => []~relayed)
  BY DEF DirectSuppressesRelay, DirectWon
<1> QED
  BY <1>1, <1>2, DirectWonStable, RelayInvariance, PTL DEF SessionSpec
=============================================================================
