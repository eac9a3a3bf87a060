----------------------------- MODULE ByteStream -----------------------------
(***************************************************************************)
(* What a relayed tunnel promises for one direction of the byte stream:    *)
(* the local peer receives the chunks that arrived, in order and without a *)
(* gap, and a tunnel that ends cleanly has delivered every chunk that      *)
(* arrived before the end-of-stream message.  A tunnel may be cut short at *)
(* any moment, and then it has delivered a prefix.                         *)
(***************************************************************************)
EXTENDS Integers, Sequences

VARIABLES offered,  \* number of chunks the relay handed over so far
          owed,     \* chunks offered when end-of-stream came, or NoEnd
          out,      \* the chunks the local peer received, by number
          phase     \* "open", "finished" (clean end) or "aborted"

streamVars == <<offered, owed, out, phase>>

NoEnd == -1

Init ==
  /\ offered = 0
  /\ owed = NoEnd
  /\ out = <<>>
  /\ phase = "open"

Offer ==
  /\ offered' = offered + 1
  /\ UNCHANGED <<owed, out, phase>>

EndOfStream ==
  /\ phase = "open" /\ owed = NoEnd
  /\ owed' = offered
  /\ UNCHANGED <<offered, out, phase>>

\* The next chunk in order reaches the peer.  A chunk in flight may still get
\* through while the stream is being aborted, never after a clean end.
Deliver ==
  /\ phase # "finished"
  /\ Len(out) < (IF owed = NoEnd THEN offered ELSE owed)
  /\ out' = Append(out, Len(out) + 1)
  /\ UNCHANGED <<offered, owed, phase>>

Finish ==
  /\ phase = "open" /\ owed = Len(out)
  /\ phase' = "finished"
  /\ UNCHANGED <<offered, owed, out>>

Abort ==
  /\ phase = "open"
  /\ phase' = "aborted"
  /\ UNCHANGED <<offered, owed, out>>

Next == Offer \/ EndOfStream \/ Deliver \/ Finish \/ Abort

Spec == Init /\ [][Next]_streamVars
=============================================================================
