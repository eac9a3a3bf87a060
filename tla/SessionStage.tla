---------------------------- MODULE SessionStage ----------------------------
(***************************************************************************)
(* What the terminal and the desktop of the console share                  *)
(* (web/src/sessionStage.ts, sessionLifecycle.ts): the stage shown to the  *)
(* user, how it may advance, and when a session may fall back to the       *)
(* server's relay.                                                         *)
(***************************************************************************)
EXTENDS Integers

\* The stages still in progress.  (No caller ever enters "signaling".)
Waiting == {"setup", "negotiating", "checking", "switching", "relaying"}
TerminalStages == {"connected", "disconnected", "error"}

stageRank == [setup |-> 0, negotiating |-> 2, checking |-> 3, switching |-> 4,
              relaying |-> 5, connected |-> 6, disconnected |-> 99, error |-> 99]

\* Faulty variant: every transition is applied.
AlwaysAdvance(current, next) == TRUE

shouldAdvanceStage(current, next) ==
  IF current \in TerminalStages
  THEN \/ next \in TerminalStages
       \/ current = "connected" /\ next \in {"switching", "relaying"}
  ELSE stageRank[next] >= stageRank[current]

applyStage(current, next) == IF shouldAdvanceStage(current, next) THEN next ELSE current

startBudget(current) == applyStage(current, "checking")
markRelaying(current) == applyStage(current, "relaying")
markConnected(current) == applyStage(current, "connected")
markFailed(current) == applyStage(current, "error")

\* A failure is not hidden by the closing that follows it.
markDisconnected(current) ==
  IF current = "error" THEN current ELSE applyStage(current, "disconnected")

\* x is the record of a view; failed, that the path failed and did not just run late.
canFallback(x, failed) == ~x.disposed /\ ~x.requested /\ (~x.live \/ failed)
=============================================================================
