------------------------------ MODULE SarpSession ------------------------------
(* A session with a JSON-lines worker (PersistentJsonlWorkerSession): one process, *)
(* a handshake, turns one at a time, cancellation of a turn, and the stop          *)
(* sequence cancel -> shutdown -> SIGTERM -> SIGKILL.  The session object's fields  *)
(* are one record; each handler runs to completion, so it is a function from the    *)
(* record to the record, built from the private methods it calls in their order.    *)
(* The worker is external: it may say anything, say nothing, or die at any time.    *)

CONSTANTS
  Send,        \* calls of send()
  Cancel,      \* calls of cancelTurn()
  NoTurn       \* activeTurn = null

ASSUME SarpAssumption == NoTurn \notin Send

VARIABLE ses

CallState == {"unsent", "waiting", "open", "resolved", "rejected"}
AnswerState == {"none", "waiting", "idle", "cancelled", "killed"}
StopTimers == {"grace", "shutdown", "kill"}    \* uses of the one stopTimer field

\* The fields of PersistentJsonlWorker, its process, and the callers' view of it.
SarpTypeOK ==
  ses \in [proc : BOOLEAN,                  \* this.proc # null
           os : {"none", "up", "terminating", "gone"},   \* the process itself
           pipe : BOOLEAN,                  \* a write to its stdin succeeds
           ready : {"closed", "pending", "ready", "failed"},
           stopped : BOOLEAN, shutdownSent : BOOLEAN, sigtermSent : BOOLEAN,
           stopDone : BOOLEAN,              \* stoppedPromise is resolved
           active : Send \cup {NoTurn}, cancelSent : BOOLEAN,
           timers : SUBSET ({"startup", "silence"} \cup StopTimers),
           call : [Send -> CallState], answer : [Cancel -> AnswerState]]

SarpInit ==
  ses = [proc |-> FALSE, os |-> "none", pipe |-> TRUE, ready |-> "closed",
         stopped |-> FALSE, shutdownSent |-> FALSE, sigtermSent |-> FALSE,
         stopDone |-> FALSE, active |-> NoTurn, cancelSent |-> FALSE, timers |-> {},
         call |-> [c \in Send |-> "unsent"], answer |-> [k \in Cancel |-> "none"]]
-----------------------------------------------------------------------------
(* Private methods                                                            *)

CanWrite(s) == s.proc /\ s.pipe

\* settle a turn once and answer the cancelTurn calls that wait for it
SettleCall(s, turn, outcome) ==
  IF turn = NoTurn THEN s
  ELSE [s EXCEPT !.call[turn] = outcome,
                 !.answer = [k \in Cancel |->
                    IF s.answer[k] # "waiting" THEN s.answer[k]
                    ELSE IF outcome = "resolved" THEN "cancelled" ELSE "killed"]]

\* this.activeTurn = null; rejectTurn(turn)
RejectActive(s) == SettleCall([s EXCEPT !.active = NoTurn], s.active, "rejected")

\* every pending send() awaits the same ready promise; rejecting it rejects them
FailReady(s) ==
  IF s.ready # "pending" THEN s
  ELSE [s EXCEPT !.ready = "failed",
                 !.call = [c \in Send |-> IF s.call[c] = "waiting" THEN "rejected"
                                          ELSE s.call[c]]]

CleanupDeadProc(s) ==
  [s EXCEPT !.proc = FALSE, !.timers = {}, !.stopDone = TRUE]

\* SIGKILL to the whole tree
KillProcess(s) ==
  [CleanupDeadProc(s) EXCEPT !.os = IF s.proc THEN "gone" ELSE @]

Violate(s) == KillProcess(RejectActive(FailReady(s)))

SigtermPhase(s) ==
  IF s.sigtermSent THEN s
  ELSE LET t == [s EXCEPT !.sigtermSent = TRUE, !.timers = @ \ StopTimers]
       IN  IF ~t.proc THEN t
           ELSE [t EXCEPT !.os = IF @ = "up" THEN "terminating" ELSE @,
                          !.timers = @ \cup {"kill"}]

ProceedShutdown(s) ==
  IF ~s.stopped \/ s.shutdownSent THEN s
  ELSE LET t == [s EXCEPT !.shutdownSent = TRUE, !.timers = @ \ StopTimers]
       IN  IF ~t.proc THEN t
           ELSE IF CanWrite(t) THEN [t EXCEPT !.timers = @ \cup {"shutdown"}]
           ELSE SigtermPhase(t)

\* the turn leaves the slot; a stop that waited for it goes on
ClearActiveTurn(s) ==
  ProceedShutdown([s EXCEPT !.active = NoTurn, !.timers = @ \ {"silence"}])
-----------------------------------------------------------------------------
(* Frames from the worker                                                      *)

TurnFrames ==
  {"progress", "stray", "endSuccess", "endEmpty", "endInterrupted",
   "endBadInterrupt", "endCancelled", "endError"}
Frames == TurnFrames \cup
  {"garbage", "ready", "badReady", "runtimeError", "runtimeStopped", "warning"}

\* a frame of another turn, or out of sequence, is "stray"; endEmpty is a success
\* without text or evidence of a reply, endBadInterrupt contradicts its preview
TurnFrame(s, frame) ==
  LET cleared == ClearActiveTurn(s)
  IN  IF s.active = NoTurn \/ frame \in {"stray", "endBadInterrupt"} THEN Violate(s)
      ELSE CASE frame \in {"endSuccess", "endInterrupted", "endCancelled"} ->
                  SettleCall(cleared, s.active, "resolved")
             [] frame \in {"endEmpty", "endError"} ->
                  SettleCall(cleared, s.active, "rejected")
             [] OTHER -> s

FrameWhileStopping(s, frame) ==
  CASE frame = "runtimeStopped" -> SigtermPhase(RejectActive(s))
    [] frame \in TurnFrames /\ s.active # NoTurn -> TurnFrame(s, frame)
    [] OTHER -> s

HandshakeFrame(s, frame) ==
  CASE frame = "ready" -> [s EXCEPT !.ready = "ready", !.timers = @ \ {"startup"}]
    [] frame \in {"badReady", "runtimeError", "runtimeStopped"} ->
         KillProcess(FailReady(s))
    [] frame = "warning" -> s
    [] OTHER -> Violate(s)

ReadyFrame(s, frame) ==
  CASE frame \in {"ready", "badReady"} -> Violate(s)
    [] frame = "runtimeStopped" ->
         IF s.active # NoTurn THEN Violate(s) ELSE KillProcess(s)
    [] frame = "runtimeError" -> KillProcess(RejectActive(s))
    [] frame = "warning" -> s
    [] OTHER -> TurnFrame(s, frame)

\* any frame the codec accepts prolongs the turn's silence timer
Prolonged(s) ==
  IF s.active = NoTurn THEN s ELSE [s EXCEPT !.timers = @ \cup {"silence"}]

Received(s, frame) ==
  LET t == Prolonged(s)
  IN  IF frame = "garbage" THEN Violate(s)
      ELSE IF s.stopped THEN FrameWhileStopping(t, frame)
      ELSE IF s.ready = "pending" THEN HandshakeFrame(t, frame)
      ELSE ReadyFrame(t, frame)

ReceiveFrame == ses.proc /\ \E frame \in Frames : ses' = Received(ses, frame)
-----------------------------------------------------------------------------
(* Calls of the owner                                                           *)

\* the constructor: the spawn throws, or initialize cannot be written, or both work
OpenSession ==
  /\ ses.ready = "closed"
  /\ \/ ses' = [ses EXCEPT !.ready = "failed"]
     \/ ses' = KillProcess([ses EXCEPT !.ready = "failed", !.proc = TRUE])
     \/ ses' = [ses EXCEPT !.ready = "pending", !.proc = TRUE, !.os = "up",
                           !.timers = {"startup"}]

CallSend(c) ==
  /\ ses.ready # "closed" /\ ses.call[c] = "unsent"
  /\ ses' = [ses EXCEPT !.call[c] =
               IF ses.stopped \/ ses.ready = "failed" THEN "rejected" ELSE "waiting"]

\* a plausible fault: two sends that awaited the handshake both start their turn
SendContinuesUnchecked(c) ==
  /\ ses.call[c] = "waiting" /\ ses.ready = "ready"
  /\ ses' = IF ses.stopped \/ ~ses.proc
            THEN [ses EXCEPT !.call[c] = "rejected"]
            ELSE [ses EXCEPT !.active = c, !.cancelSent = FALSE,
                             !.timers = @ \cup {"silence"}, !.call[c] = "open"]

\* doSend after `await this.ready`
SendContinues(c) ==
  /\ ses.call[c] = "waiting" /\ ses.ready = "ready"
  /\ LET refused == [ses EXCEPT !.call[c] = "rejected"]
     IN  ses' = IF ses.stopped \/ ses.active # NoTurn \/ ~ses.proc THEN refused
                ELSE IF ~CanWrite(ses) THEN KillProcess(refused)
                ELSE [ses EXCEPT !.active = c, !.cancelSent = FALSE,
                                 !.timers = @ \cup {"silence"}, !.call[c] = "open"]

CancelTurn(k) ==
  /\ ses.ready # "closed" /\ ses.answer[k] = "none"
  /\ LET asked == [ses EXCEPT !.cancelSent = TRUE]
         answered(s, a) == [s EXCEPT !.answer[k] = a]
     IN  ses' = CASE ses.active = NoTurn -> answered(ses, "idle")
                  [] ses.active # NoTurn /\ (ses.stopped \/ ~ses.proc) ->
                       answered(ses, "killed")
                  [] OTHER ->
                       IF ses.cancelSent \/ CanWrite(ses)
                       THEN answered(asked, "waiting")
                       ELSE answered(KillProcess(RejectActive(asked)), "killed")

CancelExpires(k) ==
  /\ ses.answer[k] = "waiting"
  /\ ses' = KillProcess(RejectActive(ses))

StopSession ==
  /\ ses.ready # "closed" /\ ~ses.stopped
  /\ LET s == FailReady([ses EXCEPT !.stopped = TRUE])
     IN  ses' = IF ~s.proc THEN [RejectActive(s) EXCEPT !.timers = {}, !.stopDone = TRUE]
                ELSE IF s.active # NoTurn /\ CanWrite(s)
                     THEN [s EXCEPT !.cancelSent = TRUE, !.timers = @ \cup {"grace"}]
                ELSE ProceedShutdown(s)
-----------------------------------------------------------------------------
(* Timers and the end of the process                                            *)

StartupExpires ==
  /\ "startup" \in ses.timers
  /\ LET s == [ses EXCEPT !.timers = @ \ {"startup"}]
     IN  ses' = IF s.ready = "pending" THEN KillProcess(FailReady(s)) ELSE s

SilenceExpires ==
  /\ "silence" \in ses.timers
  /\ ses' = IF ses.active = NoTurn THEN [ses EXCEPT !.timers = @ \ {"silence"}]
            ELSE KillProcess(RejectActive(ses))

StopTimerExpires ==
  \E timer \in StopTimers \cap ses.timers :
    LET s == [ses EXCEPT !.timers = @ \ {timer}]
    IN  ses' = CASE timer = "grace" ->
                      ClearActiveTurn(SettleCall(s, s.active, "rejected"))
                 [] timer = "shutdown" -> SigtermPhase(s)
                 [] timer = "kill" -> [CleanupDeadProc(s) EXCEPT !.os = "gone"]

WorkerDies == ses.os \in {"up", "terminating"} /\ ses' = [ses EXCEPT !.os = "gone"]

PipeBreaks == ses.os # "none" /\ ses.pipe /\ ses' = [ses EXCEPT !.pipe = FALSE]

\* exit and error events of the current process
ExitEvent ==
  /\ ses.proc /\ ses.os = "gone"
  /\ ses' = CleanupDeadProc(RejectActive(FailReady(ses)))

SarpNext ==
  \/ OpenSession \/ StopSession \/ ReceiveFrame
  \/ \E c \in Send : CallSend(c) \/ SendContinues(c)
  \/ \E k \in Cancel : CancelTurn(k) \/ CancelExpires(k)
  \/ StartupExpires \/ SilenceExpires \/ StopTimerExpires
  \/ WorkerDies \/ PipeBreaks \/ ExitEvent

SarpSpec == SarpInit /\ [][SarpNext]_ses

\* node runs a due timer and delivers an exit; neither the worker nor a caller need
\* do anything, and a worker that keeps talking keeps the silence timer away
SarpFairSpec ==
  SarpSpec /\ WF_ses(StopTimerExpires) /\ WF_ses(ExitEvent)
-----------------------------------------------------------------------------
(* Properties                                                                   *)

\* An open turn is the session's active turn, and something can still end it: the
\* process, or its exit, is still to be heard of.  The exception is a stop that found
\* the worker's stdin broken (see NoTurnIsOrphaned).
OpenTurnIsOwned ==
  \A c \in Send : ses.call[c] = "open" =>
    ses.active = c /\ (ses.proc \/ (ses.stopped /\ ~ses.pipe))

\* The same without the exception, as the comment of stop() has it ("no turn.end
\* within the grace, then it is settled by force").
NoTurnIsOrphaned ==
  \A c \in Send : ses.call[c] = "open" => ses.active = c /\ ses.proc

\* No call waits for a handshake that nothing can decide any more: while it is open
\* the process is there and the startup timer runs.
NobodyAwaitsALostHandshake ==
  \A c \in Send : ses.call[c] = "waiting" =>
    \/ ses.ready = "ready"
    \/ ses.ready = "pending" /\ ses.proc /\ "startup" \in ses.timers

\* Whoever waits for this session is in somebody's hands.
SarpCallsAreHeld == OpenTurnIsOwned /\ NobodyAwaitsALostHandshake

\* "cancelled" is the promise that the process survives the turn: it is answered
\* only while the process is there, and the turn it was asked for is over.
CancelledKeepsTheWorker ==
  [][\A k \in Cancel :
       (ses.answer[k] # "cancelled" /\ ses'.answer[k] = "cancelled")
         => ses'.proc /\ ses'.active = NoTurn]_ses

\* A stop always comes to its end: the process is gone, the promise of stop() is
\* resolved, and unless stdin broke no turn is left open.
StopCompletes ==
  ses.stopped ~> /\ ses.stopDone /\ ses.os \in {"none", "gone"}
                 /\ ses.pipe => ses.active = NoTurn

\* Seen by its caller the session is a SessionContract.
SarpContract == INSTANCE SessionContract WITH call <- ses.call
SarpKeepsContract == SarpContract!ContractSpec
=============================================================================
