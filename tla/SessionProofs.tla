---------------------------- MODULE SessionProofs ----------------------------
(* Proofs about the two drivers of an agent's session.  Both implement SessionContract:  *)
(* for any number of calls, processes and events, whatever the worker says, whenever it    *)
(* dies, and however the timers and the calls of the owner meet.  Each proof has one        *)
(* invariant, what a handler may do to it (GoesOn, ClaudeGoesOn), and a lemma for every       *)
(* private method and every handler.                                                          *)
EXTENDS SarpSession, ClaudeSession, TLAPS

-----------------------------------------------------------------------------
(* The session with a JSON-lines worker                                      *)

SesType ==
  [proc : BOOLEAN, os : {"none", "up", "terminating", "gone"}, pipe : BOOLEAN,
   ready : {"closed", "pending", "ready", "failed"},
   stopped : BOOLEAN, shutdownSent : BOOLEAN, sigtermSent : BOOLEAN, stopDone : BOOLEAN,
   active : Send \cup {NoTurn}, cancelSent : BOOLEAN,
   timers : SUBSET ({"startup", "silence"} \cup StopTimers),
   call : [Send -> CallState], answer : [Cancel -> AnswerState]]

\* turn is the call that is open; between a handler's steps it need not be the active one
SarpFits(s, turn) ==
  /\ \A c \in Send : s.call[c] = "open" <=> c = turn
  /\ \A c \in Send : s.call[c] = "waiting" => s.ready \in {"pending", "ready"}
  /\ \A k \in Cancel : s.answer[k] = "waiting" => s.ready = "ready"
  /\ s.ready = "pending" => s.proc /\ "startup" \in s.timers /\ ~s.stopped
  /\ s.active # NoTurn => s.ready = "ready" /\ (s.proc \/ (s.stopped /\ ~s.pipe))
  /\ s.timers \cap StopTimers # {} => s.stopped
  /\ s.timers \cap {"shutdown", "kill"} # {} => s.active = NoTurn \/ ~s.pipe
  /\ s.timers # {} => s.proc
  /\ s.ready = "closed" => ~s.proc /\ ~s.stopped
SarpInv == ses \in SesType /\ SarpFits(ses, ses.active)

\* what a handler may do to the calls: the open one is settled, one that waits is refused
Settles(s, t) ==
  \A c \in Send :
    \/ t.call[c] = s.call[c]
    \/ s.call[c] = "waiting" /\ t.call[c] = "rejected"
    \/ s.call[c] = "open" /\ t.call[c] \in {"resolved", "rejected"}
\* and nobody is told that the worker lives on
NoneCancelled(s, t) ==
  \A k \in Cancel : t.answer[k] = "cancelled" => s.answer[k] = "cancelled"

\* A turn is settled: no call is open any more.
LEMMA SettleSettles ==
  ASSUME NEW s \in SesType, NEW turn \in Send \cup {NoTurn}, SarpFits(s, turn),
         NEW outcome \in {"resolved", "rejected"}
  PROVE  LET t == SettleCall(s, turn, outcome)
         IN  /\ t \in SesType /\ SarpFits(t, NoTurn) /\ Settles(s, t)
             /\ outcome = "rejected" => NoneCancelled(s, t)
             /\ t.active = s.active /\ t.proc = s.proc /\ t.ready = s.ready /\ t.stopped = s.stopped
<1> DEFINE t == SettleCall(s, turn, outcome)
<1>1. CASE turn = NoTurn
  <2>1. t = s
    BY <1>1 DEF SettleCall
  <2>2. QED
    BY <1>1, <2>1 DEF Settles, NoneCancelled
<1>2. CASE turn # NoTurn
  <2> DEFINE calls == [s.call EXCEPT ![turn] = outcome]
             answers == [k \in Cancel |-> IF s.answer[k] # "waiting" THEN s.answer[k]
                           ELSE IF outcome = "resolved" THEN "cancelled" ELSE "killed"]
  <2>1. t = [s EXCEPT !.call = calls, !.answer = answers]
    BY <1>2 DEF SettleCall, SesType
  <2>2. turn \in Send /\ s.call \in [Send -> CallState] /\ s.answer \in [Cancel -> AnswerState]
    BY <1>2 DEF SesType
  <2>3. /\ calls \in [Send -> CallState] /\ calls[turn] = outcome
        /\ \A c \in Send : c # turn => calls[c] = s.call[c]
    BY <2>2 DEF CallState
  <2>4. /\ answers \in [Cancel -> AnswerState]
        /\ \A k \in Cancel : /\ answers[k] # "waiting"
                             /\ outcome = "rejected" /\ answers[k] = "cancelled" => s.answer[k] = "cancelled"
    BY <2>2 DEF AnswerState
  <2> HIDE DEF calls, answers
  <2>5. t \in SesType /\ t.call = calls /\ t.answer = answers
    BY <2>1, <2>3, <2>4 DEF SesType
  <2>6. s.call[turn] = "open" /\ \A c \in Send : s.call[c] = "open" <=> c = turn
    BY <2>2 DEF SarpFits
  <2>7. \A c \in Send : calls[c] # "open"
    BY <2>3, <2>6
  <2>8. /\ t.ready = s.ready /\ t.active = s.active /\ t.proc = s.proc /\ t.timers = s.timers
        /\ t.stopped = s.stopped /\ t.pipe = s.pipe
    BY <2>1 DEF SesType
  <2> HIDE DEF t
  <2>9. SarpFits(t, NoTurn)
    <3>1. \A c \in Send : t.call[c] = "open" <=> c = NoTurn
      BY <2>5, <2>7, SarpAssumption
    <3>2. \A c \in Send : t.call[c] = "waiting" => t.ready \in {"pending", "ready"}
      BY <2>3, <2>5, <2>8 DEF SarpFits
    <3>3. \A k \in Cancel : t.answer[k] # "waiting"
      BY <2>4, <2>5
    <3>4. QED
      BY <2>8, <3>1, <3>2, <3>3 DEF SarpFits
  <2>10. Settles(s, t)
    BY <2>3, <2>5, <2>6 DEF Settles
  <2>11. outcome = "rejected" => NoneCancelled(s, t)
    BY <2>4, <2>5 DEF NoneCancelled
  <2>12. QED
    BY <2>5, <2>8, <2>9, <2>10, <2>11 DEF t
<1>3. QED
  BY <1>1, <1>2

LEMMA RejectSettles ==
  ASSUME NEW s \in SesType, SarpFits(s, s.active)
  PROVE  LET t == RejectActive(s)
         IN  /\ t \in SesType /\ SarpFits(t, NoTurn) /\ Settles(s, t) /\ NoneCancelled(s, t)
             /\ t.active = NoTurn /\ t.ready = s.ready /\ t.stopped = s.stopped /\ t.proc = s.proc
<1> DEFINE v == [s EXCEPT !.active = NoTurn]
           t == SettleCall(v, s.active, "rejected")
<1>1. /\ v \in SesType /\ v.active = NoTurn /\ v.call = s.call /\ v.answer = s.answer
      /\ v.ready = s.ready /\ v.proc = s.proc /\ v.timers = s.timers
      /\ v.stopped = s.stopped /\ v.pipe = s.pipe /\ s.active \in Send \cup {NoTurn}
  BY DEF SesType
<1> HIDE DEF v
<1>2. SarpFits(v, s.active)
  BY <1>1 DEF SarpFits
<1>3. /\ t \in SesType /\ SarpFits(t, NoTurn) /\ Settles(v, t) /\ NoneCancelled(v, t)
      /\ t.active = v.active /\ t.proc = v.proc /\ t.ready = v.ready /\ t.stopped = v.stopped
  BY <1>1, <1>2, SettleSettles
<1> HIDE DEF t
<1>4. t.active = NoTurn /\ t.ready = s.ready /\ t.stopped = s.stopped /\ t.proc = s.proc
  BY <1>1, <1>3
<1>5. Settles(s, t) /\ NoneCancelled(s, t)
  BY <1>1, <1>3 DEF Settles, NoneCancelled
<1>6. QED
  BY <1>3, <1>4, <1>5 DEF RejectActive, t, v

LEMMA FailSettles ==
  ASSUME NEW s \in SesType, SarpFits(s, s.active)
  PROVE  LET t == FailReady(s)
         IN  /\ t \in SesType /\ SarpFits(t, t.active) /\ Settles(s, t) /\ NoneCancelled(s, t)
             /\ t.active = s.active /\ t.ready # "pending" /\ t.stopped = s.stopped /\ t.proc = s.proc
             /\ s.ready # "closed" => t.ready # "closed"
             /\ s.ready = "pending" => t.active = NoTurn
             /\ t.pipe = s.pipe
<1> DEFINE t == FailReady(s)
<1>1. CASE s.ready # "pending"
  <2>1. t = s
    BY <1>1 DEF FailReady
  <2>2. QED
    BY <1>1, <2>1 DEF Settles, NoneCancelled
<1>2. CASE s.ready = "pending"
  <2> DEFINE calls == [c \in Send |-> IF s.call[c] = "waiting" THEN "rejected" ELSE s.call[c]]
  <2>1. t = [s EXCEPT !.ready = "failed", !.call = calls]
    BY <1>2 DEF FailReady
  <2>2. /\ calls \in [Send -> CallState]
        /\ \A c \in Send : /\ calls[c] # "waiting" /\ (calls[c] = "open" <=> s.call[c] = "open")
                           /\ calls[c] = s.call[c] \/ (s.call[c] = "waiting" /\ calls[c] = "rejected")
    BY DEF SesType, CallState
  <2> HIDE DEF calls
  <2>3. /\ t \in SesType /\ t.call = calls /\ t.ready = "failed"
        /\ t.answer = s.answer /\ t.active = s.active /\ t.proc = s.proc /\ t.timers = s.timers
        /\ t.stopped = s.stopped /\ t.pipe = s.pipe
    BY <2>1, <2>2 DEF SesType
  <2> HIDE DEF t
  <2>4. s.active = NoTurn /\ \A k \in Cancel : s.answer[k] # "waiting"
    BY <1>2 DEF SarpFits
  <2>5. SarpFits(t, t.active)
    BY <1>2, <2>2, <2>3, <2>4 DEF SarpFits
  <2>6. Settles(s, t) /\ NoneCancelled(s, t)
    BY <2>2, <2>3 DEF Settles, NoneCancelled
  <2>7. QED
    BY <1>2, <2>3, <2>4, <2>5, <2>6 DEF t
<1>3. QED
  BY <1>1, <1>2

LEMMA CleanupSettles ==
  ASSUME NEW s \in SesType, NEW turn, SarpFits(s, turn), s.ready # "pending",
         s.active = NoTurn \/ (s.stopped /\ ~s.pipe), NEW o \in {"none", "up", "terminating", "gone"}
  PROVE  LET t == [CleanupDeadProc(s) EXCEPT !.os = o]
         IN  /\ t \in SesType /\ SarpFits(t, turn) /\ t.call = s.call /\ t.answer = s.answer
             /\ t.active = s.active
<1> DEFINE t == [CleanupDeadProc(s) EXCEPT !.os = o]
<1>1. /\ t \in SesType /\ t.call = s.call /\ t.answer = s.answer /\ t.active = s.active
      /\ t.ready = s.ready /\ ~t.proc /\ t.timers = {} /\ t.stopped = s.stopped /\ t.pipe = s.pipe
  BY DEF SesType, CleanupDeadProc
<1> HIDE DEF t
<1>2. SarpFits(t, turn)
  BY <1>1 DEF SarpFits
<1>3. QED
  BY <1>1, <1>2 DEF t

LEMMA KillSettles ==
  ASSUME NEW s \in SesType, SarpFits(s, NoTurn), s.ready # "pending", s.active = NoTurn
  PROVE  LET t == KillProcess(s)
         IN  /\ t \in SesType /\ SarpFits(t, NoTurn) /\ t.call = s.call /\ t.answer = s.answer
             /\ t.active = NoTurn
<1> DEFINE o == IF s.proc THEN "gone" ELSE s.os
<1>1. o \in {"none", "up", "terminating", "gone"}
  BY DEF SesType
<1>2. KillProcess(s) = [CleanupDeadProc(s) EXCEPT !.os = o]
  BY DEF KillProcess, CleanupDeadProc, SesType
<1> HIDE DEF o
<1> DEFINE t == [CleanupDeadProc(s) EXCEPT !.os = o]
<1>3. /\ t \in SesType /\ SarpFits(t, NoTurn) /\ t.call = s.call /\ t.answer = s.answer
      /\ t.active = s.active
  BY <1>1, CleanupSettles
<1> HIDE DEF t
<1>4. KillProcess(s) = t
  BY <1>2 DEF t
<1>5. QED
  BY <1>3, <1>4
\* The steps of a stop: the turn is settled, or nothing can be written to the worker.
LEMMA SigtermSettles ==
  ASSUME NEW s \in SesType, NEW turn, SarpFits(s, turn), s.stopped, s.active = NoTurn \/ ~s.pipe
  PROVE  LET t == SigtermPhase(s)
         IN  /\ t \in SesType /\ SarpFits(t, turn) /\ t.call = s.call /\ t.answer = s.answer
             /\ t.active = s.active /\ t.proc = s.proc
<1> DEFINE t == SigtermPhase(s)
<1>1. CASE s.sigtermSent
  BY <1>1 DEF SigtermPhase
<1>2. CASE ~s.sigtermSent
  <2>1. t \in SesType
    BY <1>2 DEF SigtermPhase, SesType, StopTimers
  <2>2. /\ t.call = s.call /\ t.answer = s.answer /\ t.active = s.active /\ t.proc = s.proc
        /\ t.ready = s.ready /\ t.stopped = s.stopped /\ t.pipe = s.pipe
        /\ (t.timers = s.timers \ StopTimers /\ ~s.proc)
             \/ (t.timers = (s.timers \ StopTimers) \cup {"kill"} /\ s.proc)
    BY <1>2 DEF SigtermPhase, SesType
  <2> HIDE DEF t
  <2>3. "startup" \notin StopTimers
    BY DEF StopTimers
  <2>4. SarpFits(t, turn)
    BY <2>2, <2>3 DEF SarpFits
  <2>5. QED
    BY <2>1, <2>2, <2>4 DEF t
<1>3. QED
  BY <1>1, <1>2

LEMMA ShutdownSettles ==
  ASSUME NEW s \in SesType, NEW turn, SarpFits(s, turn), s.active = NoTurn \/ ~s.pipe
  PROVE  LET t == ProceedShutdown(s)
         IN  /\ t \in SesType /\ SarpFits(t, turn) /\ t.call = s.call /\ t.answer = s.answer
             /\ t.active = s.active /\ t.proc = s.proc
<1> DEFINE t == ProceedShutdown(s)
           v == [s EXCEPT !.shutdownSent = TRUE, !.timers = @ \ StopTimers]
<1>1. CASE ~s.stopped \/ s.shutdownSent
  BY <1>1 DEF ProceedShutdown
<1>2. CASE ~(~s.stopped \/ s.shutdownSent)
  <2>1. /\ v \in SesType /\ v.call = s.call /\ v.answer = s.answer /\ v.active = s.active
        /\ v.proc = s.proc /\ v.ready = s.ready /\ v.stopped /\ s.stopped /\ v.pipe = s.pipe
        /\ v.timers = s.timers \ StopTimers
    BY <1>2 DEF SesType
  <2>2. t = IF ~v.proc THEN v ELSE IF CanWrite(v) THEN [v EXCEPT !.timers = @ \cup {"shutdown"}]
            ELSE SigtermPhase(v)
    BY <1>2 DEF ProceedShutdown
  <2> HIDE DEF v, t
  <2>3. SarpFits(v, turn)
    BY <2>1 DEF SarpFits, StopTimers
  <2>4. CASE ~v.proc
    BY <2>1, <2>2, <2>3, <2>4 DEF t
  <2>5. CASE v.proc /\ CanWrite(v)
    <3>1. t = [v EXCEPT !.timers = @ \cup {"shutdown"}]
      BY <2>2, <2>5
    <3>2. /\ t \in SesType /\ t.call = v.call /\ t.answer = v.answer /\ t.active = v.active
          /\ t.proc = v.proc /\ t.ready = v.ready /\ t.stopped = v.stopped /\ t.pipe = v.pipe
          /\ t.timers = v.timers \cup {"shutdown"}
      BY <2>1, <3>1 DEF SesType, StopTimers
    <3>3. SarpFits(t, turn)
      BY <2>1, <2>3, <2>5, <3>2 DEF SarpFits, StopTimers
    <3>4. QED
      BY <2>1, <3>2, <3>3 DEF t
  <2>6. CASE v.proc /\ ~CanWrite(v)
    <3>1. t = SigtermPhase(v)
      BY <2>2, <2>6
    <3>2. QED
      BY <2>1, <2>3, <3>1, SigtermSettles DEF t
  <2>7. QED
    BY <2>4, <2>5, <2>6
<1>3. QED
  BY <1>1, <1>2

LEMMA ClearSettles ==
  ASSUME NEW s \in SesType, NEW turn, SarpFits(s, turn)
  PROVE  LET t == ClearActiveTurn(s)
         IN  /\ t \in SesType /\ SarpFits(t, turn) /\ t.call = s.call /\ t.answer = s.answer
             /\ t.active = NoTurn /\ t.proc = s.proc
<1> DEFINE v == [s EXCEPT !.active = NoTurn, !.timers = @ \ {"silence"}]
           t == ProceedShutdown(v)
<1>1. /\ v \in SesType /\ v.call = s.call /\ v.answer = s.answer /\ v.active = NoTurn
      /\ v.proc = s.proc /\ v.ready = s.ready /\ v.stopped = s.stopped /\ v.pipe = s.pipe
      /\ v.timers = s.timers \ {"silence"}
  BY DEF SesType
<1> HIDE DEF v
<1>2. SarpFits(v, turn)
  BY <1>1 DEF SarpFits, StopTimers
<1>3. /\ t \in SesType /\ SarpFits(t, turn) /\ t.call = v.call /\ t.answer = v.answer
      /\ t.active = v.active /\ t.proc = v.proc
  BY <1>1, <1>2, ShutdownSettles
<1> HIDE DEF t
<1>4. ClearActiveTurn(s) = t
  BY DEF ClearActiveTurn, t, v
<1>5. QED
  BY <1>1, <1>3, <1>4

\* The worker is taken for broken: whoever waits is refused, and it is killed.
LEMMA ViolateSettles ==
  ASSUME NEW s \in SesType, SarpFits(s, s.active)
  PROVE  LET t == Violate(s)
         IN  /\ t \in SesType /\ SarpFits(t, NoTurn) /\ Settles(s, t) /\ NoneCancelled(s, t)
             /\ t.active = NoTurn
<1> DEFINE u == FailReady(s)
           v == RejectActive(u)
           t == KillProcess(v)
<1>1. /\ u \in SesType /\ SarpFits(u, u.active) /\ Settles(s, u) /\ NoneCancelled(s, u)
      /\ u.ready # "pending"
  BY FailSettles
<1> HIDE DEF u
<1>2. /\ v \in SesType /\ SarpFits(v, NoTurn) /\ Settles(u, v) /\ NoneCancelled(u, v)
      /\ v.active = NoTurn /\ v.ready = u.ready
  BY <1>1, RejectSettles
<1> HIDE DEF v
<1>3. /\ t \in SesType /\ SarpFits(t, NoTurn) /\ t.call = v.call /\ t.answer = v.answer
      /\ t.active = NoTurn
  BY <1>1, <1>2, KillSettles
<1> HIDE DEF t
<1>4. Settles(s, t) /\ NoneCancelled(s, t)
  <2>1. /\ \A c \in Send : t.call[c] = v.call[c]
        /\ \A k \in Cancel : t.answer[k] = v.answer[k]
    BY <1>3
  <2>2. Settles(s, t)
    BY <1>1, <1>2, <2>1 DEF Settles
  <2>3. NoneCancelled(s, t)
    BY <1>1, <1>2, <2>1 DEF NoneCancelled
  <2>4. QED
    BY <2>2, <2>3
<1>5. Violate(s) = t
  BY DEF Violate, t, v, u
<1>6. QED
  BY <1>3, <1>4, <1>5

\* A turn is rejected and the worker killed.
LEMMA RejectAndKillSettles ==
  ASSUME NEW s \in SesType, SarpFits(s, s.active), s.ready # "pending"
  PROVE  LET t == KillProcess(RejectActive(s))
         IN  /\ t \in SesType /\ SarpFits(t, NoTurn) /\ Settles(s, t) /\ NoneCancelled(s, t)
             /\ t.active = NoTurn
<1> DEFINE v == RejectActive(s)
           t == KillProcess(v)
<1>1. /\ v \in SesType /\ SarpFits(v, NoTurn) /\ Settles(s, v) /\ NoneCancelled(s, v)
      /\ v.active = NoTurn /\ v.ready = s.ready
  BY RejectSettles
<1> HIDE DEF v
<1>2. /\ t \in SesType /\ SarpFits(t, NoTurn) /\ t.call = v.call /\ t.answer = v.answer
      /\ t.active = NoTurn
  BY <1>1, KillSettles
<1> HIDE DEF t
<1>3. Settles(s, t) /\ NoneCancelled(s, t)
  BY <1>1, <1>2 DEF Settles, NoneCancelled
<1>4. QED
  BY <1>2, <1>3 DEF t, v

\* No handshake any more.
LEMMA FailAndKillSettles ==
  ASSUME NEW s \in SesType, SarpFits(s, s.active), s.ready = "pending"
  PROVE  LET t == KillProcess(FailReady(s))
         IN  /\ t \in SesType /\ SarpFits(t, NoTurn) /\ Settles(s, t) /\ NoneCancelled(s, t)
             /\ t.active = NoTurn
<1> DEFINE v == FailReady(s)
           t == KillProcess(v)
<1>1. /\ v \in SesType /\ SarpFits(v, v.active) /\ Settles(s, v) /\ NoneCancelled(s, v)
      /\ v.active = NoTurn /\ v.ready # "pending"
  BY FailSettles
<1> HIDE DEF v
<1>2. /\ t \in SesType /\ SarpFits(t, NoTurn) /\ t.call = v.call /\ t.answer = v.answer
      /\ t.active = NoTurn
  BY <1>1, KillSettles
<1> HIDE DEF t
<1>3. Settles(s, t) /\ NoneCancelled(s, t)
  BY <1>1, <1>2 DEF Settles, NoneCancelled
<1>4. QED
  BY <1>2, <1>3 DEF t, v

\* What a step must be: the session fits again, each call has moved as the contract has it,
\* and "cancelled" is said only where the worker lives on.
CallsMove(s, t) ==
  \A c \in Send :
    \/ t.call[c] = s.call[c]
    \/ s.call[c] = "unsent" /\ t.call[c] \in {"waiting", "rejected"}
    \/ s.call[c] = "waiting" /\ t.call[c] \in {"open", "rejected"}
    \/ s.call[c] = "open" /\ t.call[c] \in {"resolved", "rejected"}
CancelIsTrue(s, t) == NoneCancelled(s, t) \/ (t.proc /\ t.active = NoTurn)
GoesOn(s, t) ==
  t \in SesType /\ SarpFits(t, t.active) /\ CallsMove(s, t) /\ CancelIsTrue(s, t)

LEMMA SettledGoesOn ==
  ASSUME NEW s, NEW t \in SesType, SarpFits(t, t.active), Settles(s, t), CancelIsTrue(s, t)
  PROVE  GoesOn(s, t)
BY DEF GoesOn, Settles, CallsMove

\* A session of which only other things changed.
LEMMA OthersGoOn ==
  ASSUME NEW s, NEW t \in SesType, SarpFits(t, t.active), t.call = s.call, t.answer = s.answer
  PROVE  GoesOn(s, t)
BY DEF GoesOn, CallsMove, CancelIsTrue, NoneCancelled

\* The frames of a turn.
LEMMA TurnFrameGoesOn ==
  ASSUME NEW s \in SesType, SarpFits(s, s.active), s.proc, NEW frame \in TurnFrames
  PROVE  GoesOn(s, TurnFrame(s, frame))
<1>1. CASE s.active = NoTurn \/ frame \in {"stray", "endBadInterrupt"}
  <2> DEFINE t == Violate(s)
  <2>1. TurnFrame(s, frame) = t
    BY <1>1 DEF TurnFrame
  <2>2. t \in SesType /\ SarpFits(t, NoTurn) /\ Settles(s, t) /\ NoneCancelled(s, t) /\ t.active = NoTurn
    BY ViolateSettles
  <2> HIDE DEF t
  <2>3. QED
    BY <2>1, <2>2, SettledGoesOn DEF CancelIsTrue
<1>2. ASSUME NEW outcome \in {"resolved", "rejected"}
      PROVE  GoesOn(s, SettleCall(ClearActiveTurn(s), s.active, outcome))
  <2>1. PICK turn \in Send \cup {NoTurn} : turn = s.active
    BY DEF SesType
  <2> DEFINE v == ClearActiveTurn(s)
             t == SettleCall(v, turn, outcome)
  <2>2. /\ v \in SesType /\ SarpFits(v, turn) /\ v.call = s.call /\ v.answer = s.answer
        /\ v.active = NoTurn /\ v.proc = s.proc
    BY <2>1, ClearSettles
  <2> HIDE DEF v
  <2>3. /\ t \in SesType /\ SarpFits(t, NoTurn) /\ Settles(v, t)
        /\ t.active = v.active /\ t.proc = v.proc
    BY <2>1, <2>2, SettleSettles
  <2> HIDE DEF t
  <2>4. t.active = NoTurn /\ t.proc
    BY <2>2, <2>3
  <2>5. Settles(s, t)
    BY <2>2, <2>3 DEF Settles
  <2>6. GoesOn(s, t)
    BY <2>3, <2>4, <2>5, SettledGoesOn DEF CancelIsTrue
  <2>7. QED
    BY <2>1, <2>6 DEF t, v
<1>3. CASE /\ ~(s.active = NoTurn \/ frame \in {"stray", "endBadInterrupt"})
           /\ frame \in {"endSuccess", "endInterrupted", "endCancelled"}
  <2>1. TurnFrame(s, frame) = SettleCall(ClearActiveTurn(s), s.active, "resolved")
    BY <1>3 DEF TurnFrame
  <2>2. QED
    BY <1>2, <2>1
<1>4. CASE /\ ~(s.active = NoTurn \/ frame \in {"stray", "endBadInterrupt"})
           /\ frame \in {"endEmpty", "endError"}
  <2>1. TurnFrame(s, frame) = SettleCall(ClearActiveTurn(s), s.active, "rejected")
    BY <1>4 DEF TurnFrame
  <2>2. QED
    BY <1>2, <2>1
<1>5. CASE ~(s.active = NoTurn) /\ frame = "progress"
  <2>1. TurnFrame(s, frame) = s
    BY <1>5 DEF TurnFrame
  <2>2. QED
    BY <2>1, OthersGoOn
<1>6. QED
  BY <1>1, <1>3, <1>4, <1>5 DEF TurnFrames

\* Any other frame, by how far the session has come.
LEMMA StoppingFrameGoesOn ==
  ASSUME NEW s \in SesType, SarpFits(s, s.active), s.proc, s.stopped, NEW frame \in Frames
  PROVE  GoesOn(s, FrameWhileStopping(s, frame))
<1>1. CASE frame = "runtimeStopped"
  <2> DEFINE v == RejectActive(s)
             t == SigtermPhase(v)
  <2>1. /\ v \in SesType /\ SarpFits(v, NoTurn) /\ Settles(s, v) /\ NoneCancelled(s, v)
        /\ v.active = NoTurn /\ v.stopped
    BY RejectSettles
  <2> HIDE DEF v
  <2>2. /\ t \in SesType /\ SarpFits(t, NoTurn) /\ t.call = v.call /\ t.answer = v.answer
        /\ t.active = NoTurn
    BY <2>1, SigtermSettles
  <2> HIDE DEF t
  <2>3. Settles(s, t) /\ NoneCancelled(s, t)
    BY <2>1, <2>2 DEF Settles, NoneCancelled
  <2>4. GoesOn(s, t)
    BY <2>2, <2>3, SettledGoesOn DEF CancelIsTrue
  <2>5. FrameWhileStopping(s, frame) = t
    BY <1>1 DEF FrameWhileStopping, TurnFrames, t, v
  <2>6. QED
    BY <2>4, <2>5
<1>2. CASE frame # "runtimeStopped" /\ frame \in TurnFrames /\ s.active # NoTurn
  <2>1. FrameWhileStopping(s, frame) = TurnFrame(s, frame)
    BY <1>2 DEF FrameWhileStopping
  <2>2. QED
    BY <1>2, <2>1, TurnFrameGoesOn
<1>3. CASE frame # "runtimeStopped" /\ ~(frame \in TurnFrames /\ s.active # NoTurn)
  <2>1. FrameWhileStopping(s, frame) = s
    BY <1>3 DEF FrameWhileStopping
  <2>2. QED
    BY <2>1, OthersGoOn
<1>4. QED
  BY <1>1, <1>2, <1>3

LEMMA HandshakeFrameGoesOn ==
  ASSUME NEW s \in SesType, SarpFits(s, s.active), s.proc, s.ready = "pending", NEW frame \in Frames
  PROVE  GoesOn(s, HandshakeFrame(s, frame))
<1>1. CASE frame = "ready"
  <2> DEFINE t == [s EXCEPT !.ready = "ready", !.timers = @ \ {"startup"}]
  <2>1. HandshakeFrame(s, frame) = t
    BY <1>1 DEF HandshakeFrame
  <2>2. /\ t \in SesType /\ t.call = s.call /\ t.answer = s.answer /\ t.active = s.active
        /\ t.proc = s.proc /\ t.ready = "ready" /\ t.stopped = s.stopped /\ t.pipe = s.pipe
        /\ t.timers = s.timers \ {"startup"}
    BY DEF SesType
  <2> HIDE DEF t
  <2>3. SarpFits(t, t.active)
    BY <2>2 DEF SarpFits, StopTimers
  <2>4. QED
    BY <2>1, <2>2, <2>3, OthersGoOn
<1>2. CASE frame \in {"badReady", "runtimeError", "runtimeStopped"}
  <2> DEFINE t == KillProcess(FailReady(s))
  <2>1. HandshakeFrame(s, frame) = t
    BY <1>2 DEF HandshakeFrame
  <2>2. t \in SesType /\ SarpFits(t, NoTurn) /\ Settles(s, t) /\ NoneCancelled(s, t) /\ t.active = NoTurn
    BY FailAndKillSettles
  <2> HIDE DEF t
  <2>3. QED
    BY <2>1, <2>2, SettledGoesOn DEF CancelIsTrue
<1>3. CASE frame = "warning"
  <2>1. HandshakeFrame(s, frame) = s
    BY <1>3 DEF HandshakeFrame
  <2>2. QED
    BY <2>1, OthersGoOn
<1>4. CASE frame \notin {"ready", "badReady", "runtimeError", "runtimeStopped", "warning"}
  <2> DEFINE t == Violate(s)
  <2>1. HandshakeFrame(s, frame) = t
    BY <1>4 DEF HandshakeFrame
  <2>2. t \in SesType /\ SarpFits(t, NoTurn) /\ Settles(s, t) /\ NoneCancelled(s, t) /\ t.active = NoTurn
    BY ViolateSettles
  <2> HIDE DEF t
  <2>3. QED
    BY <2>1, <2>2, SettledGoesOn DEF CancelIsTrue
<1>5. QED
  BY <1>1, <1>2, <1>3, <1>4

LEMMA ReadyFrameGoesOn ==
  ASSUME NEW s \in SesType, SarpFits(s, s.active), s.proc, s.ready # "pending", NEW frame \in Frames,
         frame # "garbage"
  PROVE  GoesOn(s, ReadyFrame(s, frame))
<1>1. CASE frame \in {"ready", "badReady"} \/ (frame = "runtimeStopped" /\ s.active # NoTurn)
  <2> DEFINE t == Violate(s)
  <2>1. ReadyFrame(s, frame) = t
    BY <1>1 DEF ReadyFrame
  <2>2. t \in SesType /\ SarpFits(t, NoTurn) /\ Settles(s, t) /\ NoneCancelled(s, t) /\ t.active = NoTurn
    BY ViolateSettles
  <2> HIDE DEF t
  <2>3. QED
    BY <2>1, <2>2, SettledGoesOn DEF CancelIsTrue
<1>2. CASE frame = "runtimeStopped" /\ s.active = NoTurn
  <2> DEFINE t == KillProcess(s)
  <2>1. ReadyFrame(s, frame) = t
    BY <1>2 DEF ReadyFrame
  <2>2. /\ t \in SesType /\ SarpFits(t, NoTurn) /\ t.call = s.call /\ t.answer = s.answer
        /\ t.active = NoTurn
    BY <1>2, KillSettles
  <2> HIDE DEF t
  <2>3. QED
    BY <2>1, <2>2, OthersGoOn
<1>3. CASE frame = "runtimeError"
  <2> DEFINE t == KillProcess(RejectActive(s))
  <2>1. ReadyFrame(s, frame) = t
    BY <1>3 DEF ReadyFrame
  <2>2. t \in SesType /\ SarpFits(t, NoTurn) /\ Settles(s, t) /\ NoneCancelled(s, t) /\ t.active = NoTurn
    BY RejectAndKillSettles
  <2> HIDE DEF t
  <2>3. QED
    BY <2>1, <2>2, SettledGoesOn DEF CancelIsTrue
<1>4. CASE frame = "warning"
  <2>1. ReadyFrame(s, frame) = s
    BY <1>4 DEF ReadyFrame
  <2>2. QED
    BY <2>1, OthersGoOn
<1>5. CASE frame \in TurnFrames
  <2>1. frame \notin {"ready", "badReady", "runtimeStopped", "runtimeError", "warning"}
    BY <1>5 DEF TurnFrames
  <2>2. ReadyFrame(s, frame) = TurnFrame(s, frame)
    BY <2>1 DEF ReadyFrame
  <2>3. QED
    BY <1>5, <2>2, TurnFrameGoesOn
<1>6. QED
  BY <1>1, <1>2, <1>3, <1>4, <1>5 DEF Frames

\* onFrame: it prolongs the turn first.
LEMMA ReceivedGoesOn ==
  ASSUME NEW s \in SesType, SarpFits(s, s.active), s.proc, NEW frame \in Frames
  PROVE  GoesOn(s, Received(s, frame))
<1> DEFINE v == Prolonged(s)
<1>1. /\ v \in SesType /\ v.call = s.call /\ v.answer = s.answer /\ v.active = s.active
      /\ v.proc = s.proc /\ v.ready = s.ready /\ v.stopped = s.stopped /\ v.pipe = s.pipe
      /\ v.timers \in {s.timers, s.timers \cup {"silence"}}
  BY DEF SesType, Prolonged
<1> HIDE DEF v
<1>2. SarpFits(v, v.active)
  BY <1>1 DEF SarpFits, StopTimers
<1>3. ASSUME NEW t, GoesOn(v, t) PROVE GoesOn(s, t)
  BY <1>1, <1>3 DEF GoesOn, CallsMove, CancelIsTrue, NoneCancelled
<1>4. CASE frame = "garbage"
  <2> DEFINE t == Violate(s)
  <2>1. Received(s, frame) = t
    BY <1>4 DEF Received
  <2>2. t \in SesType /\ SarpFits(t, NoTurn) /\ Settles(s, t) /\ NoneCancelled(s, t) /\ t.active = NoTurn
    BY ViolateSettles
  <2> HIDE DEF t
  <2>3. QED
    BY <2>1, <2>2, SettledGoesOn DEF CancelIsTrue
<1>5. CASE frame # "garbage" /\ s.stopped
  <2>1. Received(s, frame) = FrameWhileStopping(v, frame)
    BY <1>5 DEF Received, v
  <2>2. QED
    BY <1>1, <1>2, <1>3, <1>5, <2>1, StoppingFrameGoesOn
<1>6. CASE frame # "garbage" /\ ~s.stopped /\ s.ready = "pending"
  <2>1. Received(s, frame) = HandshakeFrame(v, frame)
    BY <1>6 DEF Received, v
  <2>2. QED
    BY <1>1, <1>2, <1>3, <1>6, <2>1, HandshakeFrameGoesOn
<1>7. CASE frame # "garbage" /\ ~s.stopped /\ s.ready # "pending"
  <2>1. Received(s, frame) = ReadyFrame(v, frame)
    BY <1>7 DEF Received, v
  <2>2. QED
    BY <1>1, <1>2, <1>3, <1>7, <2>1, ReadyFrameGoesOn
<1>8. QED
  BY <1>4, <1>5, <1>6, <1>7 DEF SesType

\* The constructor.
LEMMA OpenSessionGoesOn ==
  ASSUME SarpInv, OpenSession
  PROVE  GoesOn(ses, ses')
<1>1. /\ ses \in SesType /\ ses.ready = "closed" /\ ~ses.proc /\ ~ses.stopped /\ ses.timers = {}
      /\ ses.active = NoTurn /\ SarpFits(ses, NoTurn)
  BY DEF SarpInv, SarpFits, OpenSession
<1>2. CASE ses' = [ses EXCEPT !.ready = "failed"]
  <2>1. /\ ses' \in SesType /\ ses'.call = ses.call /\ ses'.answer = ses.answer
        /\ ses'.active = ses.active /\ ses'.timers = {} /\ ses'.ready = "failed"
    BY <1>1, <1>2 DEF SesType
  <2>2. SarpFits(ses', ses'.active)
    BY <1>1, <2>1 DEF SarpFits
  <2>3. QED
    BY <2>1, <2>2, OthersGoOn
<1>3. CASE ses' = KillProcess([ses EXCEPT !.ready = "failed", !.proc = TRUE])
  <2> DEFINE v == [ses EXCEPT !.ready = "failed", !.proc = TRUE]
  <2>1. /\ v \in SesType /\ v.call = ses.call /\ v.answer = ses.answer
        /\ v.active = NoTurn /\ v.timers = {} /\ v.ready = "failed"
    BY <1>1 DEF SesType
  <2> HIDE DEF v
  <2>2. SarpFits(v, NoTurn)
    BY <1>1, <2>1 DEF SarpFits
  <2>3. /\ KillProcess(v) \in SesType /\ SarpFits(KillProcess(v), NoTurn)
        /\ KillProcess(v).call = v.call /\ KillProcess(v).answer = v.answer
        /\ KillProcess(v).active = NoTurn
    BY <2>1, <2>2, KillSettles
  <2>4. QED
    BY <1>3, <2>1, <2>3, OthersGoOn DEF v
<1>4. CASE ses' = [ses EXCEPT !.ready = "pending", !.proc = TRUE, !.os = "up", !.timers = {"startup"}]
  <2>1. /\ ses' \in SesType /\ ses'.call = ses.call /\ ses'.answer = ses.answer
        /\ ses'.active = NoTurn /\ ses'.timers = {"startup"} /\ ses'.ready = "pending"
        /\ ses'.proc /\ ~ses'.stopped
    BY <1>1, <1>4 DEF SesType
  <2>2. SarpFits(ses', ses'.active)
    BY <1>1, <2>1 DEF SarpFits, StopTimers
  <2>3. QED
    BY <2>1, <2>2, OthersGoOn
<1>5. QED
  BY <1>2, <1>3, <1>4 DEF OpenSession

\* send(), before and after the handshake.
LEMMA CallSendGoesOn ==
  ASSUME SarpInv, NEW c \in Send, CallSend(c)
  PROVE  GoesOn(ses, ses')
<1> DEFINE o == IF ses.stopped \/ ses.ready = "failed" THEN "rejected" ELSE "waiting"
           calls == [ses.call EXCEPT ![c] = o]
<1>1. /\ ses \in SesType /\ SarpFits(ses, ses.active) /\ ses.call[c] = "unsent"
      /\ ses.ready # "closed" /\ ses' = [ses EXCEPT !.call = calls]
      /\ ses.call \in [Send -> CallState] /\ ses.ready \in {"closed", "pending", "ready", "failed"}
  BY DEF SarpInv, CallSend, SesType
<1>2. /\ calls \in [Send -> CallState] /\ calls[c] = o
      /\ \A d \in Send : d # c => calls[d] = ses.call[d]
  BY <1>1 DEF CallState
<1>3. o \in {"waiting", "rejected"} /\ (o = "waiting" => ses.ready \in {"pending", "ready"})
  BY <1>1
<1> HIDE DEF calls, o
<1>4. /\ ses' \in SesType /\ ses'.call = calls /\ ses'.answer = ses.answer
      /\ ses'.active = ses.active /\ ses'.ready = ses.ready /\ ses'.proc = ses.proc
      /\ ses'.stopped = ses.stopped /\ ses'.pipe = ses.pipe /\ ses'.timers = ses.timers
  BY <1>1, <1>2 DEF SesType
<1>5. SarpFits(ses', ses'.active)
  BY <1>1, <1>2, <1>3, <1>4 DEF SarpFits
<1>6. CallsMove(ses, ses') /\ CancelIsTrue(ses, ses')
  BY <1>1, <1>2, <1>3, <1>4 DEF CallsMove, CancelIsTrue, NoneCancelled
<1>7. QED
  BY <1>4, <1>5, <1>6 DEF GoesOn

LEMMA SendContinuesGoesOn ==
  ASSUME SarpInv, NEW c \in Send, SendContinues(c)
  PROVE  GoesOn(ses, ses')
<1>1. /\ ses \in SesType /\ SarpFits(ses, ses.active) /\ ses.call[c] = "waiting"
      /\ ses.ready = "ready" /\ ses.call \in [Send -> CallState]
  BY DEF SarpInv, SendContinues, SesType
<1>2. ASSUME NEW o \in {"rejected", "open"}
      PROVE  LET calls == [ses.call EXCEPT ![c] = o]
             IN  /\ calls \in [Send -> CallState] /\ calls[c] = o
                 /\ \A d \in Send : d # c => calls[d] = ses.call[d]
  BY <1>1 DEF CallState
<1> DEFINE calls == [ses.call EXCEPT ![c] = "rejected"]
           opened == [ses.call EXCEPT ![c] = "open"]
           refused == [ses EXCEPT !.call = calls]
           begun == [ses EXCEPT !.active = c, !.cancelSent = FALSE,
                                !.timers = @ \cup {"silence"}, !.call = opened]
<1>3. ses' = IF ses.stopped \/ ses.active # NoTurn \/ ~ses.proc THEN refused
             ELSE IF ~CanWrite(ses) THEN KillProcess(refused) ELSE begun
  BY DEF SendContinues
<1>4. /\ calls \in [Send -> CallState] /\ calls[c] = "rejected"
      /\ \A d \in Send : d # c => calls[d] = ses.call[d]
  BY <1>2
<1>5. /\ opened \in [Send -> CallState] /\ opened[c] = "open"
      /\ \A d \in Send : d # c => opened[d] = ses.call[d]
  BY <1>2
<1> HIDE DEF calls, opened
<1>6. /\ refused \in SesType /\ refused.call = calls /\ refused.answer = ses.answer
      /\ refused.active = ses.active /\ refused.ready = ses.ready /\ refused.proc = ses.proc
      /\ refused.stopped = ses.stopped /\ refused.pipe = ses.pipe /\ refused.timers = ses.timers
  BY <1>1, <1>4 DEF SesType
<1>7. /\ begun \in SesType /\ begun.call = opened /\ begun.answer = ses.answer
      /\ begun.active = c /\ begun.ready = ses.ready /\ begun.proc = ses.proc
      /\ begun.stopped = ses.stopped /\ begun.pipe = ses.pipe
      /\ begun.timers = ses.timers \cup {"silence"}
  BY <1>1, <1>5 DEF SesType, StopTimers
<1> HIDE DEF refused, begun
<1>8. SarpFits(refused, refused.active) /\ CallsMove(ses, refused) /\ NoneCancelled(ses, refused)
  BY <1>1, <1>4, <1>6 DEF SarpFits, CallsMove, NoneCancelled
<1>9. CASE ses.stopped \/ ses.active # NoTurn \/ ~ses.proc
  BY <1>3, <1>6, <1>8, <1>9 DEF GoesOn, CancelIsTrue
<1>10. CASE ~(ses.stopped \/ ses.active # NoTurn \/ ~ses.proc) /\ ~CanWrite(ses)
  <2>1. refused.active = NoTurn /\ refused.ready # "pending" /\ SarpFits(refused, NoTurn)
    BY <1>1, <1>6, <1>8, <1>10
  <2> DEFINE t == KillProcess(refused)
  <2>2. /\ t \in SesType /\ SarpFits(t, NoTurn) /\ t.call = refused.call
        /\ t.answer = refused.answer /\ t.active = NoTurn
    BY <1>6, <2>1, KillSettles
  <2>3. ses' = t
    BY <1>3, <1>10
  <2> HIDE DEF t
  <2>4. QED
    BY <1>8, <2>2, <2>3 DEF GoesOn, CallsMove, CancelIsTrue, NoneCancelled
<1>11. CASE ~(ses.stopped \/ ses.active # NoTurn \/ ~ses.proc) /\ CanWrite(ses)
  <2>1. ses' = begun
    BY <1>3, <1>11
  <2>2. \A d \in Send : ses.call[d] # "open"
    BY <1>1, <1>11, SarpAssumption DEF SarpFits
  <2>3. \A d \in Send : begun.call[d] = "open" <=> d = begun.active
    BY <1>5, <1>7, <2>2
  <2>4. SarpFits(begun, begun.active)
    BY <1>1, <1>5, <1>7, <1>11, <2>3 DEF SarpFits, StopTimers
  <2>5. CallsMove(ses, begun) /\ NoneCancelled(ses, begun)
    BY <1>1, <1>5, <1>7 DEF CallsMove, NoneCancelled
  <2>6. QED
    BY <1>7, <2>1, <2>4, <2>5 DEF GoesOn, CancelIsTrue
<1>12. QED
  BY <1>9, <1>10, <1>11

\* cancelTurn(), and its ten seconds.
LEMMA CancelTurnGoesOn ==
  ASSUME SarpInv, NEW k \in Cancel, CancelTurn(k)
  PROVE  GoesOn(ses, ses')
<1>1. ses \in SesType /\ SarpFits(ses, ses.active) /\ ses.answer \in [Cancel -> AnswerState]
  BY DEF SarpInv, SesType
<1>2. ASSUME NEW s \in SesType, SarpFits(s, s.active), NEW a \in {"idle", "waiting", "killed"},
             a = "waiting" => s.ready = "ready"
      PROVE  LET t == [s EXCEPT !.answer[k] = a]
             IN  /\ t \in SesType /\ SarpFits(t, t.active) /\ t.call = s.call /\ NoneCancelled(s, t)
  <2> DEFINE answers == [s.answer EXCEPT ![k] = a]
             t == [s EXCEPT !.answer = answers]
  <2>1. s.answer \in [Cancel -> AnswerState]
    BY DEF SesType
  <2>2. /\ answers \in [Cancel -> AnswerState] /\ answers[k] = a
        /\ \A j \in Cancel : j # k => answers[j] = s.answer[j]
    BY <2>1 DEF AnswerState
  <2> HIDE DEF answers
  <2>3. /\ t \in SesType /\ t.answer = answers /\ t.call = s.call
        /\ t.active = s.active /\ t.ready = s.ready /\ t.proc = s.proc
        /\ t.stopped = s.stopped /\ t.pipe = s.pipe /\ t.timers = s.timers
    BY <2>2 DEF SesType
  <2> HIDE DEF t
  <2>4. SarpFits(t, t.active) /\ NoneCancelled(s, t)
    BY <1>2, <2>2, <2>3 DEF SarpFits, NoneCancelled
  <2>5. QED
    BY <2>3, <2>4 DEF t, answers
<1>3. ASSUME NEW s \in SesType, SarpFits(s, s.active), NEW a \in {"idle", "waiting", "killed"},
             a = "waiting" => s.ready = "ready", Settles(ses, s), NoneCancelled(ses, s)
      PROVE  GoesOn(ses, [s EXCEPT !.answer[k] = a])
  <2> DEFINE t == [s EXCEPT !.answer[k] = a]
  <2>1. t \in SesType /\ SarpFits(t, t.active) /\ t.call = s.call /\ NoneCancelled(s, t)
    BY <1>2, <1>3
  <2> HIDE DEF t
  <2>2. Settles(ses, t) /\ CancelIsTrue(ses, t)
    BY <1>3, <2>1 DEF Settles, NoneCancelled, CancelIsTrue
  <2>3. GoesOn(ses, t)
    BY <2>1, <2>2, SettledGoesOn
  <2>4. QED
    BY <2>3 DEF t
<1> DEFINE asked == [ses EXCEPT !.cancelSent = TRUE]
           broken == KillProcess(RejectActive(asked))
<1>4. \/ \E a \in {"idle", "killed"} : ses' = [ses EXCEPT !.answer[k] = a]
      \/ ses.active # NoTurn /\ ses' = [asked EXCEPT !.answer[k] = "waiting"]
      \/ ses.active # NoTurn /\ ses' = [broken EXCEPT !.answer[k] = "killed"]
  BY DEF CancelTurn
<1>5. /\ asked \in SesType /\ SarpFits(asked, asked.active) /\ Settles(ses, asked)
      /\ NoneCancelled(ses, asked) /\ asked.ready = ses.ready /\ asked.active = ses.active
  <2>1. /\ asked \in SesType /\ asked.answer = ses.answer /\ asked.call = ses.call
        /\ asked.active = ses.active /\ asked.ready = ses.ready /\ asked.proc = ses.proc
        /\ asked.stopped = ses.stopped /\ asked.pipe = ses.pipe /\ asked.timers = ses.timers
    BY <1>1 DEF SesType
  <2> HIDE DEF asked
  <2>2. QED
    BY <1>1, <2>1 DEF SarpFits, Settles, NoneCancelled
<1>6. ses.active # NoTurn => ses.ready = "ready"
  BY <1>1 DEF SarpFits
<1>7. ses.active # NoTurn =>
        /\ broken \in SesType /\ SarpFits(broken, broken.active) /\ Settles(ses, broken)
        /\ NoneCancelled(ses, broken)
  <2> HIDE DEF asked
  <2> SUFFICES ASSUME ses.active # NoTurn
               PROVE  /\ broken \in SesType /\ SarpFits(broken, broken.active)
                      /\ Settles(ses, broken) /\ NoneCancelled(ses, broken)
    OBVIOUS
  <2>1. /\ broken \in SesType /\ SarpFits(broken, NoTurn) /\ Settles(asked, broken)
        /\ NoneCancelled(asked, broken) /\ broken.active = NoTurn
    BY <1>5, <1>6, RejectAndKillSettles
  <2> HIDE DEF broken
  <2>2. asked.call = ses.call /\ asked.answer = ses.answer
    BY <1>1 DEF SesType, asked
  <2>3. Settles(ses, broken) /\ NoneCancelled(ses, broken)
    BY <2>1, <2>2 DEF Settles, NoneCancelled
  <2>4. QED
    BY <2>1, <2>3
<1>8. Settles(ses, ses) /\ NoneCancelled(ses, ses)
  BY DEF Settles, NoneCancelled
<1> HIDE DEF asked, broken
<1>9. CASE \E a \in {"idle", "killed"} : ses' = [ses EXCEPT !.answer[k] = a]
  BY <1>1, <1>3, <1>8, <1>9
<1>10. CASE ses.active # NoTurn /\ ses' = [asked EXCEPT !.answer[k] = "waiting"]
  BY <1>3, <1>5, <1>6, <1>10
<1>11. CASE ses.active # NoTurn /\ ses' = [broken EXCEPT !.answer[k] = "killed"]
  BY <1>3, <1>7, <1>11
<1>12. QED
  BY <1>4, <1>9, <1>10, <1>11

LEMMA CancelExpiresGoesOn ==
  ASSUME SarpInv, NEW k \in Cancel, CancelExpires(k)
  PROVE  GoesOn(ses, ses')
<1> DEFINE t == KillProcess(RejectActive(ses))
<1>1. ses \in SesType /\ SarpFits(ses, ses.active) /\ ses.ready # "pending" /\ ses' = t
  BY DEF SarpInv, CancelExpires, SarpFits
<1>2. t \in SesType /\ SarpFits(t, NoTurn) /\ Settles(ses, t) /\ NoneCancelled(ses, t) /\ t.active = NoTurn
  BY <1>1, RejectAndKillSettles
<1> HIDE DEF t
<1>3. QED
  BY <1>1, <1>2, SettledGoesOn DEF CancelIsTrue

\* The handshake fails whatever else the handler has done to the session before.
LEMMA FailAfter ==
  ASSUME NEW s \in SesType, SarpFits(s, s.active), NEW stopped \in BOOLEAN,
         NEW timers \in SUBSET ({"startup", "silence"} \cup StopTimers),
         s.stopped => stopped, s.ready # "closed", timers \cap StopTimers \subseteq s.timers,
         timers # {} => s.timers # {}
  PROVE  LET t == FailReady([s EXCEPT !.stopped = stopped, !.timers = timers])
         IN  /\ t \in SesType /\ SarpFits(t, t.active) /\ Settles(s, t) /\ NoneCancelled(s, t)
             /\ t.ready \notin {"pending", "closed"} /\ t.stopped = stopped /\ t.timers = timers
             /\ t.active = s.active /\ t.proc = s.proc /\ t.pipe = s.pipe
<1> DEFINE v == FailReady(s)
           w == [s EXCEPT !.stopped = stopped, !.timers = timers]
           t == FailReady(w)
<1>1. /\ v \in SesType /\ SarpFits(v, v.active) /\ Settles(s, v) /\ NoneCancelled(s, v)
      /\ v.active = s.active /\ v.ready \notin {"pending", "closed"} /\ v.stopped = s.stopped
      /\ v.proc = s.proc /\ v.pipe = s.pipe
  BY FailSettles
<1>2. v.timers = s.timers
  BY DEF FailReady, SesType
<1>3. t = [v EXCEPT !.stopped = stopped, !.timers = timers]
  BY DEF FailReady, SesType
<1> HIDE DEF v
<1>4. /\ t \in SesType /\ t.call = v.call /\ t.answer = v.answer /\ t.active = v.active
      /\ t.ready = v.ready /\ t.stopped = stopped /\ t.timers = timers /\ t.proc = v.proc
      /\ t.pipe = v.pipe
  BY <1>1, <1>3 DEF SesType
<1> HIDE DEF t
<1>5. SarpFits(t, t.active)
  BY <1>1, <1>2, <1>4 DEF SarpFits, StopTimers
<1>6. Settles(s, t) /\ NoneCancelled(s, t)
  BY <1>1, <1>4 DEF Settles, NoneCancelled
<1>7. QED
  BY <1>1, <1>4, <1>5, <1>6 DEF t, w

\* stop().
LEMMA StopSessionGoesOn ==
  ASSUME SarpInv, StopSession
  PROVE  GoesOn(ses, ses')
<1> DEFINE s == FailReady([ses EXCEPT !.stopped = TRUE])
           dead == [RejectActive(s) EXCEPT !.timers = {}, !.stopDone = TRUE]
           graced == [s EXCEPT !.cancelSent = TRUE, !.timers = @ \cup {"grace"}]
<1>1. /\ ses \in SesType /\ SarpFits(ses, ses.active) /\ ses.ready # "closed" /\ ~ses.stopped
      /\ ses.timers \in SUBSET ({"startup", "silence"} \cup StopTimers)
  BY DEF SarpInv, StopSession, SesType
<1>2. ses' = IF ~s.proc THEN dead
             ELSE IF s.active # NoTurn /\ CanWrite(s) THEN graced
             ELSE ProceedShutdown(s)
  BY DEF StopSession
<1>3. /\ s \in SesType /\ SarpFits(s, s.active) /\ Settles(ses, s) /\ NoneCancelled(ses, s)
      /\ s.ready \notin {"pending", "closed"} /\ s.stopped /\ s.pipe = ses.pipe
  <2> DEFINE v == [ses EXCEPT !.stopped = TRUE, !.timers = ses.timers]
  <2>1. [ses EXCEPT !.stopped = TRUE] = v
    BY <1>1 DEF SesType
  <2>2. /\ FailReady(v) \in SesType /\ SarpFits(FailReady(v), FailReady(v).active)
        /\ Settles(ses, FailReady(v)) /\ NoneCancelled(ses, FailReady(v))
        /\ FailReady(v).ready \notin {"pending", "closed"} /\ FailReady(v).stopped = TRUE
        /\ FailReady(v).pipe = ses.pipe
    BY <1>1, FailAfter
  <2>3. QED
    BY <2>1, <2>2
<1> HIDE DEF s
<1>4. CASE ~s.proc
  <2> DEFINE v == RejectActive(s)
  <2>1. /\ v \in SesType /\ SarpFits(v, NoTurn) /\ Settles(s, v) /\ NoneCancelled(s, v)
        /\ v.active = NoTurn /\ v.ready = s.ready
    BY <1>3, RejectSettles
  <2> HIDE DEF v
  <2>2. ses' = [v EXCEPT !.timers = {}, !.stopDone = TRUE]
    BY <1>2, <1>4 DEF v
  <2>3. /\ ses' \in SesType /\ ses'.call = v.call /\ ses'.answer = v.answer /\ ses'.active = v.active
        /\ ses'.ready = v.ready /\ ses'.timers = {} /\ ses'.proc = v.proc
        /\ ses'.stopped = v.stopped /\ ses'.pipe = v.pipe
    BY <2>1, <2>2 DEF SesType
  <2>4. SarpFits(ses', ses'.active)
    BY <1>3, <2>1, <2>3 DEF SarpFits
  <2>5. Settles(ses, ses') /\ NoneCancelled(ses, ses')
    BY <1>3, <2>1, <2>3 DEF Settles, NoneCancelled
  <2>6. QED
    BY <2>3, <2>4, <2>5, SettledGoesOn DEF CancelIsTrue
<1>5. CASE s.proc /\ s.active # NoTurn /\ CanWrite(s)
  <2>1. ses' = graced
    BY <1>2, <1>5
  <2>2. /\ ses' \in SesType /\ ses'.call = s.call /\ ses'.answer = s.answer /\ ses'.active = s.active
        /\ ses'.ready = s.ready /\ ses'.timers = s.timers \cup {"grace"} /\ ses'.proc = s.proc
        /\ ses'.stopped = s.stopped /\ ses'.pipe = s.pipe
    BY <1>3, <2>1 DEF SesType, StopTimers
  <2>3. SarpFits(ses', ses'.active)
    BY <1>3, <1>5, <2>2 DEF SarpFits
  <2>4. Settles(ses, ses') /\ NoneCancelled(ses, ses')
    BY <1>3, <2>2 DEF Settles, NoneCancelled
  <2>5. QED
    BY <2>2, <2>3, <2>4, SettledGoesOn DEF CancelIsTrue
<1>6. CASE s.proc /\ ~(s.active # NoTurn /\ CanWrite(s))
  <2> DEFINE t == ProceedShutdown(s)
  <2>1. ses' = t
    BY <1>2, <1>6
  <2>2. s.active = NoTurn \/ ~s.pipe
    BY <1>6 DEF CanWrite
  <2>3. /\ t \in SesType /\ SarpFits(t, s.active) /\ t.call = s.call /\ t.answer = s.answer
        /\ t.active = s.active
    BY <1>3, <2>2, ShutdownSettles
  <2> HIDE DEF t
  <2>4. Settles(ses, t) /\ NoneCancelled(ses, t)
    BY <1>3, <2>3 DEF Settles, NoneCancelled
  <2>5. QED
    BY <2>1, <2>3, <2>4, SettledGoesOn DEF CancelIsTrue
<1>7. QED
  BY <1>4, <1>5, <1>6

\* The startup timer, and the silence timer.
LEMMA StartupExpiresGoesOn ==
  ASSUME SarpInv, StartupExpires
  PROVE  GoesOn(ses, ses')
<1> DEFINE timers == ses.timers \ {"startup"}
           s == [ses EXCEPT !.timers = timers]
<1>1. /\ ses \in SesType /\ SarpFits(ses, ses.active) /\ "startup" \in ses.timers
      /\ ses.stopped \in BOOLEAN /\ timers \in SUBSET ({"startup", "silence"} \cup StopTimers)
  BY DEF SarpInv, StartupExpires, SesType
<1>2. ses' = IF s.ready = "pending" THEN KillProcess(FailReady(s)) ELSE s
  BY DEF StartupExpires
<1>3. /\ s \in SesType /\ s.call = ses.call /\ s.answer = ses.answer /\ s.active = ses.active
      /\ s.ready = ses.ready /\ s.timers = timers /\ s.proc = ses.proc
      /\ s.stopped = ses.stopped /\ s.pipe = ses.pipe
  BY <1>1 DEF SesType
<1>4. CASE ses.ready # "pending"
  <2>1. ses' = s
    BY <1>2, <1>3, <1>4
  <2> HIDE DEF s
  <2>2. SarpFits(s, s.active)
    BY <1>1, <1>3, <1>4 DEF SarpFits
  <2>3. QED
    BY <1>3, <2>1, <2>2, OthersGoOn
<1>5. CASE ses.ready = "pending"
  <2> DEFINE w == [ses EXCEPT !.stopped = FALSE, !.timers = timers]
             v == FailReady(w)
             t == KillProcess(v)
  <2>1. s = w
    BY <1>1, <1>5 DEF SesType, SarpFits
  <2>2. ses' = t
    BY <1>2, <1>3, <1>5, <2>1
  <2> HIDE DEF s
  <2>3. timers \cap StopTimers \subseteq ses.timers /\ ses.timers # {} /\ ses.active = NoTurn
        /\ ~ses.stopped
    BY <1>1, <1>5 DEF SarpFits
  <2> HIDE DEF timers
  <2>4. /\ v \in SesType /\ SarpFits(v, v.active) /\ Settles(ses, v) /\ NoneCancelled(ses, v)
        /\ v.ready \notin {"pending", "closed"} /\ v.active = ses.active
    BY <1>1, <1>5, <2>3, FailAfter
  <2> HIDE DEF v
  <2>5. t \in SesType /\ SarpFits(t, NoTurn) /\ t.call = v.call /\ t.answer = v.answer /\ t.active = NoTurn
    BY <2>3, <2>4, KillSettles
  <2> HIDE DEF t
  <2>6. Settles(ses, t) /\ NoneCancelled(ses, t)
    BY <2>4, <2>5 DEF Settles, NoneCancelled
  <2>7. QED
    BY <2>2, <2>5, <2>6, SettledGoesOn DEF CancelIsTrue
<1>6. QED
  BY <1>4, <1>5

LEMMA SilenceExpiresGoesOn ==
  ASSUME SarpInv, SilenceExpires
  PROVE  GoesOn(ses, ses')
<1>1. ses \in SesType /\ SarpFits(ses, ses.active) /\ "silence" \in ses.timers
  BY DEF SarpInv, SilenceExpires
<1>2. CASE ses.active = NoTurn
  <2>1. ses' = [ses EXCEPT !.timers = @ \ {"silence"}]
    BY <1>2 DEF SilenceExpires
  <2>2. /\ ses' \in SesType /\ ses'.call = ses.call /\ ses'.answer = ses.answer
        /\ ses'.active = ses.active /\ ses'.ready = ses.ready
        /\ ses'.timers = ses.timers \ {"silence"} /\ ses'.proc = ses.proc
        /\ ses'.stopped = ses.stopped /\ ses'.pipe = ses.pipe
    BY <1>1, <2>1 DEF SesType
  <2>3. SarpFits(ses', ses'.active)
    BY <1>1, <2>2 DEF SarpFits
  <2>4. QED
    BY <2>2, <2>3, OthersGoOn
<1>3. CASE ses.active # NoTurn
  <2> DEFINE t == KillProcess(RejectActive(ses))
  <2>1. ses' = t /\ ses.ready # "pending"
    BY <1>1, <1>3 DEF SilenceExpires, SarpFits
  <2>2. t \in SesType /\ SarpFits(t, NoTurn) /\ Settles(ses, t) /\ NoneCancelled(ses, t) /\ t.active = NoTurn
    BY <1>1, <2>1, RejectAndKillSettles
  <2> HIDE DEF t
  <2>3. QED
    BY <2>1, <2>2, SettledGoesOn DEF CancelIsTrue
<1>4. QED
  BY <1>2, <1>3

\* The one stop timer, in its three uses.
LEMMA StopTimerExpiresGoesOn ==
  ASSUME SarpInv, StopTimerExpires
  PROVE  GoesOn(ses, ses')
<1>1. PICK timer \in StopTimers \cap ses.timers :
        LET s == [ses EXCEPT !.timers = @ \ {timer}]
        IN  ses' = CASE timer = "grace" ->
                          ClearActiveTurn(SettleCall(s, s.active, "rejected"))
                     [] timer = "shutdown" -> SigtermPhase(s)
                     [] timer = "kill" -> [CleanupDeadProc(s) EXCEPT !.os = "gone"]
  BY DEF StopTimerExpires
<1> DEFINE s == [ses EXCEPT !.timers = @ \ {timer}]
<1>2. ses \in SesType /\ SarpFits(ses, ses.active)
  BY DEF SarpInv
<1>3. /\ s \in SesType /\ s.call = ses.call /\ s.answer = ses.answer /\ s.active = ses.active
      /\ s.ready = ses.ready /\ s.timers = ses.timers \ {timer} /\ s.proc = ses.proc
      /\ s.stopped = ses.stopped /\ s.pipe = ses.pipe
  BY <1>2 DEF SesType
<1>4. CASE timer = "grace"
  <2>1. ses' = ClearActiveTurn(SettleCall(s, s.active, "rejected"))
    BY <1>1, <1>4
  <2> HIDE DEF s
  <2>2. SarpFits(s, s.active) /\ s.active \in Send \cup {NoTurn}
    BY <1>2, <1>3, <1>4 DEF SarpFits, StopTimers, SesType
  <2>3. PICK turn \in Send \cup {NoTurn} : turn = s.active
    BY <2>2
  <2> DEFINE v == SettleCall(s, turn, "rejected")
             t == ClearActiveTurn(v)
  <2>4. v \in SesType /\ SarpFits(v, NoTurn) /\ Settles(s, v) /\ NoneCancelled(s, v)
    BY <1>3, <2>2, <2>3, SettleSettles
  <2> HIDE DEF v
  <2>5. t \in SesType /\ SarpFits(t, NoTurn) /\ t.call = v.call /\ t.answer = v.answer /\ t.active = NoTurn
    BY <2>4, ClearSettles
  <2> HIDE DEF t
  <2>6. Settles(ses, t) /\ NoneCancelled(ses, t)
    BY <1>3, <2>4, <2>5 DEF Settles, NoneCancelled
  <2>7. ses' = t
    BY <2>1, <2>3 DEF t, v
  <2>8. QED
    BY <2>5, <2>6, <2>7, SettledGoesOn DEF CancelIsTrue
<1>5. s.stopped /\ (timer # "grace" => s.active = NoTurn \/ ~s.pipe)
  BY <1>1, <1>2, <1>3 DEF SarpFits, StopTimers
<1>6. s.ready # "pending" /\ SarpFits(s, s.active)
  BY <1>1, <1>2, <1>3, <1>5 DEF SarpFits, StopTimers
<1>7. CASE timer = "shutdown"
  <2> DEFINE t == SigtermPhase(s)
  <2>1. ses' = t
    BY <1>1, <1>7
  <2> HIDE DEF s
  <2>2. /\ t \in SesType /\ SarpFits(t, s.active) /\ t.call = s.call /\ t.answer = s.answer
        /\ t.active = s.active
    BY <1>3, <1>5, <1>6, <1>7, SigtermSettles
  <2> HIDE DEF t
  <2>3. QED
    BY <1>3, <2>1, <2>2, OthersGoOn
<1>8. CASE timer = "kill"
  <2> DEFINE t == [CleanupDeadProc(s) EXCEPT !.os = "gone"]
  <2>1. ses' = t
    BY <1>1, <1>8
  <2> HIDE DEF s
  <2>2. /\ t \in SesType /\ SarpFits(t, s.active) /\ t.call = s.call /\ t.answer = s.answer
        /\ t.active = s.active
    BY <1>3, <1>5, <1>6, <1>8, CleanupSettles
  <2> HIDE DEF t
  <2>3. QED
    BY <1>3, <2>1, <2>2, OthersGoOn
<1>9. QED
  BY <1>4, <1>7, <1>8 DEF StopTimers

\* What happens to the process outside the session, and its exit event.
LEMMA ProcessGoesOn ==
  ASSUME SarpInv, WorkerDies \/ PipeBreaks
  PROVE  GoesOn(ses, ses')
<1>1. ses \in SesType /\ SarpFits(ses, ses.active)
  BY DEF SarpInv
<1>2. /\ ses' \in SesType /\ ses'.call = ses.call /\ ses'.answer = ses.answer
      /\ ses'.active = ses.active /\ ses'.ready = ses.ready /\ ses'.timers = ses.timers
      /\ ses'.proc = ses.proc /\ ses'.stopped = ses.stopped /\ (ses'.pipe => ses.pipe)
  BY <1>1 DEF SesType, WorkerDies, PipeBreaks
<1>3. SarpFits(ses', ses'.active)
  BY <1>1, <1>2 DEF SarpFits
<1>4. QED
  BY <1>2, <1>3, OthersGoOn

LEMMA ExitEventGoesOn ==
  ASSUME SarpInv, ExitEvent
  PROVE  GoesOn(ses, ses')
<1> DEFINE u == FailReady(ses)
           v == RejectActive(u)
           t == [CleanupDeadProc(v) EXCEPT !.os = v.os]
<1>1. /\ ses \in SesType /\ SarpFits(ses, ses.active) /\ ses' = CleanupDeadProc(v)
  BY DEF SarpInv, ExitEvent
<1>2. /\ u \in SesType /\ SarpFits(u, u.active) /\ Settles(ses, u) /\ NoneCancelled(ses, u)
      /\ u.ready # "pending"
  BY <1>1, FailSettles
<1> HIDE DEF u
<1>3. /\ v \in SesType /\ SarpFits(v, NoTurn) /\ Settles(u, v) /\ NoneCancelled(u, v)
      /\ v.active = NoTurn /\ v.ready = u.ready
  BY <1>2, RejectSettles
<1> HIDE DEF v
<1>4. v.os \in {"none", "up", "terminating", "gone"} /\ CleanupDeadProc(v) = t
  BY <1>3 DEF SesType, CleanupDeadProc
<1>5. /\ t \in SesType /\ SarpFits(t, NoTurn) /\ t.call = v.call /\ t.answer = v.answer
      /\ t.active = NoTurn
  BY <1>2, <1>3, <1>4, CleanupSettles
<1> HIDE DEF t
<1>6. Settles(ses, t) /\ NoneCancelled(ses, t)
  BY <1>2, <1>3, <1>5 DEF Settles, NoneCancelled
<1>7. QED
  BY <1>1, <1>4, <1>5, <1>6, SettledGoesOn DEF CancelIsTrue

\* Every step of the session.
LEMMA SarpGoesOn ==
  ASSUME SarpInv, [SarpNext]_ses
  PROVE  GoesOn(ses, ses')
<1>1. CASE ReceiveFrame
  <2>1. PICK frame \in Frames : ses' = Received(ses, frame)
    BY <1>1 DEF ReceiveFrame
  <2>2. ses \in SesType /\ SarpFits(ses, ses.active) /\ ses.proc
    BY <1>1 DEF SarpInv, ReceiveFrame
  <2>3. GoesOn(ses, Received(ses, frame))
    BY <2>2, ReceivedGoesOn
  <2>4. QED
    BY <2>1, <2>3
<1>2. CASE ses' = ses
  BY <1>2, OthersGoOn DEF SarpInv
<1>3. ASSUME NEW c \in Send, CallSend(c) \/ SendContinues(c)
      PROVE  GoesOn(ses, ses')
  BY <1>3, CallSendGoesOn, SendContinuesGoesOn
<1>4. ASSUME NEW k \in Cancel, CancelTurn(k) \/ CancelExpires(k)
      PROVE  GoesOn(ses, ses')
  BY <1>4, CancelTurnGoesOn, CancelExpiresGoesOn
<1>5. QED
  BY <1>1, <1>2, <1>3, <1>4, OpenSessionGoesOn, StopSessionGoesOn, StartupExpiresGoesOn,
     SilenceExpiresGoesOn, StopTimerExpiresGoesOn, ProcessGoesOn, ExitEventGoesOn DEF SarpNext

LEMMA SarpStart == SarpInit => SarpInv
<1> SUFFICES ASSUME SarpInit PROVE SarpInv
  OBVIOUS
<1>1. ses \in SesType
  BY DEF SarpInit, SesType, CallState, AnswerState
<1>2. /\ \A c \in Send : ses.call[c] = "unsent"
      /\ \A k \in Cancel : ses.answer[k] = "none"
      /\ ses.ready = "closed" /\ ses.active = NoTurn /\ ses.timers = {} /\ ~ses.proc /\ ~ses.stopped
  BY DEF SarpInit
<1>3. SarpFits(ses, ses.active)
  BY <1>2, SarpAssumption DEF SarpFits
<1>4. QED
  BY <1>1, <1>3 DEF SarpInv

\* A session fits whatever its worker says, whenever it dies, and however the calls of
\* send(), cancelTurn() and stop() and the timers meet.
THEOREM SarpInvariantHolds == SarpSpec => []SarpInv
<1>1. SarpInit => SarpInv
  BY SarpStart
<1>2. SarpInv /\ [SarpNext]_ses => SarpInv'
  BY SarpGoesOn DEF GoesOn, SarpInv
<1>3. QED
  BY <1>1, <1>2, PTL DEF SarpSpec

\* No call of send() is left with nobody to answer it: an open turn is the active one of a
\* process still to be heard of, and who waits for the handshake has the startup timer.
THEOREM SarpCallsStayHeld == SarpSpec => []SarpCallsAreHeld
<1>1. SarpInv => SarpCallsAreHeld
  <2> SUFFICES ASSUME SarpInv PROVE SarpCallsAreHeld
    OBVIOUS
  <2>1. SarpFits(ses, ses.active)
    BY DEF SarpInv
  <2>2. OpenTurnIsOwned
    BY <2>1, SarpAssumption DEF SarpFits, OpenTurnIsOwned
  <2>3. NobodyAwaitsALostHandshake
    BY <2>1 DEF SarpFits, NobodyAwaitsALostHandshake
  <2>4. QED
    BY <2>2, <2>3 DEF SarpCallsAreHeld
<1>2. QED
  BY <1>1, SarpInvariantHolds, PTL

\* "cancelled" is answered only where the process lives on and the turn is over.
THEOREM CancelledMeansTheWorkerLives == SarpSpec => CancelledKeepsTheWorker
<1> DEFINE Told == \A k \in Cancel :
                     (ses.answer[k] # "cancelled" /\ ses'.answer[k] = "cancelled")
                       => ses'.proc /\ ses'.active = NoTurn
<1>1. SarpInv /\ [SarpNext]_ses => [Told]_ses
  <2> SUFFICES ASSUME SarpInv, [SarpNext]_ses PROVE Told
    OBVIOUS
  <2>1. CancelIsTrue(ses, ses')
    BY SarpGoesOn DEF GoesOn
  <2>2. QED
    BY <2>1 DEF CancelIsTrue, NoneCancelled
<1> HIDE DEF Told
<1>2. SarpSpec => [][Told]_ses
  BY <1>1, SarpInvariantHolds, PTL DEF SarpSpec
<1>3. QED
  BY <1>2 DEF CancelledKeepsTheWorker, Told

\* Seen by its caller the session is a SessionContract: every call is settled at most once,
\* turns run one at a time, and only a turn that runs can succeed.
THEOREM SarpImplementsTheContract == SarpSpec => SarpKeepsContract
<1>1. SarpInit => SarpContract!ContractInit
  BY DEF SarpInit, SarpContract!ContractInit
<1>2. SarpInv /\ [SarpNext]_ses => [SarpContract!ContractStep]_(ses.call)
  <2> SUFFICES ASSUME SarpInv, [SarpNext]_ses
               PROVE  SarpContract!ContractStep
    OBVIOUS
  <2>1. GoesOn(ses, ses')
    BY SarpGoesOn
  <2>2. ses'.call \in [Send -> SarpContract!CallState]
    BY <2>1 DEF GoesOn, SesType, CallState, SarpContract!CallState
  <2>3. \A c \in Send : \/ ses'.call[c] = ses.call[c]
                        \/ <<ses.call[c], ses'.call[c]>> \in SarpContract!Moves
    BY <2>1 DEF GoesOn, CallsMove, SarpContract!Moves
  <2>4. \A c, d \in Send : ses'.call[c] = "open" /\ ses'.call[d] = "open" => c = d
    BY <2>1 DEF GoesOn, SarpFits
  <2>5. QED
    BY <2>2, <2>3, <2>4 DEF SarpContract!ContractStep
<1>3. QED
  BY <1>1, <1>2, SarpInvariantHolds, PTL
  DEF SarpSpec, SarpKeepsContract, SarpContract!ContractSpec
-----------------------------------------------------------------------------
(* The resident Claude process                                               *)

\* the messages of a queue; each is in it once
Queued(q) == {q[i] : i \in 1 .. Len(q)}
OnceEach(q) == \A i, j \in 1 .. Len(q) : q[i] = q[j] => i = j

ClaudeType ==
  [proc : 0 .. MaxGen, gen : 0 .. MaxGen,
   os : [Gen -> {"none", "up", "terminating", "gone"}], told : SUBSET Gen,
   starting : BOOLEAN, busy : BOOLEAN, queue : Seq(Prompt), active : Prompt \cup {NoPrompt},
   bound : [Prompt -> 0 .. MaxGen], sessionId : BOOLEAN, resumed : BOOLEAN,
   sawEvent : BOOLEAN, inGrace : BOOLEAN,
   call : [Prompt -> {"unsent", "waiting", "open", "resolved", "rejected"}],
   spoke : SUBSET Gen, stranded : BOOLEAN]

\* who waits is queued or in flight, and was not yet read by any process if queued again
PromptsFit(s) ==
  /\ OnceEach(s.queue)
  /\ \A c \in Prompt : s.call[c] = "waiting" <=> c \in Queued(s.queue)
  /\ \A c \in Prompt : s.call[c] = "open" <=> c = s.active
  /\ s.active # NoPrompt => s.busy /\ s.proc # 0 /\ s.bound[s.active] = s.proc
  /\ \A c \in Prompt : s.call[c] = "unsent" => s.bound[c] = 0
  /\ \A c \in Queued(s.queue) : s.bound[c] # 0 => s.bound[c] \notin s.spoke \cup {s.proc}

\* the generations: none is used again, the current one alone is up, it has shown no
\* event unless it was noted
ProcessesFit(s) ==
  /\ s.proc \in {0, s.gen}
  /\ \A g \in Gen : g > s.gen => s.os[g] = "none" /\ g \notin s.spoke
  /\ \A c \in Prompt : s.bound[c] <= s.gen
  /\ \A g \in Gen : s.os[g] = "up" => g = s.proc
  /\ s.proc # 0 /\ ~s.sawEvent => s.proc \notin s.spoke

ClaudeFits(s) == s \in ClaudeType /\ PromptsFit(s) /\ ProcessesFit(s)
Driven(s) == s.queue # <<>> => s.busy \/ s.starting \/ s.stranded
ClaudeInv == ClaudeFits(claude) /\ Driven(claude)

\* The queue's operations.
LEMMA QueueOps ==
  ASSUME NEW q \in Seq(Prompt), NEW c \in Prompt, OnceEach(q)
  PROVE  /\ c \notin Queued(q) =>
              /\ Append(q, c) \in Seq(Prompt) /\ OnceEach(Append(q, c))
              /\ Queued(Append(q, c)) = Queued(q) \cup {c}
         /\ c \notin Queued(q) =>
              /\ <<c>> \o q \in Seq(Prompt) /\ OnceEach(<<c>> \o q)
              /\ Queued(<<c>> \o q) = Queued(q) \cup {c} /\ <<c>> \o q # <<>>
<1>1. ASSUME c \notin Queued(q)
      PROVE  /\ Append(q, c) \in Seq(Prompt) /\ OnceEach(Append(q, c))
             /\ Queued(Append(q, c)) = Queued(q) \cup {c}
  <2>1. /\ Append(q, c) \in Seq(Prompt) /\ Len(Append(q, c)) = Len(q) + 1
        /\ \A i \in 1 .. Len(q) : Append(q, c)[i] = q[i]
        /\ Append(q, c)[Len(q) + 1] = c /\ Len(q) \in Nat
    OBVIOUS
  <2> DEFINE p == Append(q, c)
  <2> HIDE DEF p
  <2>2. OnceEach(p)
    BY <1>1, <2>1 DEF OnceEach, Queued, p
  <2>3. Queued(p) = Queued(q) \cup {c}
    BY <2>1 DEF Queued, p
  <2>4. QED
    BY <2>1, <2>2, <2>3 DEF p
<1>2. ASSUME c \notin Queued(q)
      PROVE  /\ <<c>> \o q \in Seq(Prompt) /\ OnceEach(<<c>> \o q)
             /\ Queued(<<c>> \o q) = Queued(q) \cup {c} /\ <<c>> \o q # <<>>
  <2> DEFINE p == <<c>> \o q
  <2>1. /\ p \in Seq(Prompt) /\ Len(p) = Len(q) + 1 /\ p[1] = c /\ Len(q) \in Nat
        /\ \A i \in 2 .. Len(q) + 1 : p[i] = q[i - 1]
    OBVIOUS
  <2> HIDE DEF p
  <2>2. \A i \in 2 .. Len(p) : i - 1 \in 1 .. Len(q) /\ p[i] \in Queued(q)
    BY <2>1 DEF Queued
  <2>3. OnceEach(p)
    BY <1>2, <2>1, <2>2 DEF OnceEach
  <2>4. Queued(p) = Queued(q) \cup {c}
    <3>1. ASSUME NEW d \in Queued(p) PROVE d \in Queued(q) \cup {c}
      <4>1. PICK i \in 1 .. Len(p) : d = p[i]
        BY <3>1 DEF Queued
      <4>2. i = 1 \/ i \in 2 .. Len(p)
        BY <2>1, <4>1
      <4>3. QED
        BY <2>1, <2>2, <4>1, <4>2
    <3>2. ASSUME NEW d \in Queued(q) PROVE d \in Queued(p)
      <4>1. PICK i \in 1 .. Len(q) : d = q[i]
        BY <3>2 DEF Queued
      <4>2. i + 1 \in 1 .. Len(p) /\ p[i + 1] = d
        BY <2>1, <4>1
      <4>3. QED
        BY <4>2 DEF Queued
    <3>3. c \in Queued(p)
      BY <2>1 DEF Queued
    <3>4. QED
      BY <3>1, <3>2, <3>3
  <2>5. QED
    BY <2>1, <2>3, <2>4 DEF p
<1>3. QED
  BY <1>1, <1>2

LEMMA QueueHead ==
  ASSUME NEW q \in Seq(Prompt), OnceEach(q), q # <<>>
  PROVE  /\ Tail(q) \in Seq(Prompt) /\ OnceEach(Tail(q))
         /\ Head(q) \in Prompt /\ Head(q) \in Queued(q)
         /\ Queued(Tail(q)) = Queued(q) \ {Head(q)}
<1> DEFINE p == Tail(q)
           c == Head(q)
<1>1. /\ p \in Seq(Prompt) /\ Len(q) \in Nat /\ Len(q) >= 1 /\ Len(p) = Len(q) - 1
      /\ c = q[1] /\ c \in Prompt /\ \A i \in 1 .. Len(p) : p[i] = q[i + 1]
  OBVIOUS
<1> HIDE DEF p, c
<1>2. \A i \in 1 .. Len(p) : i + 1 \in 1 .. Len(q) /\ p[i] # c
  BY <1>1 DEF OnceEach
<1>3. OnceEach(p)
  BY <1>1, <1>2 DEF OnceEach
<1>4. c \in Queued(q)
  BY <1>1 DEF Queued
<1>5. Queued(p) = Queued(q) \ {c}
  <2>1. Queued(p) \subseteq Queued(q) \ {c}
    BY <1>1, <1>2 DEF Queued
  <2>2. ASSUME NEW d \in Queued(q), d # c PROVE d \in Queued(p)
    <3>1. PICK i \in 1 .. Len(q) : d = q[i]
      BY <2>2 DEF Queued
    <3>2. i # 1
      BY <1>1, <2>2, <3>1
    <3>3. i - 1 \in 1 .. Len(p) /\ p[i - 1] = d
      BY <1>1, <3>1, <3>2
    <3>4. QED
      BY <3>3 DEF Queued
  <2>3. QED
    BY <2>1, <2>2
<1>6. QED
  BY <1>1, <1>3, <1>4, <1>5 DEF p, c

\* The second half of a handler, pump(): the message at the head is written, or refused
\* when no process can be had; only then may a message be bound to another process.
PumpMoves(s, t) ==
  \A c \in Prompt :
    t.call[c] = s.call[c] \/ (s.call[c] = "waiting" /\ t.call[c] \in {"open", "rejected"})
WrittenIfUnread(s, t) ==
  \A c \in Prompt :
    s.bound[c] # 0 /\ t.bound[c] # s.bound[c] => s.bound[c] \notin s.spoke

LEMMA WriteTurnPumps ==
  ASSUME NEW s, ClaudeFits(s), ~s.busy, s.proc # 0, s.queue # <<>>
  PROVE  LET t == WriteTurn(s)
         IN  ClaudeFits(t) /\ Driven(t) /\ PumpMoves(s, t) /\ WrittenIfUnread(s, t)
<1> DEFINE c == Head(s.queue)
           calls == [s.call EXCEPT ![c] = "open"]
           bounds == [s.bound EXCEPT ![c] = s.gen]
           t == WriteTurn(s)
<1>1. /\ s.queue \in Seq(Prompt) /\ s.call \in [Prompt -> {"unsent", "waiting", "open", "resolved", "rejected"}]
      /\ s.bound \in [Prompt -> 0 .. MaxGen] /\ s.gen \in 0 .. MaxGen
      /\ s.active = NoPrompt /\ s.proc = s.gen /\ OnceEach(s.queue)
  BY DEF ClaudeFits, ClaudeType, PromptsFit, ProcessesFit
<1>2. /\ Tail(s.queue) \in Seq(Prompt) /\ OnceEach(Tail(s.queue)) /\ c \in Prompt
      /\ c \in Queued(s.queue) /\ Queued(Tail(s.queue)) = Queued(s.queue) \ {c}
  BY <1>1, QueueHead
<1>3. t = [s EXCEPT !.queue = Tail(s.queue), !.busy = TRUE, !.active = c,
                    !.bound = bounds, !.call = calls]
  BY DEF WriteTurn
<1> HIDE DEF c
<1>4. calls \in [Prompt -> {"unsent", "waiting", "open", "resolved", "rejected"}]
      /\ calls[c] = "open" /\ \A d \in Prompt : d # c => calls[d] = s.call[d]
  BY <1>1, <1>2
<1>5. bounds \in [Prompt -> 0 .. MaxGen]
      /\ bounds[c] = s.gen /\ \A d \in Prompt : d # c => bounds[d] = s.bound[d]
  BY <1>1, <1>2
<1> HIDE DEF calls, bounds, t
<1>6. /\ t \in ClaudeType /\ t.queue = Tail(s.queue) /\ t.busy = TRUE /\ t.active = c
      /\ t.bound = bounds /\ t.call = calls /\ t.proc = s.proc /\ t.gen = s.gen /\ t.os = s.os
      /\ t.spoke = s.spoke /\ t.sawEvent = s.sawEvent
  BY <1>2, <1>3, <1>4, <1>5 DEF ClaudeFits, ClaudeType
<1>7. PromptsFit(t)
  <2>1. \A d \in Prompt : s.call[d] = "waiting" <=> d \in Queued(s.queue)
    BY DEF ClaudeFits, PromptsFit
  <2>2. \A d \in Prompt : s.call[d] # "open"
    BY <1>1, ClaudeAssumption DEF ClaudeFits, PromptsFit
  <2>3. \A d \in Prompt : t.call[d] = "waiting" <=> d \in Queued(t.queue)
    BY <1>2, <1>4, <1>6, <2>1
  <2>4. \A d \in Prompt : t.call[d] = "open" <=> d = t.active
    BY <1>4, <1>6, <2>2
  <2>5. t.active # NoPrompt => t.busy /\ t.proc # 0 /\ t.bound[t.active] = t.proc
    BY <1>1, <1>5, <1>6
  <2>6. \A d \in Prompt : t.call[d] = "unsent" => t.bound[d] = 0
    BY <1>4, <1>5, <1>6 DEF ClaudeFits, PromptsFit
  <2>7. \A d \in Queued(t.queue) : t.bound[d] # 0 => t.bound[d] \notin t.spoke \cup {t.proc}
    <3>1. Queued(s.queue) \subseteq Prompt
      BY <1>1 DEF Queued
    <3>2. QED
      BY <1>2, <1>5, <1>6, <3>1 DEF ClaudeFits, PromptsFit
  <2>8. QED
    BY <1>2, <1>6, <2>3, <2>4, <2>5, <2>6, <2>7 DEF PromptsFit
<1>8. ProcessesFit(t)
  <2>1. \A d \in Prompt : t.bound[d] <= t.gen
    <3>1. s.gen <= s.gen
      BY <1>1
    <3>2. QED
      BY <1>5, <1>6, <3>1 DEF ClaudeFits, ProcessesFit
  <2>2. QED
    BY <1>6, <2>1 DEF ClaudeFits, ProcessesFit
<1>9. PumpMoves(s, t)
  BY <1>2, <1>4, <1>6 DEF PumpMoves, ClaudeFits, PromptsFit
<1>10. WrittenIfUnread(s, t)
  BY <1>2, <1>5, <1>6 DEF WrittenIfUnread, ClaudeFits, PromptsFit
<1>11. QED
  BY <1>6, <1>7, <1>8, <1>9, <1>10 DEF ClaudeFits, Driven, t

LEMMA SpawnProcPumps ==
  ASSUME NEW s, ClaudeFits(s), s.proc = 0, s.gen < MaxGen
  PROVE  LET t == SpawnProc(s)
         IN  ClaudeFits(t) /\ Driven(t) /\ PumpMoves(s, t) /\ WrittenIfUnread(s, t)
<1> DEFINE g == s.gen + 1
           state == [s.os EXCEPT ![g] = "up"]
           t == SpawnProc(s)
<1>1. s \in ClaudeType /\ s.gen \in 0 .. MaxGen /\ g \in Gen /\ MaxGen \in Nat
      /\ s.os \in [Gen -> {"none", "up", "terminating", "gone"}]
      /\ s.bound \in [Prompt -> 0 .. MaxGen] /\ s.queue \in Seq(Prompt) /\ s.spoke \subseteq Gen
  BY ClaudeAssumption DEF ClaudeFits, ClaudeType, Gen
<1>2. t = [s EXCEPT !.gen = g, !.proc = g, !.os = state, !.starting = TRUE,
                    !.resumed = s.sessionId, !.sawEvent = FALSE, !.inGrace = TRUE,
                    !.stranded = FALSE]
  BY DEF SpawnProc
<1>3. /\ state \in [Gen -> {"none", "up", "terminating", "gone"}]
      /\ \A h \in Gen : h # g => state[h] = s.os[h]
  BY <1>1
<1>4. g \in 0 .. MaxGen /\ g > s.gen /\ g # 0
  BY <1>1 DEF Gen
<1> HIDE DEF state, g, t
<1>5. /\ t \in ClaudeType /\ t.gen = g /\ t.proc = g /\ t.os = state /\ t.starting = TRUE
      /\ t.queue = s.queue /\ t.call = s.call /\ t.bound = s.bound /\ t.active = s.active
      /\ t.spoke = s.spoke
  BY <1>1, <1>2, <1>3, <1>4 DEF ClaudeType
<1>6. s.active = NoPrompt
  BY DEF ClaudeFits, PromptsFit
<1>7. g \notin s.spoke /\ \A c \in Prompt : s.bound[c] <= s.gen /\ s.bound[c] # g
  <2>1. \A c \in Prompt : s.bound[c] <= s.gen /\ s.bound[c] \in 0 .. MaxGen
    BY <1>1 DEF ClaudeFits, ProcessesFit
  <2>2. QED
    BY <1>1, <1>4, <2>1 DEF ClaudeFits, ProcessesFit
<1>8. Queued(s.queue) \subseteq Prompt
  BY <1>1 DEF Queued
<1>9. PromptsFit(t)
  BY <1>5, <1>6, <1>7, <1>8 DEF ClaudeFits, PromptsFit
<1>10. ProcessesFit(t)
  <2>1. \A h \in Gen : h > g => h # g /\ h > s.gen
    BY <1>1, <1>4 DEF Gen
  <2>2. \A h \in Gen : h > t.gen => t.os[h] = "none" /\ h \notin t.spoke
    BY <1>3, <1>5, <2>1 DEF ClaudeFits, ProcessesFit
  <2>3. \A c \in Prompt : t.bound[c] <= t.gen
    BY <1>1, <1>4, <1>5, <1>7
  <2>4. \A h \in Gen : t.os[h] = "up" => h = t.proc
    BY <1>3, <1>5 DEF ClaudeFits, ProcessesFit, Gen
  <2>5. QED
    BY <1>5, <1>7, <2>2, <2>3, <2>4 DEF ProcessesFit
<1>11. PumpMoves(s, t) /\ WrittenIfUnread(s, t) /\ Driven(t)
  BY <1>5 DEF PumpMoves, WrittenIfUnread, Driven
<1>12. QED
  BY <1>5, <1>9, <1>10, <1>11 DEF ClaudeFits, t

LEMMA SpawnThrowsPumps ==
  ASSUME NEW s, ClaudeFits(s), s.proc = 0, s.gen < MaxGen, s.queue # <<>>
  PROVE  LET t == SpawnThrows(s)
         IN  ClaudeFits(t) /\ Driven(t) /\ PumpMoves(s, t) /\ WrittenIfUnread(s, t)
<1> DEFINE c == Head(s.queue)
           calls == [s.call EXCEPT ![c] = "rejected"]
           t == SpawnThrows(s)
<1>1. /\ s \in ClaudeType /\ s.queue \in Seq(Prompt) /\ s.gen \in 0 .. MaxGen /\ MaxGen \in Nat
      /\ s.call \in [Prompt -> {"unsent", "waiting", "open", "resolved", "rejected"}]
      /\ s.bound \in [Prompt -> 0 .. MaxGen] /\ OnceEach(s.queue) /\ s.spoke \subseteq Gen
      /\ s.active = NoPrompt
  BY ClaudeAssumption DEF ClaudeFits, ClaudeType, PromptsFit
<1>2. /\ Tail(s.queue) \in Seq(Prompt) /\ OnceEach(Tail(s.queue)) /\ c \in Prompt
      /\ c \in Queued(s.queue) /\ Queued(Tail(s.queue)) = Queued(s.queue) \ {c}
  BY <1>1, QueueHead
<1>3. s.call[c] = "waiting"
  BY <1>2 DEF ClaudeFits, PromptsFit
<1>4. t = [s EXCEPT !.gen = s.gen + 1, !.queue = Tail(s.queue), !.stranded = TRUE, !.call = calls]
  <2> DEFINE v == [s EXCEPT !.gen = @ + 1, !.queue = Tail(@), !.stranded = TRUE]
  <2>1. v.call = s.call
    BY <1>1 DEF ClaudeType
  <2>2. c # NoPrompt /\ v.call[c] \notin {"resolved", "rejected"}
    BY <1>2, <1>3, <2>1, ClaudeAssumption
  <2>3. t = [v EXCEPT !.call[c] = "rejected"]
    BY <2>2 DEF SpawnThrows, SettleTurn
  <2>4. QED
    BY <1>1, <2>3 DEF ClaudeType
<1> HIDE DEF c
<1>5. calls \in [Prompt -> {"unsent", "waiting", "open", "resolved", "rejected"}]
      /\ calls[c] = "rejected" /\ \A d \in Prompt : d # c => calls[d] = s.call[d]
  BY <1>1, <1>2
<1>6. s.gen + 1 \in 0 .. MaxGen
  BY <1>1
<1> HIDE DEF calls, t
<1>7. /\ t \in ClaudeType /\ t.gen = s.gen + 1 /\ t.queue = Tail(s.queue) /\ t.stranded = TRUE
      /\ t.call = calls /\ t.proc = s.proc /\ t.os = s.os /\ t.bound = s.bound
      /\ t.active = s.active /\ t.spoke = s.spoke
  BY <1>1, <1>2, <1>4, <1>5, <1>6 DEF ClaudeType
<1>8. PromptsFit(t)
  <2>1. Queued(s.queue) \subseteq Prompt
    BY <1>1 DEF Queued
  <2>2. QED
    BY <1>1, <1>2, <1>3, <1>5, <1>7, <2>1 DEF ClaudeFits, PromptsFit
<1>9. ProcessesFit(t)
  <2>1. \A h \in Gen : h > s.gen + 1 => h > s.gen
    BY <1>1 DEF Gen
  <2>2. \A d \in Prompt : s.bound[d] <= s.gen + 1
    <3>1. \A d \in Prompt : s.bound[d] <= s.gen /\ s.bound[d] \in 0 .. MaxGen
      BY <1>1 DEF ClaudeFits, ProcessesFit
    <3>2. QED
      BY <1>1, <3>1
  <2>3. QED
    BY <1>7, <2>1, <2>2 DEF ClaudeFits, ProcessesFit
<1>10. PumpMoves(s, t) /\ WrittenIfUnread(s, t) /\ Driven(t)
  BY <1>3, <1>5, <1>7 DEF PumpMoves, WrittenIfUnread, Driven
<1>11. QED
  BY <1>7, <1>8, <1>9, <1>10 DEF ClaudeFits, t

LEMMA PumpPumps ==
  ASSUME NEW s, ClaudeFits(s), NEW spawnWorks \in BOOLEAN,
         (s.proc = 0 /\ s.queue # <<>>) => s.gen < MaxGen
  PROVE  LET t == Pump(s, spawnWorks)
         IN  ClaudeFits(t) /\ Driven(t) /\ PumpMoves(s, t) /\ WrittenIfUnread(s, t)
<1>1. CASE s.busy \/ s.starting \/ s.queue = <<>>
  <2>1. Pump(s, spawnWorks) = s
    BY <1>1 DEF Pump
  <2>2. QED
    BY <1>1, <2>1 DEF Driven, PumpMoves, WrittenIfUnread
<1>2. CASE ~(s.busy \/ s.starting \/ s.queue = <<>>)
  <2>1. CASE s.proc # 0
    <3>1. Pump(s, spawnWorks) = WriteTurn(s)
      BY <1>2, <2>1 DEF Pump
    <3>2. QED
      BY <1>2, <2>1, <3>1, WriteTurnPumps
  <2>2. CASE s.proc = 0 /\ spawnWorks
    <3>1. Pump(s, spawnWorks) = SpawnProc(s)
      BY <1>2, <2>2 DEF Pump
    <3>2. QED
      BY <1>2, <2>2, <3>1, SpawnProcPumps
  <2>3. CASE s.proc = 0 /\ ~spawnWorks
    <3>1. Pump(s, spawnWorks) = SpawnThrows(s)
      BY <1>2, <2>3 DEF Pump
    <3>2. QED
      BY <1>2, <2>3, <3>1, SpawnThrowsPumps
  <2>4. QED
    BY <2>1, <2>2, <2>3
<1>3. QED
  BY <1>1, <1>2

\* The first half of a handler: the calls it settles or sends back to the queue, what the
\* processes have shown.
BeforePump(r, s) ==
  /\ \A c \in Prompt :
       \/ s.call[c] = r.call[c]
       \/ r.call[c] = "unsent" /\ s.call[c] = "waiting"
       \/ r.call[c] = "open" /\ s.call[c] \in {"waiting", "resolved", "rejected"}
       \/ r.call[c] = "waiting" /\ s.call[c] = "rejected"
  /\ s.bound = r.bound /\ r.spoke \subseteq s.spoke

\* What a step must be: the session fits, each call has moved as the contract has it, and
\* what a process has read is not written to another.
ClaudeMoves(r, t) ==
  \A c \in Prompt :
    \/ t.call[c] = r.call[c]
    \/ r.call[c] = "unsent" /\ t.call[c] \in {"waiting", "open", "rejected"}
    \/ r.call[c] = "waiting" /\ t.call[c] \in {"open", "rejected"}
    \/ r.call[c] = "open" /\ t.call[c] \in {"waiting", "resolved", "rejected"}
ClaudeGoesOn(r, t) ==
  ClaudeFits(t) /\ Driven(t) /\ ClaudeMoves(r, t) /\ WrittenIfUnread(r, t)

LEMMA StepGoesOn ==
  ASSUME NEW s, ClaudeFits(s), BeforePump(claude, s), Step(s)
  PROVE  ClaudeGoesOn(claude, claude')
<1>1. PICK spawnWorks \in BOOLEAN :
        /\ (s.proc = 0 /\ s.queue # <<>>) => s.gen < MaxGen
        /\ claude' = Pump(s, spawnWorks)
  BY DEF Step
<1> DEFINE t == Pump(s, spawnWorks)
<1>2. ClaudeFits(t) /\ Driven(t) /\ PumpMoves(s, t) /\ WrittenIfUnread(s, t)
  BY <1>1, PumpPumps
<1>3. claude' = t
  BY <1>1
<1> HIDE DEF t
<1>4. ClaudeMoves(claude, t)
  BY <1>2 DEF BeforePump, PumpMoves, ClaudeMoves
<1>5. WrittenIfUnread(claude, t)
  BY <1>2 DEF BeforePump, WrittenIfUnread
<1>6. QED
  BY <1>2, <1>3, <1>4, <1>5 DEF ClaudeGoesOn

LEMMA BeforePumpGoesOn ==
  ASSUME NEW t, ClaudeFits(t), BeforePump(claude, t), Driven(t)
  PROVE  ClaudeGoesOn(claude, t)
BY DEF BeforePump, ClaudeMoves, WrittenIfUnread, ClaudeGoesOn

\* The private methods, field by field.
LEMMA SettleTurnDoes ==
  ASSUME NEW s \in ClaudeType, NEW turn \in Prompt \cup {NoPrompt},
         turn # NoPrompt => s.call[turn] = "open", NEW outcome \in {"resolved", "rejected"}
  PROVE  LET t == SettleTurn(s, turn, outcome)
         IN  /\ t \in ClaudeType
             /\ \A c \in Prompt : t.call[c] = IF c = turn THEN outcome ELSE s.call[c]
             /\ t.proc = s.proc /\ t.gen = s.gen /\ t.os = s.os /\ t.starting = s.starting
             /\ t.busy = s.busy /\ t.queue = s.queue /\ t.active = s.active
             /\ t.bound = s.bound /\ t.sawEvent = s.sawEvent /\ t.spoke = s.spoke
<1> DEFINE t == SettleTurn(s, turn, outcome)
           calls == [s.call EXCEPT ![turn] = outcome]
<1>1. CASE turn = NoPrompt
  BY <1>1, ClaudeAssumption DEF SettleTurn
<1>2. CASE turn # NoPrompt
  <2>1. t = [s EXCEPT !.call = calls]
    BY <1>2 DEF SettleTurn
  <2>2. /\ calls \in [Prompt -> {"unsent", "waiting", "open", "resolved", "rejected"}]
        /\ \A c \in Prompt : calls[c] = IF c = turn THEN outcome ELSE s.call[c]
    BY <1>2 DEF ClaudeType
  <2> HIDE DEF calls, t
  <2>3. /\ t \in ClaudeType /\ t.call = calls
        /\ t.proc = s.proc /\ t.gen = s.gen /\ t.os = s.os /\ t.starting = s.starting
        /\ t.busy = s.busy /\ t.queue = s.queue /\ t.active = s.active
        /\ t.bound = s.bound /\ t.sawEvent = s.sawEvent /\ t.spoke = s.spoke
    BY <2>1, <2>2 DEF ClaudeType
  <2>4. QED
    BY <2>2, <2>3 DEF t
<1>3. QED
  BY <1>1, <1>2

LEMMA RequeueDoes ==
  ASSUME NEW s \in ClaudeType, NEW turn \in Prompt, s.call[turn] = "open",
         OnceEach(s.queue), turn \notin Queued(s.queue)
  PROVE  LET t == Requeue(s, turn)
         IN  /\ t \in ClaudeType
             /\ \A c \in Prompt : t.call[c] = IF c = turn THEN "waiting" ELSE s.call[c]
             /\ OnceEach(t.queue) /\ Queued(t.queue) = Queued(s.queue) \cup {turn}
             /\ t.proc = s.proc /\ t.gen = s.gen /\ t.os = s.os /\ t.starting = s.starting
             /\ t.busy = s.busy /\ t.active = s.active
             /\ t.bound = s.bound /\ t.sawEvent = s.sawEvent /\ t.spoke = s.spoke
<1> DEFINE t == Requeue(s, turn)
           calls == [s.call EXCEPT ![turn] = "waiting"]
           q == <<turn>> \o s.queue
<1>1. t = [s EXCEPT !.queue = q, !.call = calls]
  BY ClaudeAssumption DEF Requeue, ClaudeType
<1>2. /\ calls \in [Prompt -> {"unsent", "waiting", "open", "resolved", "rejected"}]
      /\ \A c \in Prompt : calls[c] = IF c = turn THEN "waiting" ELSE s.call[c]
  BY DEF ClaudeType
<1>3. s.queue \in Seq(Prompt)
  BY DEF ClaudeType
<1>4. q \in Seq(Prompt) /\ OnceEach(q) /\ Queued(q) = Queued(s.queue) \cup {turn}
  BY <1>3, QueueOps
<1> HIDE DEF calls, q
<1>5. QED
  BY <1>1, <1>2, <1>4 DEF ClaudeType

LEMMA KillClaudeDoes ==
  ASSUME NEW s \in ClaudeType, NEW g \in 0 .. MaxGen
  PROVE  LET t == KillClaude(s, g)
         IN  /\ t \in ClaudeType
             /\ \A h \in Gen : t.os[h] = "up" => s.os[h] = "up" /\ h # g
             /\ \A h \in Gen : s.os[h] = "none" => t.os[h] = "none"
             /\ t.proc = s.proc /\ t.gen = s.gen /\ t.starting = s.starting /\ t.call = s.call
             /\ t.busy = s.busy /\ t.queue = s.queue /\ t.active = s.active
             /\ t.bound = s.bound /\ t.sawEvent = s.sawEvent /\ t.spoke = s.spoke
<1> DEFINE t == KillClaude(s, g)
           state == [s.os EXCEPT ![g] = IF @ = "up" THEN "terminating" ELSE @]
<1>1. CASE g = 0
  BY <1>1 DEF KillClaude, Gen
<1>2. CASE g # 0
  <2>1. t = [s EXCEPT !.os = state]
    BY <1>2 DEF KillClaude
  <2>2. g \in Gen
    BY <1>2, ClaudeAssumption DEF Gen
  <2>3. /\ state \in [Gen -> {"none", "up", "terminating", "gone"}]
        /\ \A h \in Gen : state[h] = "up" => s.os[h] = "up" /\ h # g
        /\ \A h \in Gen : s.os[h] = "none" => state[h] = "none"
    BY <2>2 DEF ClaudeType
  <2> HIDE DEF state, t
  <2>4. /\ t \in ClaudeType /\ t.os = state
        /\ t.proc = s.proc /\ t.gen = s.gen /\ t.starting = s.starting /\ t.call = s.call
        /\ t.busy = s.busy /\ t.queue = s.queue /\ t.active = s.active
        /\ t.bound = s.bound /\ t.sawEvent = s.sawEvent /\ t.spoke = s.spoke
    BY <2>1, <2>3 DEF ClaudeType
  <2>5. QED
    BY <2>3, <2>4 DEF t
<1>3. QED
  BY <1>1, <1>2

\* The turn in flight is over, and what its process has shown is known.
LEMMA OverFits ==
  ASSUME NEW r, ClaudeFits(r), NEW t \in ClaudeType, NEW outcome \in {"resolved", "rejected"},
         t.active = NoPrompt, t.queue = r.queue, t.bound = r.bound, t.gen = r.gen,
         \A c \in Prompt : t.call[c] = IF c = r.active THEN outcome ELSE r.call[c],
         t.proc \in {0, r.proc},
         \A g \in Gen : t.os[g] = "up" => r.os[g] = "up" /\ g = t.proc,
         \A g \in Gen : r.os[g] = "none" => t.os[g] = "none",
         r.spoke \subseteq t.spoke, t.spoke \subseteq r.spoke \cup {r.proc},
         t.proc # 0 /\ ~t.sawEvent => t.proc \notin t.spoke
  PROVE  ClaudeFits(t) /\ BeforePump(r, t)
<1>1. /\ r \in ClaudeType /\ PromptsFit(r) /\ ProcessesFit(r)
      /\ Queued(r.queue) \subseteq Prompt /\ r.spoke \subseteq Gen /\ t.spoke \subseteq Gen
      /\ r.bound \in [Prompt -> 0 .. MaxGen] /\ r.gen \in Nat /\ Gen \subseteq Nat \ {0}
  BY ClaudeAssumption DEF ClaudeFits, ClaudeType, Queued, Gen
<1>2. PromptsFit(t)
  <2>1. \A c \in Prompt : t.call[c] # "open"
    BY <1>1 DEF PromptsFit
  <2>2. \A c \in Prompt : t.call[c] = "waiting" <=> c \in Queued(t.queue)
    BY <1>1 DEF PromptsFit
  <2>3. \A c \in Queued(t.queue) : t.bound[c] # 0 => t.bound[c] \notin t.spoke \cup {t.proc}
    BY <1>1 DEF PromptsFit
  <2>4. \A c \in Prompt : t.call[c] = "unsent" => t.bound[c] = 0
    BY <1>1 DEF PromptsFit
  <2>5. QED
    BY <1>1, <2>1, <2>2, <2>3, <2>4, ClaudeAssumption DEF PromptsFit
<1>3. ProcessesFit(t)
  <2>1. \A g \in Gen : g > t.gen => t.os[g] = "none" /\ g \notin t.spoke
    BY <1>1 DEF ProcessesFit
  <2>2. QED
    BY <1>1, <2>1 DEF ProcessesFit
<1>4. BeforePump(r, t)
  BY <1>1 DEF BeforePump, PromptsFit
<1>5. QED
  BY <1>2, <1>3, <1>4 DEF ClaudeFits

\* The turn in flight goes back to the head of the queue: its process, which is no longer
\* the current one, has shown nothing.
LEMMA AgainFits ==
  ASSUME NEW r, ClaudeFits(r), NEW t \in ClaudeType, r.active # NoPrompt,
         t.active = NoPrompt, OnceEach(t.queue), Queued(t.queue) = Queued(r.queue) \cup {r.active},
         t.bound = r.bound, t.gen = r.gen, t.proc = 0, t.spoke = r.spoke, r.proc \notin r.spoke,
         \A c \in Prompt : t.call[c] = IF c = r.active THEN "waiting" ELSE r.call[c],
         \A g \in Gen : t.os[g] # "up",
         \A g \in Gen : r.os[g] = "none" => t.os[g] = "none"
  PROVE  ClaudeFits(t) /\ BeforePump(r, t)
<1>1. /\ r \in ClaudeType /\ PromptsFit(r) /\ ProcessesFit(r)
      /\ Queued(r.queue) \subseteq Prompt /\ r.active \in Prompt
  BY DEF ClaudeFits, ClaudeType, Queued
<1>2. PromptsFit(t)
  <2>1. \A c \in Prompt : t.call[c] # "open"
    BY <1>1 DEF PromptsFit
  <2>2. \A c \in Prompt : t.call[c] = "waiting" <=> c \in Queued(t.queue)
    BY <1>1 DEF PromptsFit
  <2>3. \A c \in Queued(t.queue) : t.bound[c] # 0 => t.bound[c] \notin t.spoke \cup {t.proc}
    BY <1>1 DEF PromptsFit
  <2>4. \A c \in Prompt : t.call[c] = "unsent" => t.bound[c] = 0
    BY <1>1 DEF PromptsFit
  <2>5. QED
    BY <1>1, <2>1, <2>2, <2>3, <2>4, ClaudeAssumption DEF PromptsFit
<1>3. ProcessesFit(t)
  BY <1>1 DEF ProcessesFit
<1>4. BeforePump(r, t)
  BY <1>1 DEF BeforePump, PromptsFit
<1>5. QED
  BY <1>2, <1>3, <1>4 DEF ClaudeFits

\* send().
LEMMA SendPromptGoesOn ==
  ASSUME ClaudeInv, NEW c \in Prompt, SendPrompt(c)
  PROVE  ClaudeGoesOn(claude, claude')
<1> DEFINE q == Append(claude.queue, c)
           calls == [claude.call EXCEPT ![c] = "waiting"]
           s == [claude EXCEPT !.queue = q, !.call = calls]
<1>1. /\ claude \in ClaudeType /\ PromptsFit(claude) /\ ProcessesFit(claude)
      /\ claude.call[c] = "unsent" /\ claude.queue \in Seq(Prompt) /\ OnceEach(claude.queue)
      /\ claude.call \in [Prompt -> {"unsent", "waiting", "open", "resolved", "rejected"}]
  BY DEF ClaudeInv, ClaudeFits, ClaudeType, SendPrompt, PromptsFit
<1>2. Step(s)
  BY DEF SendPrompt
<1>3. c \notin Queued(claude.queue)
  BY <1>1 DEF PromptsFit
<1>4. q \in Seq(Prompt) /\ OnceEach(q) /\ Queued(q) = Queued(claude.queue) \cup {c}
  BY <1>1, <1>3, QueueOps
<1>5. /\ calls \in [Prompt -> {"unsent", "waiting", "open", "resolved", "rejected"}]
      /\ \A d \in Prompt : calls[d] = IF d = c THEN "waiting" ELSE claude.call[d]
  BY <1>1
<1> HIDE DEF q, calls
<1>6. /\ s \in ClaudeType /\ s.queue = q /\ s.call = calls
      /\ s.proc = claude.proc /\ s.gen = claude.gen /\ s.os = claude.os /\ s.busy = claude.busy
      /\ s.active = claude.active /\ s.bound = claude.bound
      /\ s.sawEvent = claude.sawEvent /\ s.spoke = claude.spoke
  BY <1>1, <1>4, <1>5 DEF ClaudeType
<1> HIDE DEF s
<1>7. PromptsFit(s)
  BY <1>1, <1>4, <1>5, <1>6 DEF PromptsFit
<1>8. ProcessesFit(s)
  BY <1>1, <1>6 DEF ProcessesFit
<1>9. BeforePump(claude, s)
  BY <1>1, <1>5, <1>6 DEF BeforePump
<1>10. ClaudeFits(s)
  BY <1>6, <1>7, <1>8 DEF ClaudeFits
<1>11. QED
  BY <1>2, <1>9, <1>10, StepGoesOn

\* The startup delay, the resume grace, and the death of a process.
LEMMA ClaudeTimersGoOn ==
  ASSUME ClaudeInv, StartupDelayEnds \/ GraceEnds \/ \E g \in Gen : ClaudeDies(g)
  PROVE  ClaudeGoesOn(claude, claude')
<1>1. claude \in ClaudeType /\ PromptsFit(claude) /\ ProcessesFit(claude) /\ Driven(claude)
  BY DEF ClaudeInv, ClaudeFits
<1>2. CASE StartupDelayEnds
  <2> DEFINE s == [claude EXCEPT !.starting = FALSE]
  <2>1. Step(s)
    BY <1>2 DEF StartupDelayEnds
  <2>2. /\ s \in ClaudeType /\ s.queue = claude.queue /\ s.call = claude.call
        /\ s.proc = claude.proc /\ s.gen = claude.gen /\ s.os = claude.os /\ s.busy = claude.busy
        /\ s.active = claude.active /\ s.bound = claude.bound
        /\ s.sawEvent = claude.sawEvent /\ s.spoke = claude.spoke
    BY <1>1 DEF ClaudeType
  <2> HIDE DEF s
  <2>3. ClaudeFits(s) /\ BeforePump(claude, s)
    BY <1>1, <2>2 DEF ClaudeFits, PromptsFit, ProcessesFit, BeforePump
  <2>4. QED
    BY <2>1, <2>3, StepGoesOn
<1>3. CASE GraceEnds
  <2>1. /\ claude' \in ClaudeType /\ claude'.queue = claude.queue /\ claude'.call = claude.call
        /\ claude'.proc = claude.proc /\ claude'.gen = claude.gen /\ claude'.os = claude.os
        /\ claude'.busy = claude.busy /\ claude'.starting = claude.starting
        /\ claude'.stranded = claude.stranded
        /\ claude'.active = claude.active /\ claude'.bound = claude.bound
        /\ claude'.sawEvent = claude.sawEvent /\ claude'.spoke = claude.spoke
    BY <1>1, <1>3 DEF ClaudeType, GraceEnds
  <2>2. ClaudeFits(claude') /\ BeforePump(claude, claude') /\ Driven(claude')
    BY <1>1, <2>1 DEF ClaudeFits, PromptsFit, ProcessesFit, BeforePump, Driven
  <2>3. QED
    BY <2>2, BeforePumpGoesOn
<1>4. ASSUME NEW g \in Gen, ClaudeDies(g) PROVE ClaudeGoesOn(claude, claude')
  <2> DEFINE state == [claude.os EXCEPT ![g] = "gone"]
  <2>1. claude.os[g] # "none" /\ claude' = [claude EXCEPT !.os = state]
    BY <1>4 DEF ClaudeDies
  <2>2. /\ state \in [Gen -> {"none", "up", "terminating", "gone"}]
        /\ \A h \in Gen : state[h] = IF h = g THEN "gone" ELSE claude.os[h]
    BY <1>1 DEF ClaudeType
  <2> HIDE DEF state
  <2>3. /\ claude' \in ClaudeType /\ claude'.queue = claude.queue /\ claude'.call = claude.call
        /\ claude'.proc = claude.proc /\ claude'.gen = claude.gen /\ claude'.os = state
        /\ claude'.busy = claude.busy /\ claude'.starting = claude.starting
        /\ claude'.stranded = claude.stranded
        /\ claude'.active = claude.active /\ claude'.bound = claude.bound
        /\ claude'.sawEvent = claude.sawEvent /\ claude'.spoke = claude.spoke
    BY <1>1, <2>1, <2>2 DEF ClaudeType
  <2>4. PromptsFit(claude') /\ BeforePump(claude, claude') /\ Driven(claude')
    BY <1>1, <2>3 DEF PromptsFit, BeforePump, Driven
  <2>5. ProcessesFit(claude')
    BY <1>1, <2>1, <2>2, <2>3 DEF ProcessesFit
  <2>6. QED
    BY <2>3, <2>4, <2>5, BeforePumpGoesOn DEF ClaudeFits
<1>5. QED
  BY <1>2, <1>3, <1>4

\* An exit event: late, or of the current process.
LEMMA ExitArrivesGoesOn ==
  ASSUME ClaudeInv, NEW g \in Gen, ExitArrives(g)
  PROVE  ClaudeGoesOn(claude, claude')
<1> DEFINE s == [claude EXCEPT !.told = @ \cup {g}]
           own == IF s.active # NoPrompt /\ s.bound[s.active] = g THEN s.active ELSE NoPrompt
           vacated == [s EXCEPT !.active = NoPrompt]
           resumeFailed == s.resumed /\ ~s.sawEvent /\ s.inGrace
<1>1. /\ claude \in ClaudeType /\ PromptsFit(claude) /\ ProcessesFit(claude) /\ Driven(claude)
      /\ ClaudeFits(claude) /\ claude.os[g] = "gone" /\ claude.active \in Prompt \cup {NoPrompt}
  BY DEF ClaudeInv, ClaudeFits, ExitArrives, ClaudeType
<1>2. IF g # s.proc
      THEN claude' = IF own = NoPrompt THEN s ELSE SettleTurn(vacated, own, "rejected")
      ELSE IF resumeFailed
      THEN Step(Requeue(Cleanup(DiscardFailedResume(vacated)), own))
      ELSE Step(SettleTurn(Cleanup(vacated), own, "rejected"))
  BY DEF ExitArrives
<1>3. /\ s \in ClaudeType /\ s.queue = claude.queue /\ s.call = claude.call
      /\ s.proc = claude.proc /\ s.gen = claude.gen /\ s.os = claude.os
      /\ s.busy = claude.busy /\ s.starting = claude.starting /\ s.stranded = claude.stranded
      /\ s.active = claude.active /\ s.bound = claude.bound
      /\ s.sawEvent = claude.sawEvent /\ s.spoke = claude.spoke
  BY <1>1 DEF ClaudeType
<1> HIDE DEF s
<1>4. claude.active # NoPrompt => claude.bound[claude.active] = claude.proc
  BY <1>1 DEF PromptsFit
<1>5. CASE g # claude.proc
  <2>1. own = NoPrompt
    BY <1>3, <1>4, <1>5
  <2>2. claude' = s
    BY <1>2, <1>3, <1>5, <2>1
  <2>3. ClaudeFits(s) /\ BeforePump(claude, s) /\ Driven(s)
    BY <1>1, <1>3 DEF ClaudeFits, PromptsFit, ProcessesFit, BeforePump, Driven
  <2>4. QED
    BY <2>2, <2>3, BeforePumpGoesOn
<1>6. CASE g = claude.proc
  <2>1. own = claude.active
    BY <1>3, <1>4, <1>6
  <2>2. \A h \in Gen : claude.os[h] # "up"
    BY <1>1, <1>6 DEF ProcessesFit
  <2>3. 0 \in 0 .. MaxGen /\ NoPrompt \in Prompt \cup {NoPrompt}
    BY ClaudeAssumption
  <2>4. \A c \in Prompt : claude.call[c] = "open" <=> c = claude.active
    BY <1>1 DEF PromptsFit
  <2> HIDE DEF own
  <2>5. CASE ~resumeFailed
    <3> DEFINE v == Cleanup(vacated)
               t == SettleTurn(v, claude.active, "rejected")
    <3>1. Step(t)
      BY <1>2, <1>3, <1>6, <2>1, <2>5
    <3>2. /\ v \in ClaudeType /\ v.queue = claude.queue /\ v.call = claude.call
          /\ v.proc = 0 /\ v.gen = claude.gen /\ v.os = claude.os
          /\ v.active = NoPrompt /\ v.bound = claude.bound /\ v.spoke = claude.spoke
      BY <1>3, <2>3 DEF ClaudeType, Cleanup
    <3> HIDE DEF v
    <3>3. /\ t \in ClaudeType
          /\ \A c \in Prompt : t.call[c] = IF c = claude.active THEN "rejected" ELSE v.call[c]
          /\ t.proc = v.proc /\ t.gen = v.gen /\ t.os = v.os /\ t.queue = v.queue
          /\ t.active = v.active /\ t.bound = v.bound /\ t.spoke = v.spoke
      <4>1. claude.active # NoPrompt => v.call[claude.active] = "open"
        BY <1>1, <2>4, <3>2
      <4>2. QED
        BY <1>1, <3>2, <4>1, SettleTurnDoes
    <3> HIDE DEF t
    <3>4. ClaudeFits(t) /\ BeforePump(claude, t)
      BY <1>1, <2>2, <3>2, <3>3, OverFits
    <3>5. QED
      BY <3>1, <3>4, StepGoesOn
  <2>6. CASE resumeFailed
    <3> DEFINE v == Cleanup(DiscardFailedResume(vacated))
               t == Requeue(v, claude.active)
    <3>1. Step(t)
      BY <1>2, <1>3, <1>6, <2>1, <2>6
    <3>2. /\ v \in ClaudeType /\ v.queue = claude.queue /\ v.call = claude.call
          /\ v.proc = 0 /\ v.gen = claude.gen /\ v.os = claude.os
          /\ v.active = NoPrompt /\ v.bound = claude.bound /\ v.spoke = claude.spoke
      BY <1>3, <2>3 DEF ClaudeType, Cleanup, DiscardFailedResume
    <3>3. claude.proc \notin claude.spoke
      BY <1>1, <1>3, <1>6, <2>6, ClaudeAssumption DEF ProcessesFit, Gen
    <3> HIDE DEF v
    <3>4. CASE claude.active = NoPrompt
      <4>1. t = v
        BY <3>4 DEF Requeue
      <4>2. \A c \in Prompt : v.call[c] = IF c = claude.active THEN "rejected" ELSE claude.call[c]
        BY <3>2, <3>4, ClaudeAssumption
      <4>3. ClaudeFits(v) /\ BeforePump(claude, v)
        BY <1>1, <2>2, <3>2, <4>2, OverFits
      <4>4. QED
        BY <3>1, <4>1, <4>3, StepGoesOn
    <3>5. CASE claude.active # NoPrompt
      <4>1. /\ claude.active \in Prompt /\ v.call[claude.active] = "open" /\ OnceEach(v.queue)
            /\ claude.active \notin Queued(v.queue)
        BY <1>1, <2>4, <3>2, <3>5 DEF PromptsFit
      <4>2. /\ t \in ClaudeType
            /\ \A c \in Prompt : t.call[c] = IF c = claude.active THEN "waiting" ELSE v.call[c]
            /\ OnceEach(t.queue) /\ Queued(t.queue) = Queued(v.queue) \cup {claude.active}
            /\ t.proc = v.proc /\ t.gen = v.gen /\ t.os = v.os /\ t.active = v.active
            /\ t.bound = v.bound /\ t.spoke = v.spoke
        BY <3>2, <4>1, RequeueDoes
      <4> HIDE DEF t
      <4>3. ClaudeFits(t) /\ BeforePump(claude, t)
        BY <1>1, <2>2, <3>2, <3>3, <3>5, <4>2, AgainFits
      <4>4. QED
        BY <3>1, <4>3, StepGoesOn
    <3>6. QED
      BY <3>4, <3>5
  <2>7. QED
    BY <2>5, <2>6
<1>7. QED
  BY <1>5, <1>6

\* An event of the current process: unknown, the end of the turn, or the proof that the
\* conversation could not be resumed.
LEMMA EventArrivesGoesOn ==
  ASSUME ClaudeInv, EventArrives
  PROVE  ClaudeGoesOn(claude, claude')
<1>1. PICK event \in {"system", "error", "other", "result", "errorResult"} :
       LET g == claude.proc
           seen == [claude EXCEPT !.sawEvent = TRUE, !.spoke = @ \cup {g},
                                  !.sessionId = @ \/ event = "system"]
           ended == [seen EXCEPT !.active = NoPrompt, !.busy = FALSE]
           failed == Requeue(Cleanup(DiscardFailedResume(
                               [claude EXCEPT !.active = NoPrompt])), claude.active)
       IN  IF claude.resumed /\ ~claude.sawEvent /\ event \in {"error", "errorResult"}
           THEN Step(KillClaude(failed, g))
           ELSE IF event \in {"result", "errorResult"}
           THEN Step(SettleTurn(ended, claude.active, "resolved"))
           ELSE claude' = seen
  BY DEF EventArrives
<1> DEFINE g == claude.proc
           seen == [claude EXCEPT !.sawEvent = TRUE, !.spoke = @ \cup {g},
                                  !.sessionId = @ \/ event = "system"]
           ended == [seen EXCEPT !.active = NoPrompt, !.busy = FALSE]
           v == Cleanup(DiscardFailedResume([claude EXCEPT !.active = NoPrompt]))
           failed == Requeue(v, claude.active)
<1>2. /\ claude \in ClaudeType /\ PromptsFit(claude) /\ ProcessesFit(claude) /\ Driven(claude)
      /\ ClaudeFits(claude) /\ claude.proc # 0 /\ claude.active \in Prompt \cup {NoPrompt}
      /\ g \in 0 .. MaxGen /\ g \in Gen /\ 0 \in 0 .. MaxGen /\ NoPrompt \in Prompt \cup {NoPrompt}
  BY ClaudeAssumption DEF ClaudeInv, ClaudeFits, EventArrives, ClaudeType, Gen
<1>3. \A c \in Prompt : claude.call[c] = "open" <=> c = claude.active
  BY <1>2 DEF PromptsFit
<1>4. /\ seen \in ClaudeType /\ seen.queue = claude.queue /\ seen.call = claude.call
      /\ seen.proc = g /\ seen.gen = claude.gen /\ seen.os = claude.os
      /\ seen.busy = claude.busy /\ seen.starting = claude.starting
      /\ seen.stranded = claude.stranded /\ seen.active = claude.active
      /\ seen.bound = claude.bound /\ seen.sawEvent = TRUE /\ seen.spoke = claude.spoke \cup {g}
  BY <1>2 DEF ClaudeType
<1>5. CASE claude.resumed /\ ~claude.sawEvent /\ event \in {"error", "errorResult"}
  <2> DEFINE t == KillClaude(failed, g)
  <2>1. Step(t)
    BY <1>1, <1>5
  <2>2. /\ v \in ClaudeType /\ v.queue = claude.queue /\ v.call = claude.call
        /\ v.proc = 0 /\ v.gen = claude.gen /\ v.os = claude.os
        /\ v.active = NoPrompt /\ v.bound = claude.bound /\ v.spoke = claude.spoke
    BY <1>2 DEF ClaudeType, Cleanup, DiscardFailedResume
  <2> HIDE DEF v
  <2>3. claude.proc \notin claude.spoke /\ \A h \in Gen : claude.os[h] = "up" => h = g
    BY <1>2, <1>5 DEF ProcessesFit
  <2> HIDE DEF g
  <2>4. CASE claude.active = NoPrompt
    <3>1. failed = v
      BY <2>4 DEF Requeue
    <3> HIDE DEF failed
    <3>2. /\ t \in ClaudeType /\ (\A h \in Gen : t.os[h] = "up" => v.os[h] = "up" /\ h # g)
          /\ (\A h \in Gen : v.os[h] = "none" => t.os[h] = "none")
          /\ t.proc = v.proc /\ t.gen = v.gen /\ t.call = v.call /\ t.queue = v.queue
          /\ t.active = v.active /\ t.bound = v.bound /\ t.spoke = v.spoke
      BY <1>2, <2>2, <3>1, KillClaudeDoes
    <3> HIDE DEF t
    <3>3. \A c \in Prompt : t.call[c] = IF c = claude.active THEN "rejected" ELSE claude.call[c]
      BY <2>2, <2>4, <3>2, ClaudeAssumption
    <3>4. ClaudeFits(t) /\ BeforePump(claude, t)
      BY <1>2, <2>2, <2>3, <3>2, <3>3, OverFits
    <3>5. QED
      BY <2>1, <3>4, StepGoesOn
  <2>5. CASE claude.active # NoPrompt
    <3>1. /\ claude.active \in Prompt /\ v.call[claude.active] = "open" /\ OnceEach(v.queue)
          /\ claude.active \notin Queued(v.queue)
      BY <1>2, <1>3, <2>2, <2>5 DEF PromptsFit
    <3>2. /\ failed \in ClaudeType
          /\ \A c \in Prompt : failed.call[c] = IF c = claude.active THEN "waiting" ELSE v.call[c]
          /\ OnceEach(failed.queue) /\ Queued(failed.queue) = Queued(v.queue) \cup {claude.active}
          /\ failed.proc = v.proc /\ failed.gen = v.gen /\ failed.os = v.os
          /\ failed.active = v.active /\ failed.bound = v.bound /\ failed.spoke = v.spoke
      BY <2>2, <3>1, RequeueDoes
    <3> HIDE DEF failed
    <3>3. /\ t \in ClaudeType /\ (\A h \in Gen : t.os[h] = "up" => failed.os[h] = "up" /\ h # g)
          /\ (\A h \in Gen : failed.os[h] = "none" => t.os[h] = "none")
          /\ t.proc = failed.proc /\ t.gen = failed.gen /\ t.call = failed.call
          /\ t.queue = failed.queue /\ t.active = failed.active /\ t.bound = failed.bound
          /\ t.spoke = failed.spoke
      BY <1>2, <3>2, KillClaudeDoes
    <3> HIDE DEF t
    <3>4. ClaudeFits(t) /\ BeforePump(claude, t)
      BY <1>2, <2>2, <2>3, <2>5, <3>2, <3>3, AgainFits
    <3>5. QED
      BY <2>1, <3>4, StepGoesOn
  <2>6. QED
    BY <2>4, <2>5
<1>6. CASE /\ ~(claude.resumed /\ ~claude.sawEvent /\ event \in {"error", "errorResult"})
           /\ event \in {"result", "errorResult"}
  <2> DEFINE t == SettleTurn(ended, claude.active, "resolved")
  <2>1. Step(t)
    BY <1>1, <1>6
  <2> HIDE DEF seen, g
  <2>2. /\ ended \in ClaudeType /\ ended.queue = claude.queue /\ ended.call = claude.call
        /\ ended.proc = g /\ ended.gen = claude.gen /\ ended.os = claude.os
        /\ ended.active = NoPrompt /\ ended.bound = claude.bound /\ ended.sawEvent = TRUE
        /\ ended.spoke = claude.spoke \cup {g}
    BY <1>2, <1>4 DEF ClaudeType
  <2> HIDE DEF ended
  <2>3. claude.active # NoPrompt => ended.call[claude.active] = "open"
    BY <1>2, <1>3, <2>2
  <2>4. /\ t \in ClaudeType
        /\ \A c \in Prompt : t.call[c] = IF c = claude.active THEN "resolved" ELSE ended.call[c]
        /\ t.proc = ended.proc /\ t.gen = ended.gen /\ t.os = ended.os /\ t.queue = ended.queue
        /\ t.active = ended.active /\ t.bound = ended.bound /\ t.spoke = ended.spoke
        /\ t.sawEvent = ended.sawEvent
    BY <1>2, <2>2, <2>3, SettleTurnDoes
  <2> HIDE DEF t
  <2>5. \A h \in Gen : claude.os[h] = "up" => h = claude.proc
    BY <1>2 DEF ProcessesFit
  <2>6. ClaudeFits(t) /\ BeforePump(claude, t)
    BY <1>2, <2>2, <2>4, <2>5, OverFits DEF g
  <2>7. QED
    BY <2>1, <2>6, StepGoesOn
<1>7. CASE /\ ~(claude.resumed /\ ~claude.sawEvent /\ event \in {"error", "errorResult"})
           /\ event \notin {"result", "errorResult"}
  <2>1. claude' = seen
    BY <1>1, <1>7
  <2> HIDE DEF seen, g
  <2>2. \A c \in Queued(claude.queue) : claude.bound[c] # 0 => claude.bound[c] # g
    BY <1>2 DEF PromptsFit, g
  <2>3. PromptsFit(seen)
    BY <1>2, <1>4, <2>2 DEF PromptsFit, g
  <2>4. ProcessesFit(seen)
    <3>1. g = claude.gen /\ claude.gen \in Nat
      BY <1>2, ClaudeAssumption DEF ProcessesFit, ClaudeType, g
    <3>2. \A h \in Gen : h > claude.gen => h # g
      BY <1>2, <3>1 DEF Gen
    <3>3. QED
      BY <1>2, <1>4, <3>1, <3>2 DEF ProcessesFit, g
  <2>5. BeforePump(claude, seen) /\ Driven(seen)
    BY <1>2, <1>4 DEF BeforePump, Driven
  <2>6. QED
    BY <1>4, <2>1, <2>3, <2>4, <2>5, BeforePumpGoesOn DEF ClaudeFits
<1>8. QED
  BY <1>5, <1>6, <1>7

\* The turn timeout.
LEMMA TurnFallsSilentGoesOn ==
  ASSUME ClaudeInv, TurnFallsSilent
  PROVE  ClaudeGoesOn(claude, claude')
<1> DEFINE s == [claude EXCEPT !.active = NoPrompt]
           u == SettleTurn(s, claude.active, "rejected")
           v == Cleanup(u)
           t == KillClaude(v, claude.proc)
<1>1. /\ claude \in ClaudeType /\ PromptsFit(claude) /\ ProcessesFit(claude)
      /\ ClaudeFits(claude) /\ claude.active \in Prompt \cup {NoPrompt} /\ Step(t)
      /\ claude.proc \in 0 .. MaxGen /\ 0 \in 0 .. MaxGen /\ NoPrompt \in Prompt \cup {NoPrompt}
  BY ClaudeAssumption DEF ClaudeInv, ClaudeFits, TurnFallsSilent, ClaudeType
<1>2. /\ \A c \in Prompt : claude.call[c] = "open" <=> c = claude.active
      /\ \A h \in Gen : claude.os[h] = "up" => h = claude.proc
  BY <1>1 DEF PromptsFit, ProcessesFit
<1>3. /\ s \in ClaudeType /\ s.queue = claude.queue /\ s.call = claude.call
      /\ s.proc = claude.proc /\ s.gen = claude.gen /\ s.os = claude.os
      /\ s.active = NoPrompt /\ s.bound = claude.bound /\ s.spoke = claude.spoke
  BY <1>1 DEF ClaudeType
<1> HIDE DEF s
<1>4. claude.active # NoPrompt => s.call[claude.active] = "open"
  BY <1>1, <1>2, <1>3
<1>5. /\ u \in ClaudeType
      /\ \A c \in Prompt : u.call[c] = IF c = claude.active THEN "rejected" ELSE s.call[c]
      /\ u.proc = s.proc /\ u.gen = s.gen /\ u.os = s.os /\ u.queue = s.queue
      /\ u.active = s.active /\ u.bound = s.bound /\ u.spoke = s.spoke
  BY <1>1, <1>3, <1>4, SettleTurnDoes
<1> HIDE DEF u
<1>6. /\ v \in ClaudeType /\ v.call = u.call /\ v.proc = 0 /\ v.gen = u.gen /\ v.os = u.os
      /\ v.queue = u.queue /\ v.active = u.active /\ v.bound = u.bound /\ v.spoke = u.spoke
  BY <1>1, <1>5 DEF ClaudeType, Cleanup
<1> HIDE DEF v
<1>7. /\ t \in ClaudeType /\ (\A h \in Gen : t.os[h] = "up" => v.os[h] = "up" /\ h # claude.proc)
      /\ (\A h \in Gen : v.os[h] = "none" => t.os[h] = "none")
      /\ t.proc = v.proc /\ t.gen = v.gen /\ t.call = v.call /\ t.queue = v.queue
      /\ t.active = v.active /\ t.bound = v.bound /\ t.spoke = v.spoke
  BY <1>1, <1>6, KillClaudeDoes
<1> HIDE DEF t
<1>8. ClaudeFits(t) /\ BeforePump(claude, t)
  BY <1>1, <1>2, <1>3, <1>5, <1>6, <1>7, OverFits
<1>9. QED
  BY <1>1, <1>8, StepGoesOn

\* stop(): nobody is left waiting.
LEMMA StopClaudeGoesOn ==
  ASSUME ClaudeInv, StopClaude
  PROVE  ClaudeGoesOn(claude, claude')
<1> DEFINE unsettled == {c \in Prompt : claude.call[c] \in {"waiting", "open"}}
           calls == [c \in Prompt |-> IF c \in unsettled THEN "rejected" ELSE claude.call[c]]
           s == [claude EXCEPT !.active = NoPrompt, !.queue = <<>>, !.call = calls]
           v == Cleanup(s)
           t == KillClaude(v, claude.proc)
<1>1. /\ claude \in ClaudeType /\ PromptsFit(claude) /\ ProcessesFit(claude) /\ claude' = t
      /\ claude.proc \in 0 .. MaxGen /\ 0 \in 0 .. MaxGen /\ NoPrompt \in Prompt \cup {NoPrompt}
      /\ <<>> \in Seq(Prompt)
  BY ClaudeAssumption DEF ClaudeInv, ClaudeFits, StopClaude, ClaudeType
<1>2. /\ calls \in [Prompt -> {"unsent", "waiting", "open", "resolved", "rejected"}]
      /\ \A c \in Prompt : /\ calls[c] \notin {"waiting", "open"}
                           /\ \/ calls[c] = claude.call[c]
                              \/ claude.call[c] \in {"waiting", "open"} /\ calls[c] = "rejected"
  BY <1>1 DEF ClaudeType
<1> HIDE DEF calls
<1>3. /\ v \in ClaudeType /\ v.call = calls /\ v.proc = 0 /\ v.gen = claude.gen
      /\ v.os = claude.os /\ v.queue = <<>> /\ v.active = NoPrompt /\ v.bound = claude.bound
      /\ v.spoke = claude.spoke
  BY <1>1, <1>2 DEF ClaudeType, Cleanup
<1> HIDE DEF v
<1>4. /\ t \in ClaudeType /\ (\A h \in Gen : t.os[h] = "up" => v.os[h] = "up" /\ h # claude.proc)
      /\ (\A h \in Gen : v.os[h] = "none" => t.os[h] = "none")
      /\ t.proc = v.proc /\ t.gen = v.gen /\ t.call = v.call /\ t.queue = v.queue
      /\ t.active = v.active /\ t.bound = v.bound /\ t.spoke = v.spoke
  BY <1>1, <1>3, KillClaudeDoes
<1> HIDE DEF t
<1>5. Queued(t.queue) = {} /\ OnceEach(t.queue)
  BY <1>3, <1>4 DEF Queued, OnceEach
<1>6. PromptsFit(t)
  <2>1. \A c \in Prompt : t.call[c] = "unsent" => t.bound[c] = 0
    BY <1>1, <1>2, <1>3, <1>4 DEF PromptsFit
  <2>2. QED
    BY <1>2, <1>3, <1>4, <1>5, <2>1, ClaudeAssumption DEF PromptsFit
<1>7. ProcessesFit(t)
  BY <1>1, <1>3, <1>4 DEF ProcessesFit
<1>8. BeforePump(claude, t) /\ Driven(t)
  BY <1>1, <1>2, <1>3, <1>4 DEF BeforePump, Driven
<1>9. QED
  BY <1>1, <1>4, <1>6, <1>7, <1>8, BeforePumpGoesOn DEF ClaudeFits

\* Every step of the session.
LEMMA ClaudeStepGoesOn ==
  ASSUME ClaudeInv, [ClaudeNext]_claude
  PROVE  ClaudeGoesOn(claude, claude')
<1>1. CASE claude' = claude
  BY <1>1 DEF ClaudeInv, ClaudeGoesOn, ClaudeMoves, WrittenIfUnread
<1>2. CASE ClaudeNext
  BY <1>2, SendPromptGoesOn, ClaudeTimersGoOn, ExitArrivesGoesOn, EventArrivesGoesOn,
     TurnFallsSilentGoesOn, StopClaudeGoesOn DEF ClaudeNext
<1>3. QED
  BY <1>1, <1>2

LEMMA ClaudeStart == ClaudeInit => ClaudeInv
<1> SUFFICES ASSUME ClaudeInit PROVE ClaudeInv
  OBVIOUS
<1>1. claude \in ClaudeType
  BY ClaudeAssumption DEF ClaudeInit, ClaudeType
<1>2. /\ \A c \in Prompt : claude.call[c] = "unsent" /\ claude.bound[c] = 0
      /\ \A g \in Gen : claude.os[g] = "none"
      /\ claude.queue = <<>> /\ claude.active = NoPrompt /\ claude.proc = 0 /\ claude.gen = 0
      /\ claude.spoke = {}
  BY DEF ClaudeInit
<1>3. Queued(claude.queue) = {} /\ OnceEach(claude.queue)
  BY <1>2 DEF Queued, OnceEach
<1>4. PromptsFit(claude)
  BY <1>2, <1>3, ClaudeAssumption DEF PromptsFit
<1>5. ProcessesFit(claude)
  BY <1>2 DEF ProcessesFit
<1>6. QED
  BY <1>1, <1>2, <1>4, <1>5 DEF ClaudeInv, ClaudeFits, Driven

\* The session fits for any number of messages and processes, whatever order their events,
\* their exits, the timers and the calls come in.
THEOREM ClaudeInvariantHolds == ClaudeSpec => []ClaudeInv
<1>1. ClaudeInit => ClaudeInv
  BY ClaudeStart
<1>2. ClaudeInv /\ [ClaudeNext]_claude => ClaudeInv'
  BY ClaudeStepGoesOn DEF ClaudeGoesOn, ClaudeInv
<1>3. QED
  BY <1>1, <1>2, PTL DEF ClaudeSpec

\* Whoever waits is queued or in flight with the process that is there now, a queue has
\* something that will pump it, and no process but the current one is left running.
THEOREM ClaudeCallsStayHeld == ClaudeSpec => []ClaudeCallsAreHeld
<1>1. ClaudeInv => ClaudeCallsAreHeld
  <2> SUFFICES ASSUME ClaudeInv PROVE ClaudeCallsAreHeld
    OBVIOUS
  <2>1. PromptsFit(claude) /\ ProcessesFit(claude) /\ claude.queue \in Seq(Prompt)
    BY DEF ClaudeInv, ClaudeFits, ClaudeType
  <2>2. UnsettledIsHeld
    <3>1. DOMAIN claude.queue = 1 .. Len(claude.queue)
      BY <2>1
    <3>2. \A c \in Prompt :
            claude.call[c] = "waiting" <=> \E i \in DOMAIN claude.queue : claude.queue[i] = c
      BY <2>1, <3>1 DEF PromptsFit, Queued
    <3>3. \A c \in Prompt : claude.call[c] = "open" <=> claude.active = c
      BY <2>1 DEF PromptsFit
    <3>4. claude.active # NoPrompt =>
            claude.busy /\ claude.proc # 0 /\ claude.bound[claude.active] = claude.proc
      BY <2>1 DEF PromptsFit
    <3>5. QED
      BY <3>2, <3>3, <3>4 DEF UnsettledIsHeld
  <2>3. QueueIsDriven
    BY DEF ClaudeInv, Driven, QueueIsDriven
  <2>4. NoStrayClaude
    BY <2>1 DEF ProcessesFit, NoStrayClaude
  <2>5. QED
    BY <2>2, <2>3, <2>4 DEF ClaudeCallsAreHeld
<1>2. QED
  BY <1>1, ClaudeInvariantHolds, PTL

\* A message goes to a second process only if the first had shown no event.
THEOREM NothingReadIsRewritten == ClaudeSpec => RewrittenOnlyIfUnread
<1> DEFINE Unread == \A c \in Prompt :
                       (claude.bound[c] # 0 /\ claude'.bound[c] # claude.bound[c])
                         => claude.bound[c] \notin claude.spoke
<1>1. ClaudeInv /\ [ClaudeNext]_claude => [Unread]_claude
  BY ClaudeStepGoesOn DEF ClaudeGoesOn, WrittenIfUnread
<1> HIDE DEF Unread
<1>2. ClaudeSpec => [][Unread]_claude
  BY <1>1, ClaudeInvariantHolds, PTL DEF ClaudeSpec
<1>3. QED
  BY <1>2 DEF RewrittenOnlyIfUnread, Unread

\* Seen by its caller the resident process is a SessionContract too.
THEOREM ClaudeImplementsTheContract == ClaudeSpec => ClaudeKeepsContract
<1>1. ClaudeInit => ClaudeContract!ContractInit
  BY DEF ClaudeInit, ClaudeContract!ContractInit
<1>2. ClaudeInv /\ [ClaudeNext]_claude => [ClaudeContract!ContractStep]_(claude.call)
  <2> SUFFICES ASSUME ClaudeInv, [ClaudeNext]_claude
               PROVE  ClaudeContract!ContractStep
    OBVIOUS
  <2>1. ClaudeFits(claude') /\ ClaudeMoves(claude, claude')
    BY ClaudeStepGoesOn DEF ClaudeGoesOn
  <2>2. claude'.call \in [Prompt -> ClaudeContract!CallState]
    BY <2>1 DEF ClaudeFits, ClaudeType, ClaudeContract!CallState
  <2>3. \A c \in Prompt : \/ claude'.call[c] = claude.call[c]
                          \/ <<claude.call[c], claude'.call[c]>> \in ClaudeContract!Moves
    BY <2>1 DEF ClaudeMoves, ClaudeContract!Moves
  <2>4. \A c, d \in Prompt : claude'.call[c] = "open" /\ claude'.call[d] = "open" => c = d
    BY <2>1 DEF ClaudeFits, PromptsFit
  <2>5. QED
    BY <2>2, <2>3, <2>4 DEF ClaudeContract!ContractStep
<1>3. QED
  BY <1>1, <1>2, ClaudeInvariantHolds, PTL
  DEF ClaudeSpec, ClaudeKeepsContract, ClaudeContract!ContractSpec
=============================================================================
