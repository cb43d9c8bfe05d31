------------------------------- MODULE TurnGuard -------------------------------
(* What the daemon does around the turns of one agent so that the channel gets its  *)
(* answer: the guard that notices whether the agent has sent something, and the       *)
(* progress message that is posted, edited, and at the end removed or turned into the   *)
(* answer.  There is one guard per agent, not per turn; turns follow each other           *)
(* (SerialDelivery of DispatchQueue), the calls of the message server do not.              *)
EXTENDS Integers, FiniteSets

CONSTANTS MaxTurns, MaxFailures, MaxStops   \* bounds: turns, calls that fail, stops

ASSUME TurnGuardAssumption ==
  MaxTurns \in Nat /\ MaxFailures \in Nat /\ MaxStops \in Nat

Turn == 1 .. MaxTurns
Kind == {"bridge", "claude", "quiet"}   \* quiet: isNudge, where silence is an answer
NoBar == [msg |-> "none", busy |-> "no", queued |-> FALSE, closed |-> FALSE]
NotYet == [step |-> "no", plan |-> "quiet"]

VARIABLES
  working,      \* the state machine is at "working"
  turn,         \* the turn whose send() is awaited; 0: none
  turns,        \* how many there were
  kind,
  guard,        \* turnGuards and progressTurns: the turn that armed them; 0: no entry
  hadSend, lastText,   \* of the guard
  bar,          \* createProgressTurn of each turn
  finish,       \* turn -> how far its finish() is, and what is to come of it
  posted, asked,       \* answers posted, nudges enqueued
  said, sent,   \* history: turns that wrote text, that sent a message themselves
  owed,         \* history: turns that ended well without having sent their text
  failures, stops

guardHistory == <<said, sent, owed>>
guardVars == <<working, turn, turns, kind, guard, hadSend, lastText, bar, finish, posted,
               asked, said, sent, owed, failures, stops>>

TurnGuardInit ==
  /\ working = FALSE /\ turn = 0 /\ turns = 0 /\ kind = [t \in Turn |-> "claude"]
  /\ guard = 0 /\ hadSend = FALSE /\ lastText = FALSE
  /\ bar = [t \in Turn |-> NoBar] /\ finish = [t \in Turn |-> NotYet]
  /\ posted = [t \in Turn |-> 0] /\ asked = [t \in Turn |-> 0]
  /\ said = {} /\ sent = {} /\ owed = {} /\ failures = 0 /\ stops = 0

Enabled(t) == kind[t] # "quiet"
-----------------------------------------------------------------------------
(* The turn                                                                  *)

\* enterWorking and armTurnGuard; an entry that is still there is overwritten
ArmTurnGuard(k) ==
  /\ turn = 0 /\ ~working /\ turns < MaxTurns
  /\ turns' = turns + 1 /\ turn' = turns + 1 /\ working' = TRUE
  /\ kind' = [kind EXCEPT ![turns + 1] = k]
  /\ guard' = turns + 1 /\ hadSend' = FALSE /\ lastText' = FALSE
  /\ UNCHANGED <<bar, finish, posted, asked, guardHistory, failures, stops>>

\* a frame of the session, and note() of the progress message
Note ==
  /\ turn # 0 /\ guard # 0
  /\ \E frame \in {"text", "send", "other"} :
       /\ lastText' = (lastText \/ frame = "text") /\ hadSend' = (hadSend \/ frame = "send")
       /\ said' = IF frame = "text" THEN said \cup {turn} ELSE said
       /\ sent' = IF frame = "send" THEN sent \cup {turn} ELSE sent
       /\ bar' = IF bar[guard].closed \/ ~Enabled(guard) THEN bar
                 ELSE [bar EXCEPT ![guard].queued = TRUE]
  /\ UNCHANGED <<working, turn, turns, kind, guard, finish, posted, asked, owed, failures, stops>>

\* finish(): the first one counts
Finish(t, plan) ==
  /\ finish' = IF bar[t].closed THEN finish
               ELSE [finish EXCEPT ![t] = [step |-> "flush", plan |-> plan]]
  /\ bar' = [bar EXCEPT ![t].closed = TRUE]

\* what the turn.end handler makes of the guard
Plan(status, text) ==
  IF status # "success" \/ hadSend \/ kind[guard] = "quiet" THEN "quiet"
  ELSE IF text THEN "answer" ELSE IF kind[guard] = "claude" THEN "ask" ELSE "quiet"

\* abortTurnGuards
AbortGuard == IF guard = 0 THEN UNCHANGED <<finish, bar>> ELSE Finish(guard, "quiet")

\* turn.end, and with it the end of send(): the bridge's errors and empty answers
\* reject it, which aborts the guard if it is still there
GuardedTurnEnds ==
  /\ turn # 0 /\ turn' = 0
  /\ \E status \in {"success", "error", "waits"}, result \in BOOLEAN, rejected \in BOOLEAN :
       /\ result => status = "success" /\ kind[turn] = "bridge"
       /\ rejected => kind[turn] = "bridge" /\ ~result /\ status # "waits"
       /\ said' = IF result THEN said \cup {turn} ELSE said
       /\ IF working
          THEN /\ guard' = 0 /\ working' = FALSE
               /\ Finish(guard, Plan(status, lastText \/ result))
               /\ owed' = IF status = "success" /\ turn \in said' \ sent /\ kind[turn] # "quiet"
                          THEN owed \cup {turn} ELSE owed
          ELSE /\ UNCHANGED <<working, owed>>
               /\ IF rejected THEN AbortGuard /\ guard' = 0
                              ELSE UNCHANGED <<finish, bar, guard>>
  /\ UNCHANGED <<turns, kind, hadSend, lastText, posted, asked, sent, failures, stops>>

\* the turn is given up: silence, the process exits, the grace of a stop is over
FailTurn ==
  /\ turn # 0 /\ turn' = 0 /\ working' = FALSE /\ guard' = 0 /\ AbortGuard
  /\ UNCHANGED <<turns, kind, hadSend, lastText, posted, asked, guardHistory, failures>>

TurnFails == FailTurn /\ UNCHANGED stops

\* stopAgent: Claude's turn is rejected at once, a bridge has its grace
StopTurn ==
  /\ stops < MaxStops /\ turn # 0 /\ working /\ stops' = stops + 1
  /\ IF kind[turn] = "claude" THEN FailTurn
     ELSE /\ working' = FALSE
          /\ UNCHANGED <<turn, turns, kind, guard, hadSend, lastText, bar, finish, posted,
                         asked, guardHistory, failures>>
-----------------------------------------------------------------------------
(* The progress message                                                      *)

\* the calls never throw, they answer "no"
CallFails == failures < MaxFailures /\ failures' = failures + 1
OnlyBars == UNCHANGED <<working, turn, turns, kind, guard, hadSend, lastText, asked,
                        guardHistory, stops>>

FlushBar(t) ==
  /\ bar[t].queued /\ bar[t].busy = "no"
  /\ bar' = [bar EXCEPT ![t].queued = FALSE,
               ![t].busy = IF bar[t].closed THEN "no"
                           ELSE IF bar[t].msg = "none" THEN "post" ELSE "edit"]
  /\ OnlyBars /\ UNCHANGED <<finish, posted, failures>>

FlushReturns(t) ==
  /\ bar[t].busy # "no"
  /\ \/ /\ bar' = [bar EXCEPT ![t].busy = "no",
                              ![t].msg = IF bar[t].busy = "post" THEN "shown" ELSE @]
        /\ UNCHANGED failures
     \/ bar' = [bar EXCEPT ![t].busy = "no"] /\ CallFails
  /\ OnlyBars /\ UNCHANGED <<finish, posted>>

To(t, step) == finish' = [finish EXCEPT ![t].step = step]

\* what follows finish() in the turn.end handler
Concluded(t, rewritten) ==
  /\ posted' = IF finish[t].plan = "answer" /\ ~rewritten
               THEN [posted EXCEPT ![t] = @ + 1] ELSE posted
  /\ asked' = IF finish[t].plan = "ask" THEN [asked EXCEPT ![t] = @ + 1] ELSE asked
  /\ To(t, "done")

\* a plausible fault: a post that is under way is not waited for
FinishAtOnce(t) ==
  /\ finish[t].step = "flush"
  /\ IF Enabled(t) /\ bar[t].msg = "shown"
     THEN To(t, IF finish[t].plan = "answer" THEN "edit" ELSE "remove")
          /\ UNCHANGED <<posted, asked>>
     ELSE Concluded(t, FALSE)
  /\ UNCHANGED <<working, turn, turns, kind, guard, hadSend, lastText, bar, guardHistory,
                 failures, stops>>

FinishFlushed(t) ==
  /\ finish[t].step = "flush" /\ bar[t].busy = "no" /\ ~bar[t].queued
  /\ IF Enabled(t) /\ bar[t].msg = "shown"
     THEN To(t, IF finish[t].plan = "answer" THEN "edit" ELSE "remove")
          /\ UNCHANGED <<posted, asked>>
     ELSE Concluded(t, FALSE)
  /\ UNCHANGED <<working, turn, turns, kind, guard, hadSend, lastText, bar, guardHistory,
                 failures, stops>>

\* an edit counts as done whatever it answered
FinishCalled(t) ==
  /\ finish[t].step \in {"edit", "remove"}
  /\ \/ /\ bar' = [bar EXCEPT ![t].msg = IF finish[t].step = "edit" THEN "answer" ELSE "gone"]
        /\ UNCHANGED failures
     \/ UNCHANGED bar /\ CallFails
  /\ Concluded(t, finish[t].step = "edit")
  /\ UNCHANGED <<working, turn, turns, kind, guard, hadSend, lastText, guardHistory, stops>>

TurnGuardNext ==
  \/ \E k \in Kind : ArmTurnGuard(k)
  \/ Note \/ GuardedTurnEnds \/ TurnFails \/ StopTurn
  \/ \E t \in Turn : FlushBar(t) \/ FlushReturns(t) \/ FinishFlushed(t) \/ FinishCalled(t)

TurnGuardSpec == TurnGuardInit /\ [][TurnGuardNext]_guardVars
-----------------------------------------------------------------------------
(* Properties                                                                *)

\* Types of the turn, the guard entry and the progress messages.
TurnGuardTypeOK ==
  /\ working \in BOOLEAN /\ turn \in 0 .. MaxTurns /\ turns \in 0 .. MaxTurns
  /\ kind \in [Turn -> Kind] /\ guard \in 0 .. MaxTurns
  /\ hadSend \in BOOLEAN /\ lastText \in BOOLEAN
  /\ bar \in [Turn -> [msg : {"none", "shown", "gone", "answer"},
                       busy : {"no", "post", "edit"}, queued : BOOLEAN, closed : BOOLEAN]]
  /\ finish \in [Turn -> [step : {"no", "flush", "edit", "remove", "done"},
                          plan : {"quiet", "answer", "ask"}]]
  /\ posted \in [Turn -> Nat] /\ asked \in [Turn -> Nat]
  /\ said \subseteq Turn /\ sent \subseteq Turn /\ owed \subseteq Turn
  /\ failures \in 0 .. MaxFailures /\ stops \in 0 .. MaxStops

Answers(t) == posted[t] + (IF bar[t].msg = "answer" THEN 1 ELSE 0)

\* What an agent wrote but did not send reaches its channel once, as a message or as
\* the last form of the progress message, and never beside a message of its own - as
\* long as the message server accepts the calls.
AnsweredOnce ==
  /\ \A t \in Turn : Answers(t) <= (IF t \in owed THEN 1 ELSE 0)
  /\ failures = 0 =>
       \A t \in owed : finish[t].step = "done" => Answers(t) = 1

\* The same when a call fails: the daemon takes "edited" for granted.
AnsweredAnyway == \A t \in owed : finish[t].step = "done" => Answers(t) = 1

Over(t) == t <= turns /\ t # turn
Settled(t) == finish[t].step \in {"no", "done"} /\ bar[t].busy = "no"

\* A turn that is over leaves no progress message behind, however its posts, edits and
\* end overlap; this is the case for turns nobody stopped.
BarIsCleared ==
  failures = 0 /\ stops = 0 =>
    \A t \in Turn : Over(t) => finish[t].step # "no" /\ (Settled(t) => bar[t].msg # "shown")

\* What a channel sees of a turn in the end is its answer, once, and nothing else.
ChannelIsLeftInOrder == AnsweredOnce /\ BarIsCleared

\* "after a turn ends the channel keeps no progress rubbish"
\* (docs/2026-08-20/02-daemon-evolution-tracker.md:231), stopped or not.
NoRubbish ==
  failures = 0 => \A t \in Turn : Over(t) /\ Settled(t) => bar[t].msg # "shown"
=============================================================================
