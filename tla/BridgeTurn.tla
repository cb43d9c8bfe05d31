----------------------------- MODULE BridgeTurn -----------------------------
(***************************************************************************)
(* One conversation of one bridge agent, from the daemon's queue to the    *)
(* Python worker and back:                                                 *)
(*   - the daemon: one bucket of the dispatch queue, the SARP/1 session    *)
(*     (drivers/persistent-jsonl-worker.ts), the interrupt bookkeeping     *)
(*     (agent-runtime-dispatch.ts, agent-runtime-dispatch-headless.ts);    *)
(*   - the worker processes (bridges/python/slock_runtime/runtime.py), a   *)
(*     new generation for every spawn, each with its stdin and stdout;     *)
(*   - the worker's sqlite file (idempotency.py), which all generations    *)
(*     share: the turn journal and the resume tokens.                      *)
(* Processes crash between any two steps, the daemon is restarted, pipes   *)
(* are lost with the process at their end.                                 *)
(*                                                                         *)
(* Left out: the handshake (a worker that dies before it reads its first   *)
(* frame stands for it), stream events, usage, expiry of interrupts, the   *)
(* approval button (a message resumes), the back-off time.                 *)
(***************************************************************************)
EXTENDS Naturals, Sequences, FiniteSets

CONSTANTS
  MaxRetries,  \* deliveries of one message
  MaxMsgs,     \* bound: messages submitted in a behaviour
  MaxStops,    \* bound: agent:stop in a behaviour
  MaxCancels,  \* bound: agent:cancel-turn in a behaviour
  MaxInputs,   \* bound: messages, stops and cancels of a behaviour together
  MaxBoots     \* bound: incarnations of the daemon

ASSUME ConstantsAssumption ==
  /\ MaxRetries \in Nat \ {0}
  /\ MaxMsgs \in Nat
  /\ MaxStops \in Nat
  /\ MaxCancels \in Nat
  /\ MaxInputs \in Nat
  /\ MaxBoots \in Nat \ {0}

VARIABLES
  pending,   \* the bucket: messages that wait, in order
  flight,    \* the turn the daemon waits for, or NoFlight
  session,   \* generation of the session in persistentSessions, 0: none
  store,     \* the interrupt store: resume token of the conversation, 0: none
  boot,      \* incarnation of the daemon
  worker,    \* generation -> the process and its pipes
  journal,   \* sqlite: turn -> its terminal result
  tokens,    \* sqlite: resume token -> "none", "fresh" or "used"
  turnOf,    \* message -> the turn id it got when it was queued
  attempts,  \* message -> failed deliveries
  fate,      \* history: message -> how it ended
  answer,    \* history: message -> run whose result its last delivery got, 0: none
  runs,      \* history: the handler runs; a token is named by its run
  quit,      \* history: turns whose cancel-turn was answered
  stops,     \* count of agent:stop
  cancels    \* count of agent:cancel-turn

daemonVars == <<pending, flight, session, store, boot, turnOf, attempts, fate, answer, quit, stops, cancels>>
diskVars == <<journal, tokens>>
vars == <<daemonVars, diskVars, worker, runs>>

Gens == DOMAIN worker
Turn == (1..MaxBoots) \X (1..MaxMsgs)
NoTurn == <<0, 0>>
Status == {"success", "interrupted", "cancelled", "retriable", "final"}

NoFlight == [items |-> <<>>, turn |-> NoTurn, token |-> 0, gen |-> 0, cancelling |-> FALSE, voided |-> FALSE]
NoEntry == [status |-> "none", run |-> 0]
NoJob == [turn |-> NoTurn, stage |-> "idle", status |-> "none", run |-> 0, cancel |-> FALSE]

Fresh == [up |-> TRUE, inbox |-> <<>>, outbox |-> <<>>, job |-> NoJob, backlog |-> <<>>, closing |-> "no"]
Dead(w) == [Fresh EXCEPT !.up = FALSE, !.outbox = w.outbox]
Gone(w) == [Fresh EXCEPT !.up = FALSE]

(* Frames.  A start frame carries the messages of its prompt. *)
StartFrame(t, k, ms) == [type |-> "start", turn |-> t, token |-> k, msgs |-> ms]
ControlFrame(type, t) == [type |-> type, turn |-> t, token |-> 0, msgs |-> <<>>]
EndFrame(t, s, r) == [turn |-> t, status |-> s, run |-> r]

Put(w, f) == IF w.up THEN [w EXCEPT !.inbox = Append(@, f)] ELSE w
Say(w, f) == [w EXCEPT !.outbox = Append(@, f)]

Members(q) == {q[k] : k \in DOMAIN q}
All(S, w) == [m \in DOMAIN fate |-> IF m \in S THEN w ELSE fate[m]]

-----------------------------------------------------------------------------
Init ==
  /\ pending = <<>>
  /\ flight = NoFlight
  /\ session = 0
  /\ store = 0
  /\ boot = 1
  /\ worker = <<>>
  /\ journal = [t \in Turn |-> NoEntry]
  /\ tokens = <<>>
  /\ turnOf = <<>>
  /\ attempts = <<>>
  /\ fate = <<>>
  /\ answer = <<>>
  /\ runs = <<>>
  /\ quit = {}
  /\ stops = 0
  /\ cancels = 0

-----------------------------------------------------------------------------
(* The daemon. *)

MoreInput == Len(fate) + stops + cancels < MaxInputs

(* Variants of a definition with a fault, named for the fault, stand in    *)
(* front of it; no action uses them.  Here: the counter starts again after *)
(* a restart and nothing tells the two series apart.                       *)
NewTurnWithoutNonce == <<1, IF boot = 1 THEN Len(turnOf) + 1 ELSE 1>>

(* enqueue: the turn id is a counter under the boot nonce. *)
NewTurn == <<boot, Cardinality({m \in DOMAIN turnOf : turnOf[m][1] = boot}) + 1>>

Submit ==
  /\ Len(fate) < MaxMsgs
  /\ MoreInput
  /\ pending' = Append(pending, Len(fate) + 1)
  /\ turnOf' = Append(turnOf, NewTurn)
  /\ attempts' = Append(attempts, 0)
  /\ fate' = Append(fate, "open")
  /\ answer' = Append(answer, 0)
  /\ UNCHANGED <<flight, session, store, boot, worker, diskVars, runs, quit, stops, cancels>>

(* drain, deliver, doDispatch, send: all that waits is one turn, under the *)
(* turn id of its first message; a pending interrupt makes it a resume.    *)
(* A session whose process is dead is still in the map: the send fails.    *)
Dispatch ==
  /\ flight = NoFlight
  /\ pending # <<>>
  /\ LET spawned == IF session = 0 THEN Append(worker, Fresh) ELSE worker
         g == IF session = 0 THEN Len(worker) + 1 ELSE session
         turn == turnOf[Head(pending)] IN
     /\ flight' = [NoFlight EXCEPT !.items = pending, !.turn = turn, !.token = store, !.gen = g]
     /\ worker' = [spawned EXCEPT ![g] = Put(@, StartFrame(turn, store, pending))]
     /\ session' = g
  /\ pending' = <<>>
  /\ UNCHANGED <<store, boot, turnOf, attempts, fate, answer, quit, stops, cancels, diskVars, runs>>

Out == flight # NoFlight

(* The owner's cancel has its answer when the turn it was meant for ends.  *)
Answered == IF flight.cancelling THEN quit \cup {flight.turn} ELSE quit

(* send resolved: the batch is done; the interrupt store takes the new     *)
(* token, or drops the one this turn has consumed.                         *)
TurnResolved(f) ==
  /\ store' = IF f.status = "interrupted" THEN f.run ELSE IF flight.token # 0 THEN 0 ELSE store
  /\ fate' = All(Members(flight.items), IF flight.voided THEN "void" ELSE "delivered")
  /\ UNCHANGED <<pending, attempts, session>>

(* send rejected: the session leaves the map, a token that was sent along  *)
(* is given up, the queue retries or gives up the messages.                *)
RetriedOnceTooOften(retriable) ==
  {m \in Members(flight.items) : ~flight.voided /\ retriable /\ attempts[m] + 1 <= MaxRetries}

Retried(retriable) ==
  {m \in Members(flight.items) : ~flight.voided /\ retriable /\ attempts[m] + 1 < MaxRetries}

(* The messages of S return to the front of the bucket, in their order.    *)
PutBack(S) ==
  LET kept == {k \in DOMAIN flight.items : flight.items[k] \in S} IN
  \E n \in 0..Len(flight.items) : \E pos \in [1..n -> kept] :
    /\ \A i, j \in 1..n : i < j => pos[i] < pos[j]
    /\ \A k \in kept : \E j \in 1..n : pos[j] = k
    /\ pending' = [j \in 1..n |-> flight.items[pos[j]]] \o pending

RejectedKeepsToken(retriable) ==
  LET again == Retried(retriable) IN
  /\ session' = IF session = flight.gen THEN 0 ELSE session
  /\ store' = store
  /\ PutBack(again)
  /\ attempts' = [m \in DOMAIN attempts |-> IF m \in Members(flight.items) THEN attempts[m] + 1 ELSE attempts[m]]
  /\ fate' = All(Members(flight.items) \ again, IF flight.voided THEN "void" ELSE "dead")

TurnRejected(retriable) ==
  LET again == Retried(retriable) IN
  /\ session' = IF session = flight.gen THEN 0 ELSE session
  /\ store' = IF flight.token # 0 THEN 0 ELSE store
  /\ PutBack(again)
  /\ attempts' = [m \in DOMAIN attempts |-> IF m \in Members(flight.items) THEN attempts[m] + 1 ELSE attempts[m]]
  /\ fate' = All(Members(flight.items) \ again, IF flight.voided THEN "void" ELSE "dead")

(* The turn is over, with the result of run r or with none (0). *)
SettledBy(r) ==
  /\ flight' = NoFlight
  /\ quit' = Answered
  /\ answer' = [m \in DOMAIN answer |-> IF m \in Members(flight.items) THEN r ELSE answer[m]]
  /\ UNCHANGED <<boot, turnOf, stops, cancels, diskVars, runs>>

(* handleTurnEnd.  A stopped session, or one dropped for the error, is     *)
(* then told to shut down.                                                 *)
ReadTurnEnd ==
  /\ Out
  /\ worker[flight.gen].outbox # <<>>
  /\ LET f == Head(worker[flight.gen].outbox)
         read == [worker[flight.gen] EXCEPT !.outbox = Tail(@)]
         failed == f.status \in {"retriable", "final"} IN
     /\ f.turn = flight.turn
     /\ IF failed THEN TurnRejected(f.status = "retriable") ELSE TurnResolved(f)
     /\ worker' = [worker EXCEPT ![flight.gen] =
                     IF failed \/ flight.voided THEN Put(read, ControlFrame("shutdown", NoTurn)) ELSE read]
     /\ SettledBy(f.run)

(* The process is gone: handleProcExit, or a send on a dead session.       *)
WorkerGone ==
  /\ Out
  /\ ~worker[flight.gen].up
  /\ TurnRejected(TRUE)
  /\ worker' = [worker EXCEPT ![flight.gen] = Gone(@)]
  /\ SettledBy(0)

GiveUpKeepsTheSession ==
  /\ Out
  /\ worker[flight.gen].up
  /\ store' = IF flight.token # 0 THEN 0 ELSE store
  /\ PutBack(Retried(TRUE))
  /\ attempts' = [m \in DOMAIN attempts |-> IF m \in Members(flight.items) THEN attempts[m] + 1 ELSE attempts[m]]
  /\ fate' = All(Members(flight.items) \ Retried(TRUE), IF flight.voided THEN "void" ELSE "dead")
  /\ UNCHANGED <<session, worker>>
  /\ SettledBy(0)

GiveUpOnceTheWorkerSpoke ==
  /\ Out
  /\ worker[flight.gen].up
  /\ worker[flight.gen].job # NoJob
  /\ TurnRejected(TRUE)
  /\ worker' = [worker EXCEPT ![flight.gen] = Gone(@)]
  /\ SettledBy(0)

(* The silence timer, or the grace of a cancel that nobody answers: both   *)
(* reject the turn as runtime-silence-timeout and kill the process.        *)
GiveUp ==
  /\ Out
  /\ worker[flight.gen].up
  /\ TurnRejected(TRUE)
  /\ worker' = [worker EXCEPT ![flight.gen] = Gone(@)]
  /\ SettledBy(0)

(* cancelTurn, by the owner *)
CancelTurn ==
  /\ Out
  /\ cancels < MaxCancels
  /\ MoreInput
  /\ ~flight.voided
  /\ ~flight.cancelling
  /\ worker[flight.gen].up
  /\ flight' = [flight EXCEPT !.cancelling = TRUE]
  /\ worker' = [worker EXCEPT ![flight.gen] = Put(@, ControlFrame("cancel", flight.turn))]
  /\ cancels' = cancels + 1
  /\ UNCHANGED <<pending, session, store, boot, turnOf, attempts, fate, answer, quit, stops, diskVars, runs>>

(* haltAgent(name, "idle"): what waits is dead, the turn that is out is    *)
(* cut off, the session is removed and stopped.                            *)
StopAgent ==
  /\ stops < MaxStops
  /\ MoreInput
  /\ stops' = stops + 1
  /\ pending' = <<>>
  /\ fate' = All(Members(pending), "dead")
  /\ flight' = IF Out THEN [flight EXCEPT !.voided = TRUE] ELSE flight
  /\ worker' = IF session = 0 THEN worker
               ELSE [worker EXCEPT ![session] =
                       Put(@, IF Out THEN ControlFrame("cancel", flight.turn) ELSE ControlFrame("shutdown", NoTurn))]
  /\ session' = 0
  /\ UNCHANGED <<store, boot, turnOf, attempts, answer, quit, cancels, diskVars, runs>>

(* stop(): the grace is over, the turn is settled without the worker.      *)
ForceSettle ==
  /\ Out
  /\ flight.voided
  /\ TurnRejected(FALSE)
  /\ worker' = [worker EXCEPT ![flight.gen] = Put(@, ControlFrame("shutdown", NoTurn))]
  /\ SettledBy(0)

(* The daemon process dies and is started again: its queue is lost, the    *)
(* workers see the end of their stdin, the files stay.                     *)
DaemonRestart ==
  /\ boot < MaxBoots
  /\ boot' = boot + 1
  /\ fate' = All(Members(pending) \cup Members(flight.items), "lost")
  /\ pending' = <<>>
  /\ flight' = NoFlight
  /\ session' = 0
  /\ worker' = [g \in Gens |-> Put(worker[g], ControlFrame("eof", NoTurn))]
  /\ UNCHANGED <<store, turnOf, attempts, answer, quit, stops, cancels, diskVars, runs>>

-----------------------------------------------------------------------------
(* A worker process. *)

SetWorker(g, w) == worker' = [worker EXCEPT ![g] = w]

(* _spawn_turn: a resume token is consumed here; a token that is unknown   *)
(* or used ends the turn with an error that is not journaled.              *)
Spendable(k) == k \in DOMAIN tokens /\ tokens[k] = "fresh"

SpawnLeavesTokenFresh(g, w, f) ==
  IF f.token # 0 /\ ~Spendable(f.token)
    THEN /\ SetWorker(g, Say(w, EndFrame(f.turn, "final", 0)))
         /\ UNCHANGED <<tokens, runs>>
    ELSE /\ SetWorker(g, [w EXCEPT !.job = [NoJob EXCEPT !.turn = f.turn, !.stage = "run", !.run = Len(runs) + 1]])
         /\ tokens' = Append(tokens, "none")
         /\ runs' = Append(runs, [turn |-> f.turn, gen |-> g, token |-> f.token, msgs |-> Members(f.msgs)])

Spawn(g, w, f) ==
  IF f.token # 0 /\ ~Spendable(f.token)
    THEN /\ SetWorker(g, Say(w, EndFrame(f.turn, "final", 0)))
         /\ UNCHANGED <<tokens, runs>>
    ELSE /\ SetWorker(g, [w EXCEPT !.job = [NoJob EXCEPT !.turn = f.turn, !.stage = "run", !.run = Len(runs) + 1]])
         /\ tokens' = Append([k \in DOMAIN tokens |-> IF k = f.token THEN "used" ELSE tokens[k]], "none")
         /\ runs' = Append(runs, [turn |-> f.turn, gen |-> g, token |-> f.token, msgs |-> Members(f.msgs)])

Reading(g) == worker[g].up /\ worker[g].closing = "no" /\ worker[g].inbox # <<>>
Taken(g) == [worker[g] EXCEPT !.inbox = Tail(@)]

ReadStartSkipsJournal(g) ==
  /\ Reading(g)
  /\ LET f == Head(worker[g].inbox)
         w == Taken(g) IN
     /\ f.type = "start"
     /\ IF w.job # NoJob
          THEN /\ SetWorker(g, IF f.turn = w.job.turn THEN w ELSE [w EXCEPT !.backlog = Append(@, f)])
               /\ UNCHANGED <<tokens, runs>>
          ELSE Spawn(g, w, f)
  /\ UNCHANGED <<daemonVars, journal>>

(* _start_turn: a finished turn is replayed from the journal, a turn that  *)
(* comes while another is active waits, a second start of the active one   *)
(* is dropped.                                                             *)
ReadStart(g) ==
  /\ Reading(g)
  /\ LET f == Head(worker[g].inbox)
         w == Taken(g)
         entry == journal[f.turn] IN
     /\ f.type = "start"
     /\ IF entry # NoEntry
          THEN SetWorker(g, Say(w, EndFrame(f.turn, entry.status, entry.run))) /\ UNCHANGED <<tokens, runs>>
          ELSE IF w.job # NoJob
            THEN /\ SetWorker(g, IF f.turn = w.job.turn THEN w ELSE [w EXCEPT !.backlog = Append(@, f)])
                 /\ UNCHANGED <<tokens, runs>>
            ELSE Spawn(g, w, f)
  /\ UNCHANGED <<daemonVars, journal>>

(* turn.cancel sets the event of the active turn, shutdown that of any.    *)
Cancelled(w) == IF w.job = NoJob THEN w ELSE [w EXCEPT !.job.cancel = TRUE]

ReadControl(g) ==
  /\ Reading(g)
  /\ LET f == Head(worker[g].inbox)
         w == Taken(g) IN
     \/ /\ f.type = "cancel"
        /\ SetWorker(g, IF f.turn = w.job.turn THEN Cancelled(w) ELSE w)
     \/ /\ f.type = "shutdown"
        /\ SetWorker(g, [Cancelled(w) EXCEPT !.closing = "shutdown"])
     \/ /\ f.type = "eof"
        /\ SetWorker(g, [w EXCEPT !.closing = "eof"])
  /\ UNCHANGED <<daemonVars, diskVars, runs>>

At(g, stage) == worker[g].up /\ worker[g].job.stage = stage
MoveTo(g, stage) == SetWorker(g, [worker[g] EXCEPT !.job.stage = stage])

(* _invoke, one action for each step a crash can come after: the handler   *)
(* returns, the token is issued, the result is journaled, the turn.end is  *)
(* written, the slot is released.                                          *)
HandlerReturns(g) ==
  /\ At(g, "run")
  /\ \E s \in {"success", "interrupted", "retriable", "final"} :
       LET status == IF s = "success" /\ worker[g].job.cancel THEN "cancelled" ELSE s IN
       SetWorker(g, [worker[g] EXCEPT !.job.status = status,
                                      !.job.stage = IF s = "interrupted" THEN "issue" ELSE "record"])
  /\ UNCHANGED <<daemonVars, diskVars, runs>>

IssueToken(g) ==
  /\ At(g, "issue")
  /\ tokens' = [tokens EXCEPT ![worker[g].job.run] = "fresh"]
  /\ MoveTo(g, "record")
  /\ UNCHANGED <<daemonVars, journal, runs>>

RecordResult(g) ==
  /\ At(g, "record")
  /\ journal' = [journal EXCEPT ![worker[g].job.turn] = [status |-> worker[g].job.status, run |-> worker[g].job.run]]
  /\ MoveTo(g, "emit")
  /\ UNCHANGED <<daemonVars, tokens, runs>>

EmitMayPrecedeRecord(g) ==
  /\ At(g, "record") \/ At(g, "emit")
  /\ LET j == worker[g].job IN
     SetWorker(g, [Say(worker[g], EndFrame(j.turn, j.status, j.run)) EXCEPT !.job.stage = "release"])
  /\ UNCHANGED <<daemonVars, diskVars, runs>>

EmitTurnEnd(g) ==
  /\ At(g, "emit")
  /\ LET j == worker[g].job IN
     SetWorker(g, [Say(worker[g], EndFrame(j.turn, j.status, j.run)) EXCEPT !.job.stage = "release"])
  /\ UNCHANGED <<daemonVars, diskVars, runs>>

(* The slot is free: _drain_pending starts the turn that waits, or, when   *)
(* shutting down, ends it as cancelled.  The daemon sends one turn at a    *)
(* time, so at most one waits (TypeOK).                                    *)
ReleaseTurn(g) ==
  /\ At(g, "release")
  /\ LET w == [worker[g] EXCEPT !.job = NoJob, !.backlog = <<>>]
         waits == worker[g].backlog IN
     IF waits = <<>>
       THEN SetWorker(g, w) /\ UNCHANGED <<tokens, runs>>
       ELSE IF w.closing = "shutdown"
         THEN SetWorker(g, Say(w, EndFrame(Head(waits).turn, "cancelled", 0))) /\ UNCHANGED <<tokens, runs>>
         ELSE Spawn(g, w, Head(waits))
  /\ UNCHANGED <<daemonVars, journal>>

(* The process ends: after shutdown or the end of stdin (the handler got   *)
(* its grace), by a signal, by a crash.  What it wrote may still be read.  *)
Exit(g) ==
  /\ worker[g].up
  /\ SetWorker(g, IF flight.gen = g THEN Dead(worker[g]) ELSE Gone(worker[g]))
  /\ UNCHANGED <<daemonVars, diskVars, runs>>

-----------------------------------------------------------------------------
Daemon ==
  \/ Submit
  \/ Dispatch
  \/ ReadTurnEnd
  \/ WorkerGone
  \/ GiveUp
  \/ CancelTurn
  \/ StopAgent
  \/ ForceSettle
  \/ DaemonRestart

Worker(g) ==
  \/ ReadStart(g)
  \/ ReadControl(g)
  \/ HandlerReturns(g)
  \/ IssueToken(g)
  \/ RecordResult(g)
  \/ EmitTurnEnd(g)
  \/ ReleaseTurn(g)
  \/ Exit(g)

Next == Daemon \/ \E g \in Gens : Worker(g)

Spec == Init /\ [][Next]_vars

(* Timers and tasks of the daemon run: the drain after a back-off, the     *)
(* exit event and the silence timer.  Nothing is assumed of the workers.   *)
Fairness ==
  /\ WF_vars(Dispatch)
  /\ WF_vars(WorkerGone)
  /\ WF_vars(GiveUp)

FairSpec == Spec /\ Fairness

-----------------------------------------------------------------------------
(* Properties. *)

Run == [turn : Turn, gen : Nat, token : Nat, msgs : SUBSET Nat]
Frame == [type : {"start", "cancel", "shutdown", "eof"}, turn : Turn \cup {NoTurn}, token : Nat, msgs : Seq(Nat)]
EndFrames == [turn : Turn, status : Status, run : Nat]
Job == [turn : Turn \cup {NoTurn}, stage : {"idle", "run", "issue", "record", "emit", "release"},
        status : Status \cup {"none"}, run : Nat, cancel : BOOLEAN]
Process == [up : BOOLEAN, inbox : Seq(Frame), outbox : Seq(EndFrames), job : Job,
            backlog : Seq(Frame), closing : {"no", "shutdown", "eof"}]
FlightType == [items : Seq(Nat), turn : Turn \cup {NoTurn}, token : Nat, gen : Nat,
               cancelling : BOOLEAN, voided : BOOLEAN]

(* Every variable has its type; a worker holds back one turn at most and   *)
(* no message fails more often than it may be delivered.                   *)
TypeOK ==
  /\ pending \in Seq(DOMAIN fate)
  /\ flight \in FlightType
  /\ session \in Gens \cup {0}
  /\ store \in DOMAIN tokens \cup {0}
  /\ boot \in 1..MaxBoots
  /\ worker \in Seq(Process)
  /\ \A g \in Gens : Len(worker[g].backlog) <= 1
  /\ journal \in [Turn -> {NoEntry} \cup [status : Status, run : DOMAIN runs]]
  /\ tokens \in Seq({"none", "fresh", "used"})
  /\ turnOf \in Seq(Turn)
  /\ attempts \in Seq(0..MaxRetries)
  /\ fate \in Seq({"open", "delivered", "dead", "void", "lost"})
  /\ answer \in Seq(Nat)
  /\ runs \in Seq(Run)
  /\ quit \subseteq Turn
  /\ stops \in 0..MaxStops
  /\ cancels \in 0..MaxCancels

(* Write-ahead: a terminal result on the wire is in the journal, with the  *)
(* run that produced it; a retry after any crash finds the same result.    *)
(* (Refused resumes and turns cut off in the backlog have no run.)         *)
JournalFirst ==
  \A g \in Gens : \A f \in Members(worker[g].outbox) :
    f.run # 0 => journal[f.turn] = [status |-> f.status, run |-> f.run]

(* A resume token starts one handler run at most, whatever generation of   *)
(* the worker it is sent to (idempotency.py: single use).                  *)
TokenSpentOnce ==
  \A r, s \in DOMAIN runs : runs[r].token # 0 /\ runs[r].token = runs[s].token => r = s

(* The session never sees a turn.end that is not for the turn it waits     *)
(* for, so a worker that behaves is never killed as a protocol violation.  *)
NoStrayFrame ==
  /\ Out => \A f \in Members(worker[flight.gen].outbox) : f.turn = flight.turn
  /\ ~Out /\ session # 0 => worker[session].outbox = <<>>

(* No dead token is kept: between turns the interrupt store holds nothing  *)
(* or a token the worker will accept.  A daemon that dies between the      *)
(* worker's consume and its own delete is the exception.                   *)
StoredTokenLives ==
  boot = 1 /\ ~Out => store = 0 \/ Spendable(store)

(* What the daemon and the worker have on disk is never behind what they   *)
(* told each other.                                                        *)
DiskKeepsUp == JournalFirst /\ StoredTokenLives

(* A message settled under its own turn id is answered by a run whose      *)
(* prompt had it: the journal never answers a turn with the result of an   *)
(* earlier one, across restarts of the daemon too.                         *)
OwnAnswer ==
  \A m \in DOMAIN answer :
    answer[m] # 0 /\ runs[answer[m]].turn = turnOf[m] => m \in runs[answer[m]].msgs

(* No run is used twice: neither its result for a message it never saw nor *)
(* the token that started it.                                              *)
RunsAreUsedOnce == OwnAnswer /\ TokenSpentOnce

(* A turn with a journaled result is never run again, by any generation.   *)
FinishedTurnsRest ==
  [][\A r \in DOMAIN runs' \ DOMAIN runs : journal[runs'[r].turn] = NoEntry]_vars

(* Every message settles, even when the worker hangs, ignores a cancel or  *)
(* dies at each attempt.                                                   *)
EveryMessageSettles ==
  \A m \in 1..MaxMsgs :
    (m \in DOMAIN fate /\ fate[m] = "open") ~> (m \in DOMAIN fate /\ fate[m] # "open")

(* A retry after a retriable error is a new attempt: two deliveries of a   *)
(* message do not fail with one and the same error of one run.             *)
RetryIsANewAttempt ==
  [][\A m \in DOMAIN attempts :
       attempts'[m] > attempts[m] /\ answer'[m] # 0 => answer'[m] # answer[m]]_vars

(* A message reported as delivered was in the prompt of a run.             *)
DeliveredWasRead ==
  \A m \in DOMAIN fate :
    fate[m] = "delivered" /\ answer[m] # 0 => m \in runs[answer[m]].msgs

(* A turn the owner stopped, and whose stop was answered, is not started   *)
(* again.                                                                  *)
CancelledTurnStops ==
  [][\A r \in DOMAIN runs' \ DOMAIN runs : runs'[r].turn \notin quit]_vars

(* One handler run at a time for a conversation.                           *)
Running(g) == worker[g].up /\ worker[g].job.stage = "run"
OneRunAtATime == \A g, h \in Gens : Running(g) /\ Running(h) => g = h
=============================================================================
