----------------------------- MODULE ClaudeSession -----------------------------
(* The resident Claude process of an agent (PersistentClaude): messages are        *)
(* queued and written to its stdin one at a time, a result event ends the turn in   *)
(* flight.  The process is replaced by the next message when it dies, falls silent   *)
(* or could not resume its conversation; each process has a generation number, and    *)
(* events of a replaced one may still arrive.  The fields are one record and each      *)
(* handler a function on it, as they run to completion.                                *)
EXTENDS Integers, Sequences

CONSTANTS
  Prompt,        \* calls of send()
  NoPrompt,      \* activeTurn = null
  MaxGen         \* bound: processes spawned

ASSUME ClaudeAssumption == NoPrompt \notin Prompt /\ MaxGen \in Nat

VARIABLE claude

Gen == 1 .. MaxGen

\* The fields of PersistentClaude, its processes, and the callers' view of it; no
\* message is queued twice.
ClaudeTypeOK ==
  claude \in
    [proc : 0 .. MaxGen,          \* generation of this.proc, 0 for null
     gen : 0 .. MaxGen,           \* procGen
     os : [Gen -> {"none", "up", "terminating", "gone"}],
     told : SUBSET Gen,           \* whose exit event was delivered
     starting : BOOLEAN, busy : BOOLEAN,
     queue : {q \in Seq(Prompt) : \A i, j \in DOMAIN q : q[i] = q[j] => i = j},
     active : Prompt \cup {NoPrompt},
     bound : [Prompt -> 0 .. MaxGen],     \* QueuedTurn.gen
     sessionId : BOOLEAN,         \* a conversation to resume is known
     resumed : BOOLEAN,           \* spawnResumeId: this process was given it
     sawEvent : BOOLEAN, inGrace : BOOLEAN,
     call : [Prompt -> {"unsent", "waiting", "open", "resolved", "rejected"}],
     spoke : SUBSET Gen,          \* history: processes that showed an event
     stranded : BOOLEAN]          \* history: the last spawn attempt threw

ClaudeInit ==
  \E known \in BOOLEAN :
    claude = [proc |-> 0, gen |-> 0, os |-> [g \in Gen |-> "none"], told |-> {},
              starting |-> FALSE, busy |-> FALSE, queue |-> <<>>, active |-> NoPrompt,
              bound |-> [c \in Prompt |-> 0], sessionId |-> known, resumed |-> FALSE,
              sawEvent |-> FALSE, inGrace |-> FALSE,
              call |-> [c \in Prompt |-> "unsent"], spoke |-> {}, stranded |-> FALSE]
-----------------------------------------------------------------------------
(* Private methods                                                            *)

SettleTurn(s, c, outcome) ==
  IF c = NoPrompt \/ s.call[c] \in {"resolved", "rejected"} THEN s
  ELSE [s EXCEPT !.call[c] = outcome]

Cleanup(s) == [s EXCEPT !.proc = 0, !.busy = FALSE, !.starting = FALSE]

\* kill() sends one SIGTERM; the process need not obey
KillClaude(s, g) ==
  IF g = 0 THEN s ELSE [s EXCEPT !.os[g] = IF @ = "up" THEN "terminating" ELSE @]

DiscardFailedResume(s) == [s EXCEPT !.sessionId = FALSE, !.resumed = FALSE]

Requeue(s, c) ==
  IF c = NoPrompt \/ s.call[c] \in {"resolved", "rejected"} THEN s
  ELSE [s EXCEPT !.queue = <<c>> \o @, !.call[c] = "waiting"]

SpawnProc(s) ==
  LET g == s.gen + 1
  IN  [s EXCEPT !.gen = g, !.proc = g, !.os[g] = "up", !.starting = TRUE,
                !.resumed = s.sessionId, !.sawEvent = FALSE, !.inGrace = TRUE,
                !.stranded = FALSE]

\* the spawn throws: only the message at the head learns of it
SpawnThrows(s) ==
  SettleTurn([s EXCEPT !.gen = @ + 1, !.queue = Tail(@), !.stranded = TRUE],
             Head(s.queue), "rejected")

WriteTurn(s) ==
  LET c == Head(s.queue)
  IN  [s EXCEPT !.queue = Tail(@), !.busy = TRUE, !.active = c,
                !.bound[c] = s.gen, !.call[c] = "open"]

Pump(s, spawnWorks) ==
  IF s.busy \/ s.starting \/ s.queue = <<>> THEN s
  ELSE IF s.proc # 0 THEN WriteTurn(s)
  ELSE IF spawnWorks THEN SpawnProc(s) ELSE SpawnThrows(s)

\* a handler ended by pump(); MaxGen bounds the processes it may need
Step(s) ==
  \E spawnWorks \in BOOLEAN :
    /\ (s.proc = 0 /\ s.queue # <<>>) => s.gen < MaxGen
    /\ claude' = Pump(s, spawnWorks)
-----------------------------------------------------------------------------

SendPrompt(c) ==
  /\ claude.call[c] = "unsent"
  /\ Step([claude EXCEPT !.queue = Append(@, c), !.call[c] = "waiting"])

StartupDelayEnds == claude.starting /\ Step([claude EXCEPT !.starting = FALSE])

GraceEnds == claude.inGrace /\ claude' = [claude EXCEPT !.inGrace = FALSE]

ClaudeDies(g) ==
  /\ claude.os[g] \in {"up", "terminating"}
  /\ claude' = [claude EXCEPT !.os[g] = "gone"]

\* exit, or error, of process g: of the current one, or late
ExitArrives(g) ==
  /\ claude.os[g] = "gone" /\ g \notin claude.told
  /\ LET s == [claude EXCEPT !.told = @ \cup {g}]
         own == IF s.active # NoPrompt /\ s.bound[s.active] = g THEN s.active
                ELSE NoPrompt
         vacated == [s EXCEPT !.active = NoPrompt]
         resumeFailed == s.resumed /\ ~s.sawEvent /\ s.inGrace
     IN  IF g # s.proc
         THEN claude' = IF own = NoPrompt THEN s
                        ELSE SettleTurn(vacated, own, "rejected")
         ELSE IF resumeFailed
         THEN Step(Requeue(Cleanup(DiscardFailedResume(vacated)), own))
         ELSE Step(SettleTurn(Cleanup(vacated), own, "rejected"))

\* a stream-json line of the current process.  Unknown lines only prolong the turn.
\* A first event that is an error means the conversation could not be resumed.
EventArrives ==
  /\ claude.proc # 0
  /\ \E event \in {"system", "error", "other", "result", "errorResult"} :
       LET g == claude.proc
           seen == [claude EXCEPT !.sawEvent = TRUE, !.spoke = @ \cup {g},
                                  !.sessionId = @ \/ event = "system"]
           ended == [seen EXCEPT !.active = NoPrompt, !.busy = FALSE]
           failed == Requeue(Cleanup(DiscardFailedResume(
                               [claude EXCEPT !.active = NoPrompt])), claude.active)
       IN  IF claude.resumed /\ ~claude.sawEvent /\ event \in {"error", "errorResult"}
           THEN Step(KillClaude(failed, g))
           ELSE IF event \in {"result", "errorResult"}
           THEN Step(SettleTurn(ended, claude.active, "resolved"))
           ELSE claude' = seen

TurnFallsSilent ==
  /\ claude.busy /\ claude.active # NoPrompt
  /\ LET s == [claude EXCEPT !.active = NoPrompt]
     IN  Step(KillClaude(Cleanup(SettleTurn(s, claude.active, "rejected")),
                         claude.proc))

StopClaude ==
  LET unsettled == {c \in Prompt : claude.call[c] \in {"waiting", "open"}}
      s == [claude EXCEPT !.active = NoPrompt, !.queue = <<>>,
                          !.call = [c \in Prompt |-> IF c \in unsettled THEN "rejected"
                                                     ELSE claude.call[c]]]
  IN  claude' = KillClaude(Cleanup(s), claude.proc)

ClaudeNext ==
  \/ \E c \in Prompt : SendPrompt(c)
  \/ \E g \in Gen : ClaudeDies(g) \/ ExitArrives(g)
  \/ StartupDelayEnds \/ GraceEnds \/ EventArrives \/ TurnFallsSilent \/ StopClaude

ClaudeSpec == ClaudeInit /\ [][ClaudeNext]_claude
-----------------------------------------------------------------------------
(* Properties                                                                 *)

\* Exactly the messages whose caller still waits are queued or in flight, and the
\* one in flight was written to the process that is there now: an event, an exit or
\* a timeout can still end it.
UnsettledIsHeld ==
  /\ \A c \in Prompt :
       claude.call[c] = "waiting" <=> \E i \in DOMAIN claude.queue : claude.queue[i] = c
  /\ \A c \in Prompt : claude.call[c] = "open" <=> claude.active = c
  /\ claude.active # NoPrompt =>
       claude.busy /\ claude.proc # 0 /\ claude.bound[claude.active] = claude.proc

\* A queued message is driven by something that will pump again: the turn in
\* flight or the startup delay.  Where a spawn threw, only the next call does.
QueueIsDriven ==
  claude.queue # <<>> => claude.busy \/ claude.starting \/ claude.stranded

\* A process that is neither asked to end nor current is never left running.
NoStrayClaude == \A g \in Gen : claude.os[g] = "up" => g = claude.proc

\* Whoever waits for this session is in somebody's hands, and so is every process.
ClaudeCallsAreHeld == UnsettledIsHeld /\ QueueIsDriven /\ NoStrayClaude

\* A message is written a second time only when the process it went to was gone
\* before it showed any event: nothing the agent did is done twice.
RewrittenOnlyIfUnread ==
  [][\A c \in Prompt :
       (claude.bound[c] # 0 /\ claude'.bound[c] # claude.bound[c])
         => claude.bound[c] \notin claude.spoke]_claude

\* Seen by its caller the session is a SessionContract.
ClaudeContract ==
  INSTANCE SessionContract WITH Send <- Prompt, call <- claude.call
ClaudeKeepsContract == ClaudeContract!ContractSpec
=============================================================================
