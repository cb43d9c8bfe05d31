------------------------------ MODULE GraphThread ------------------------------
(* The graph path of a bridge worker: the turns of one conversation run over a        *)
(* LangGraph thread, a list of messages and the node to go on with, saved after every  *)
(* node.  A turn may break between two saves and leaves tool calls without answers;    *)
(* the next turn has to mend the list, for the provider refuses it otherwise.  A tool  *)
(* that needs approval stops the graph, and a turn that carries the one-time token of  *)
(* the prompt resumes it.                                                              *)
EXTENDS Integers, Sequences, FiniteSets, SequencesExt

CONSTANTS
  Tool, GatedTool,   \* tools of the agent, those among them that need approval
  Model,             \* models the profile may name: each has a thread of its own
  MaxTurns, MaxModelCalls,   \* bounds: turns, answers of the model with tool calls,
  MaxBreaks                  \* turns that break

ASSUME GraphThreadAssumption ==
  /\ GatedTool \subseteq Tool /\ Model # {} /\ IsFiniteSet(Tool)
  /\ {MaxTurns, MaxModelCalls, MaxBreaks} \subseteq Nat

Call == [nr : 0 .. MaxModelCalls, tool : Tool]
Message == [kind : {"system", "human", "ai", "tool"}, calls : SUBSET Call]
Prompted == 0 .. MaxModelCalls     \* a prompt, its interruptId and its token; 0 is none
Says(kind, calls) == [kind |-> kind, calls |-> calls]
NewThread == [msgs |-> <<>>, next |-> "none", asked |-> 0]
AllNew == [m \in Model |-> NewThread]

VARIABLES
  thread,       \* model -> its messages, the node to go on with, the prompt it waits on
  durable,      \* the checkpointer outlives the worker
  run,          \* the turn: idle, spawned, fed, running; its model, token, verdict, and
                \* whether its tools have run since the last save
  unspent,      \* resume_tokens of the journal that are not used
  held,         \* the prompt the daemon keeps for the conversation
  shown,        \* history: prompts, the calls and the thread each was about
  approved, ran,     \* history: calls the owner approved; calls that ran
  ranAgain,     \* history: some call ran twice
  unread,       \* threads that were continued without having been read
  astray,       \* history: a token was sent to a thread that did not issue it
  spent         \* bounds: turns, calls, breaks, edits

graphVars == <<thread, durable, run, unspent, held, shown, approved, ran, ranAgain, unread,
               astray, spent>>

GraphTypeOK ==
  /\ \A m \in Model : /\ thread[m].msgs \in Seq(Message)
                      /\ thread[m].next \in {"none", "model", "gate", "tools"}
                      /\ thread[m].asked \in Prompted
  /\ run.model \in Model /\ run.token \in Prompted
  /\ run.stage \in {"idle", "spawned", "fed", "running"}
  /\ run.verdict \in {"message", "approve", "reject", "unclear"}
  /\ unspent \subseteq Prompted /\ held \in Prompted /\ unread \subseteq Model
  /\ approved \subseteq Call /\ ran \subseteq Call
  /\ {durable, ranAgain, astray, run.acted, run.prepend} \subseteq BOOLEAN

\* what an earlier version may have left: an unanswered call in the middle of the list,
\* and the answer it was given at the end
OldMessages(t) == LET c == {[nr |-> 0, tool |-> t]}
                  IN  <<Says("human", {}), Says("ai", c), Says("human", {}), Says("tool", c)>>

GraphInit ==
  /\ durable \in BOOLEAN
  /\ \E old \in {NewThread.msgs} \cup {OldMessages(t) : t \in Tool \ GatedTool} :
       /\ old # <<>> => durable
       /\ thread = [m \in Model |-> [NewThread EXCEPT !.msgs = old]]
  /\ run = [stage |-> "idle", model |-> CHOOSE m \in Model : TRUE, token |-> 0, verdict |-> "message",
            acted |-> FALSE, prepend |-> FALSE]
  /\ unspent = {} /\ held = 0 /\ shown = <<>> /\ approved = {} /\ ran = {}
  /\ ranAgain = FALSE /\ unread = {} /\ astray = FALSE
  /\ spent = [turns |-> 0, calls |-> 0, breaks |-> 0]

Spends(f, max) == spent[f] < max /\ spent' = [spent EXCEPT ![f] = @ + 1]
-----------------------------------------------------------------------------
(* The list of messages                                                       *)

\* the tool messages directly after the i-th message
Block(msgs, i) ==
  {j \in i + 1 .. Len(msgs) : \A k \in i + 1 .. j : msgs[k].kind = "tool"}

AnsweredAt(msgs, i) == UNION {msgs[j].calls : j \in Block(msgs, i)}

Claimed(msgs, j) ==
  \E i \in 1 .. j - 1 : /\ msgs[i].kind = "ai" /\ j \in Block(msgs, i)
                        /\ msgs[j].calls \subseteq msgs[i].calls

\* what the provider takes: calls answered by the block after them, no other answers
Acceptable(msgs) ==
  /\ msgs # <<>>
  /\ \A i \in DOMAIN msgs : msgs[i].kind = "ai" => msgs[i].calls \subseteq AnsweredAt(msgs, i)
  /\ \A j \in DOMAIN msgs : msgs[j].kind = "tool" => Claimed(msgs, j)

\* a plausible fault: calls without an answer get one at the end of the list
PatchedAtTheEnd(msgs) ==
  LET open == UNION {msgs[i].calls \ AnsweredAt(msgs, i) :
                       i \in {k \in DOMAIN msgs : msgs[k].kind = "ai"}}
  IN  msgs \o [n \in 1 .. Cardinality(open) |-> Says("tool", {SetToSeq(open)[n]})]

\* the n-th index of a set of them
Nth(kept, n) == CHOOSE i \in kept : Cardinality({k \in kept : k <= i}) = n

\* _dangling_repair_ops: calls without an answer are taken out of their message,
\* answers without a call are removed
Mended(msgs) ==
  LET kept == {i \in DOMAIN msgs : msgs[i].kind = "tool" => Claimed(msgs, i)}
      Mend(i) == IF msgs[i].kind = "ai"
                 THEN [msgs[i] EXCEPT !.calls = @ \cap AnsweredAt(msgs, i)] ELSE msgs[i]
  IN  [n \in 1 .. Cardinality(kept) |-> Mend(Nth(kept, n))]

LastAi(msgs) == CHOOSE i \in DOMAIN msgs :
  msgs[i].kind = "ai" /\ \A k \in i + 1 .. Len(msgs) : msgs[k].kind # "ai"

\* the calls of the last answer of the model that wait for a tool
OpenCalls(msgs) ==
  IF \E i \in DOMAIN msgs : msgs[i].kind = "ai"
  THEN msgs[LastAi(msgs)].calls \ AnsweredAt(msgs, LastAi(msgs)) ELSE {}

Gated(calls) == {c \in calls : c.tool \in GatedTool}

Answers(calls) == [n \in 1 .. Cardinality(calls) |-> Says("tool", {SetToSeq(calls)[n]})]
-----------------------------------------------------------------------------
(* A turn begins                                                              *)

current == thread[run.model]
Continue(r) == thread' = [thread EXCEPT ![run.model] = r]

\* the record of a token that was sent goes with the turn, however it ends
HeldAfterTurn == IF run.token # 0 THEN 0 ELSE held
Idle == [run EXCEPT !.stage = "idle", !.token = 0, !.verdict = "message", !.acted = FALSE,
                    !.prepend = FALSE]
TurnOver == run' = Idle /\ held' = HeldAfterTurn

\* the daemon sends a turn, with the token it keeps and what the owner said; the worker
\* takes the token, or refuses the turn.  The profile may name another model than it did:
\* its worker is another process, the record stays.
SendTurn(m) ==
  /\ run.stage = "idle" /\ Spends("turns", MaxTurns)
  /\ \E v \in IF held = 0 THEN {"message"} ELSE {"approve", "reject", "unclear"} :
       /\ run' = IF held \in unspent \cup {0}
                 THEN [Idle EXCEPT !.stage = "spawned", !.model = m, !.token = held,
                                   !.verdict = v]
                 ELSE [Idle EXCEPT !.model = m]
       /\ approved' = IF v = "approve" THEN approved \cup shown[held].calls ELSE approved
  /\ unspent' = unspent \ {held}         \* consume_resume_token
  /\ held' = IF held \in unspent THEN held ELSE 0
  /\ astray' = (astray \/ (held # 0 /\ shown[held].model # m))
  /\ thread' \in IF durable THEN {thread}
                ELSE {AllNew} \cup {t \in {thread} : m = run.model}
  /\ UNCHANGED <<durable, shown, ran, ranAgain, unread>>

history == <<shown, approved, ran, ranAgain, astray>>

\* a message finds a thread: an empty one gets the system prompt, another is mended
ReadThread ==
  /\ run.stage = "spawned" /\ run.verdict = "message"
  /\ LET mended == Mended(current.msgs)
     IN  IF current.msgs = <<>> THEN UNCHANGED thread
         ELSE Continue([current EXCEPT !.msgs = mended,
                                       !.asked = IF mended = current.msgs THEN @ ELSE 0])
  /\ run' = [run EXCEPT !.stage = "fed", !.prepend = current.msgs = <<>>]
  /\ unread' = unread \ {run.model}
  /\ UNCHANGED <<durable, unspent, held, history, spent>>

\* get_state fails: the thread counts as new, or goes on as it is
ReadFails ==
  /\ run.stage = "spawned" /\ run.verdict = "message" /\ Spends("breaks", MaxBreaks)
  /\ \E prepend \in BOOLEAN : run' = [run EXCEPT !.stage = "fed", !.prepend = prepend]
  /\ unread' = unread \cup {run.model}
  /\ UNCHANGED <<thread, durable, unspent, held, history>>

\* a new input: what the graph had still to do is dropped
FeedMessage ==
  /\ run.stage = "fed"
  /\ Continue([msgs |-> current.msgs
                        \o (IF run.prepend THEN <<Says("system", {})>> ELSE <<>>)
                        \o <<Says("human", {})>>,
               next |-> "model", asked |-> 0])
  /\ run' = [run EXCEPT !.stage = "running"]
  /\ UNCHANGED <<durable, unspent, held, unread, history, spent>>

\* _has_pending
HasPending == current.next # "none"

\* _resume_input: a thread that waits is resumed; one that waits for nothing, and a text
\* that fits no decision the prompt allows, end the turn with an error
ResumeThread ==
  /\ run.stage = "spawned" /\ run.verdict # "message"
  /\ IF HasPending /\ ~(run.verdict = "unclear" /\ current.asked # 0)
     THEN /\ run' = [run EXCEPT !.stage = "running"] /\ UNCHANGED <<thread, held>>
     ELSE TurnOver /\ UNCHANGED thread
  /\ UNCHANGED <<durable, unspent, unread, history, spent>>
-----------------------------------------------------------------------------
(* The graph (LangGraph and its approval middleware, outside this repository)  *)

AtNode(node) == run.stage = "running" /\ current.next = node

AfterCalls(calls) ==
  IF Gated(calls) # {} THEN "gate" ELSE IF calls # {} THEN "tools" ELSE "none"

CallModel ==
  /\ AtNode("model") /\ Acceptable(current.msgs)
  /\ \E used \in IF spent.calls < MaxModelCalls THEN SUBSET Tool ELSE {{}} :
       LET calls == {[nr |-> spent.calls + 1, tool |-> t] : t \in used}
       IN  /\ Continue([msgs |-> Append(current.msgs, Says("ai", calls)),
                        next |-> AfterCalls(calls), asked |-> 0])
           /\ spent' = [spent EXCEPT !.calls = IF calls = {} THEN @ ELSE @ + 1]
  /\ run' = [run EXCEPT !.verdict = "message"]
  /\ UNCHANGED <<durable, unspent, held, unread, history>>

\* the provider refuses the list: the turn ends as an error, the thread is as it was
ProviderRefuses ==
  /\ AtNode("model") /\ ~Acceptable(current.msgs)
  /\ TurnOver
  /\ UNCHANGED <<thread, durable, unspent, unread, history, spent>>

\* the gate stops the graph; _interrupt_record makes the token, the journal stores it.
\* A cancel that was noticed first ends the turn without a token.  Where the daemon dies
\* before it has written the record, it keeps what it had.
AskOwner ==
  /\ AtNode("gate") /\ run.verdict = "message"
  /\ LET p == Len(shown) + 1
     IN  /\ Continue([current EXCEPT !.asked = p])
         /\ shown' = Append(shown, [model |-> run.model, calls |-> Gated(OpenCalls(current.msgs))])
         /\ \/ unspent' = unspent \cup {p} /\ held' = p /\ UNCHANGED spent
            \/ unspent' = unspent \cup {p} /\ UNCHANGED held /\ Spends("breaks", MaxBreaks)
            \/ UNCHANGED unspent /\ held' = HeldAfterTurn
               /\ Spends("breaks", MaxBreaks)
  /\ run' = Idle
  /\ UNCHANGED <<durable, approved, ran, ranAgain, unread, astray>>

\* the decision is applied to every action of the request; a resume that finds the gate
\* before it has asked is not in the gate's form and breaks the turn
Decide ==
  /\ AtNode("gate") /\ run.verdict # "message"
  /\ LET gated == Gated(OpenCalls(current.msgs))
         free == OpenCalls(current.msgs) \ gated
     IN  CASE current.asked = 0 -> TurnOver /\ UNCHANGED thread
           [] current.asked # 0 /\ run.verdict = "approve" ->
                /\ Continue([current EXCEPT !.next = "tools", !.asked = 0])
                /\ run' = [run EXCEPT !.verdict = "message"] /\ UNCHANGED held
           [] OTHER ->
                /\ Continue([msgs |-> current.msgs \o Answers(gated), asked |-> 0,
                             next |-> IF free = {} THEN "model" ELSE "tools"])
                /\ run' = [run EXCEPT !.verdict = "message"] /\ UNCHANGED held
  /\ UNCHANGED <<durable, unspent, unread, history, spent>>

RunTools ==
  /\ AtNode("tools") /\ ~run.acted
  /\ LET calls == OpenCalls(current.msgs)
     IN  /\ ran' = ran \cup calls
         /\ ranAgain' = (ranAgain \/ calls \cap ran # {})
  /\ run' = [run EXCEPT !.acted = TRUE, !.verdict = "message"]
  /\ UNCHANGED <<thread, durable, unspent, held, shown, approved, unread, astray,
                 spent>>

SaveTools ==
  /\ AtNode("tools") /\ run.acted
  /\ Continue([msgs |-> current.msgs \o Answers(OpenCalls(current.msgs)), next |-> "model",
               asked |-> 0])
  /\ run' = [run EXCEPT !.acted = FALSE]
  /\ UNCHANGED <<durable, unspent, held, unread, history, spent>>

TurnSucceeds ==
  /\ AtNode("none") /\ TurnOver
  /\ UNCHANGED <<thread, durable, unspent, unread, history, spent>>
-----------------------------------------------------------------------------
(* What may come at any time                                                  *)

\* a cancel, an exception of a node, the end of the worker: the thread stays as it was
\* saved last; in memory it may be gone.  If the daemon dies too, its record stays.
TurnBreaks ==
  /\ run.stage # "idle" /\ Spends("breaks", MaxBreaks)
  /\ run' = Idle /\ held' \in {held, HeldAfterTurn}
  /\ thread' \in {thread, IF durable THEN thread ELSE AllNew}
  /\ UNCHANGED <<durable, unspent, unread, history>>

\* the prompt is dismissed, or expires; during a turn that has its token this changes
\* nothing
PromptDropped ==
  /\ run.stage = "idle" /\ held # 0 /\ held' = 0
  /\ UNCHANGED <<thread, durable, run, unspent, unread, history, spent>>

GraphNext ==
  \/ \E m \in Model : SendTurn(m)
  \/ ReadThread \/ ReadFails \/ FeedMessage \/ ResumeThread
  \/ CallModel \/ ProviderRefuses \/ AskOwner \/ Decide \/ RunTools \/ SaveTools
  \/ TurnSucceeds \/ TurnBreaks \/ PromptDropped

GraphSpec == GraphInit /\ [][GraphNext]_graphVars
-----------------------------------------------------------------------------
(* Properties                                                                 *)

\* Whatever broke the turns before, the model is never started on a list its provider
\* refuses, unless the thread could not be read (langgraph.py:598-610, 998-1001).
ProviderIsFed ==
  AtNode("model") /\ run.model \notin unread => Acceptable(current.msgs)

\* A gated call runs only if the owner approved the prompt that showed it.  A token sent
\* to another thread than the one that issued it is left out.
NothingRunsUnapproved == astray \/ Gated(ran) \subseteq approved

\* A call whose effect may have happened is not made a second time.
CallsRunOnce == astray \/ ~ranAgain

ThreadsStaySound == ProviderIsFed /\ NothingRunsUnapproved /\ CallsRunOnce
=============================================================================
