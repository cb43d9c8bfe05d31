------------------------------- MODULE Approvals -------------------------------
(* A turn of a worker may stop and ask its owner for a decision.  The daemon keeps   *)
(* the prompt and its one-time token in a file, tells the server which prompts wait, *)
(* the server tells the owner's browser, and the answer goes the way back: a         *)
(* decision or a dismissal from the banner, or just the next message of the          *)
(* conversation.  Prompts are replaced, expire or are cleared while answers travel;  *)
(* either connection may break and the daemon may crash.                             *)
EXTENDS Integers, Sequences, FiniteSets, SequencesExt

CONSTANTS
  Conversation,      \* conversations of one agent
  MaxPrompts, MaxEntries, MaxAnswers,   \* bounds: prompts, messages, answers;
  MaxTrouble,        \* failed turns, expiries, profile edits, unregistrations and
  MaxDrops           \* crashes together; connections lost

ASSUME ApprovalsAssumption ==
  {MaxPrompts, MaxEntries, MaxAnswers, MaxTrouble, MaxDrops} \subseteq Nat

Interrupt == 1 .. MaxPrompts      \* interruptId and its resumeToken; a later one is newer
None == 0
\* a queue entry: a message, or (decided # None) a decision on one prompt
Entry == [conv : Conversation, decided : Interrupt \cup {None}]
NoWork == [stage |-> "none", conv |-> None, resume |-> None, decided |-> None,
    old |-> FALSE]
\* a command on its way to the daemon; a dismissal names its conversation only
Command == [kind : {"dismiss", "resolve"}, conv : Conversation, prompt : Interrupt]

VARIABLES
  filed,       \* daemon-runtime-interrupts.json: conversation -> prompt or None
  issuedIn,    \* history: the prompts issued, each with its conversation
  expired,     \* prompts past their expiresAt
  outdated,    \* prompts of a runtime, entrypoint or revision the profile has left
  entries,     \* the dispatch queue of the agent; a batch is one entry
  work,        \* the dispatch: none, preparing (its awaits before send), sent
  onDuty, cut,   \* the agent is registered; a halt came during the dispatch
  link,        \* the daemon's websocket is open
  upward, downward,    \* snapshots to the server, commands to the daemon, in order
  snapshot,    \* meta.interrupts of the machine, as the server knows it
  browser, toBrowser, banner,   \* the owner's page: connected; frames; what it shows
  routing,     \* answers of the page whose target the server is looking up
  sentTokens,  \* history: prompts whose token this daemon process has sent
  count        \* bounds

approvalVars == <<filed, issuedIn, expired, outdated, entries, work, onDuty, cut, link,
                  upward,
                  downward, snapshot, browser, toBrowser, banner, routing, sentTokens,
                      count>>

promptFacts == <<issuedIn, expired, outdated>>
daemonSide == <<filed, promptFacts, entries, work, onDuty, cut, sentTokens>>
serverSide == <<snapshot, browser, toBrowser, banner, routing>>

ApprovalsTypeOK ==
  /\ filed \in [Conversation -> Interrupt \cup {None}]
  /\ issuedIn \in Seq(Conversation) /\ Len(issuedIn) <= MaxPrompts
  /\ expired \subseteq Interrupt /\ outdated \subseteq Interrupt /\ entries \in Seq(Entry)
  /\ work.stage \in {"none", "preparing", "sent"}
  /\ work.resume \in Interrupt \cup {None} /\ work.decided \in Interrupt \cup {None}
  /\ {onDuty, cut, link, browser} \subseteq BOOLEAN
  /\ upward \in Seq(SUBSET Interrupt) /\ downward \in Seq(Command)
  /\ snapshot \subseteq Interrupt /\ toBrowser \in Seq(SUBSET Interrupt)
  /\ banner \subseteq Interrupt /\ routing \subseteq Command /\ sentTokens \subseteq Interrupt

ApprovalsInit ==
  /\ filed = [c \in Conversation |-> None] /\ issuedIn = <<>> /\ expired = {} /\ outdated = {}
  /\ entries = <<>> /\ work = NoWork /\ onDuty = TRUE /\ cut = FALSE
  /\ link = TRUE /\ upward = <<>> /\ downward = <<>> /\ snapshot = {}
  /\ browser = TRUE /\ toBrowser = <<>> /\ banner = {} /\ routing = {} /\ sentTokens = {}
  /\ count = [answers |-> 0, entries |-> 0, trouble |-> 0, drops |-> 0]

Counted(f, max) == count[f] < max /\ count' = [count EXCEPT ![f] = @ + 1]
-----------------------------------------------------------------------------
(* The store and its snapshots                                                *)

\* sendInterruptsState: what is past its time is left out
Summary(st) == {st[c] : c \in Conversation} \ (expired \cup {None})

\* sendWs: dropped while the socket is not open
Pushed(st) == IF link THEN Append(upward, Summary(st)) ELSE upward

Without(st, S) == [c \in Conversation |-> IF st[c] \in S THEN None ELSE st[c]]

\* every change of the file that changes something is pushed
Write(st) == filed' = st /\ upward' = IF st = filed THEN upward ELSE Pushed(st)
-----------------------------------------------------------------------------
(* The dispatch                                                               *)

\* the decision is on the prompt that waits now
DecisionHolds(e, pending) == e.decided # None => pending = e.decided

\* drain and doDispatch: take() clears a prompt that is no longer usable; a decision
\* whose prompt is gone is dropped, with a push that corrects the banner; a session of
\* another profile takes the prompts of all conversations with it
Begin ==
  /\ work.stage = "none" /\ entries # <<>> /\ onDuty
  /\ LET e == Head(entries)
         kept == IF filed[e.conv] \in expired \cup outdated
                 THEN [filed EXCEPT ![e.conv] = None] ELSE filed
         taken == IF kept = filed THEN upward ELSE Pushed(kept)
     IN  IF DecisionHolds(e, kept[e.conv])
         THEN \E swept \in {kept, Without(kept, outdated)} :
                /\ filed' = swept
                /\ upward' = IF swept = kept THEN taken
                             ELSE IF link THEN Append(taken, Summary(swept)) ELSE taken
                /\ work' = [stage |-> "preparing", conv |-> e.conv, old |-> FALSE,
                            resume |-> kept[e.conv], decided |-> e.decided]
         ELSE /\ filed' = kept /\ work' = NoWork
              /\ upward' = IF link THEN Append(taken, Summary(kept)) ELSE taken
  /\ entries' = Tail(entries) /\ cut' = FALSE
  /\ UNCHANGED <<promptFacts, onDuty, link, downward, serverSide, sentTokens, count>>

\* the session is there and the turn goes out, its token with it
SendResumingTurn ==
  /\ work.stage = "preparing" /\ ~cut
  /\ work' = [work EXCEPT !.stage = "sent"]
  /\ sentTokens' = sentTokens \cup ({work.resume} \ {None})
  /\ UNCHANGED <<filed, promptFacts, entries, onDuty, cut, link, upward, downward,
                 serverSide, count>>

\* a failed dispatch is put back at the head while the queue is the one it came from,
\* or given up (attempts exhausted, a permanent error, a halt)
PutBackEntry ==
  \/ /\ ~cut /\ entries' = <<[conv |-> work.conv, decided |-> work.decided]>> \o entries
  \/ entries' = entries

\* what a halt has cut is bound to fail; other failures are bounded
FailureCounted == IF cut THEN UNCHANGED count ELSE Counted("trouble", MaxTrouble)

\* a dispatch fails before its turn is sent: the prompt stays
PrepareFails ==
  /\ work.stage = "preparing"
  /\ FailureCounted
  /\ PutBackEntry /\ work' = NoWork
  /\ UNCHANGED <<filed, promptFacts, onDuty, cut, link, upward, downward, serverSide,
                 sentTokens>>

\* a plausible fault: a token is kept until a turn has succeeded with it
EndsKeepToken(status) ==
  IF work.resume # None /\ status = "success" THEN [filed EXCEPT ![work.conv] = None]
  ELSE filed

\* the turn is over: whatever its end, a token that was sent is gone
AfterTurn(status) ==
  IF work.resume # None THEN [filed EXCEPT ![work.conv] = None] ELSE filed

WorkEnds ==
  /\ work.stage = "sent" /\ work' = NoWork
  /\ Write(AfterTurn("success"))
  /\ UNCHANGED <<promptFacts, entries, onDuty, cut, link, downward, serverSide,
                 sentTokens, count>>

\* send() rejects: the token may have reached the worker, so it is given up
WorkFails ==
  /\ work.stage = "sent" /\ work' = NoWork
  /\ FailureCounted
  /\ Write(AfterTurn("error")) /\ PutBackEntry
  /\ UNCHANGED <<promptFacts, onDuty, cut, link, downward, serverSide, sentTokens>>

\* the worker asks: its prompt replaces what the conversation had
WorkInterrupts ==
  /\ work.stage = "sent" /\ Len(issuedIn) < MaxPrompts
  /\ LET p == Len(issuedIn) + 1
     IN  /\ issuedIn' = Append(issuedIn, work.conv)
         /\ outdated' = IF work.old THEN outdated \cup {p} ELSE outdated
         /\ Write([filed EXCEPT ![work.conv] = p])
  /\ work' = NoWork
  /\ UNCHANGED <<expired, entries, onDuty, cut, link, downward, serverSide, sentTokens,
                 count>>
-----------------------------------------------------------------------------
(* The agent                                                                  *)

\* a message for the agent; one without a registration is a dead letter
MessageComes(c) ==
  /\ onDuty /\ Counted("entries", MaxEntries)
  /\ entries' = Append(entries, [conv |-> c, decided |-> None])
  /\ UNCHANGED <<filed, promptFacts, work, onDuty, cut, link, upward, downward,
                 serverSide, sentTokens>>

\* unregisterAgent: its prompts are void, its queue and its dispatch are cut; the
\* session gets its grace, so a turn that is out may still end in any way
Unregister ==
  /\ onDuty /\ onDuty' = FALSE /\ Counted("trouble", MaxTrouble)
  /\ Write([c \in Conversation |-> None])
  /\ entries' = <<>> /\ cut' = TRUE
  /\ UNCHANGED <<promptFacts, work, link, downward, serverSide, sentTokens>>

Reregister ==
  /\ ~onDuty /\ onDuty' = TRUE
  /\ entries' = <<>> /\ cut' = TRUE
  /\ UNCHANGED <<filed, promptFacts, work, link, upward, downward, serverSide,
                 sentTokens, count>>

\* time passes expiresAt: nobody is told
Expires ==
  /\ \E p \in {filed[c] : c \in Conversation} \ (expired \cup {None}) :
       expired' = expired \cup {p}
  /\ Counted("trouble", MaxTrouble)
  /\ UNCHANGED <<filed, issuedIn, outdated, entries, work, onDuty, cut, link, upward,
                 downward, serverSide, sentTokens>>

\* invalidateOnIdentityChange: where a session of the old profile is recorded, it and
\* the prompts go at once; a turn that is out is still one of the old profile
IdentityChanges ==
  /\ Counted("trouble", MaxTrouble)
  /\ outdated' = DOMAIN issuedIn
  /\ work' = [work EXCEPT !.old = work.stage # "none"]
  /\ Write(filed) \/ Write([c \in Conversation |-> None])
  /\ UNCHANGED <<issuedIn, expired, entries, onDuty, cut, link, downward, serverSide,
                 sentTokens>>

\* the file survives; the queue, the dispatch and the socket do not
DaemonCrashes ==
  /\ Counted("trouble", MaxTrouble)
  /\ entries' = <<>> /\ work' = NoWork /\ cut' = FALSE /\ sentTokens' = {}
  /\ onDuty' \in BOOLEAN
  /\ link' = FALSE /\ upward' = <<>> /\ downward' = <<>>
  /\ snapshot' = {}
  /\ toBrowser' = IF snapshot # {} /\ browser THEN Append(toBrowser, {}) ELSE toBrowser
  /\ UNCHANGED <<filed, promptFacts, browser, banner, routing>>
-----------------------------------------------------------------------------
(* Commands reach the daemon                                                  *)

\* interrupt:dismiss deletes what the conversation has now
DismissArrives ==
  /\ link /\ downward # <<>> /\ Head(downward).kind = "dismiss"
  /\ downward' = Tail(downward)
  /\ Write([filed EXCEPT ![Head(downward).conv] = None])
  /\ UNCHANGED <<promptFacts, entries, work, onDuty, cut, link, serverSide, sentTokens,
                 count>>

\* resolveInterrupt: checked against the file without taking anything from it; a
\* decision that does not fit gets the snapshot pushed instead
ResolveArrives ==
  /\ link /\ downward # <<>> /\ Head(downward).kind = "resolve"
  /\ downward' = Tail(downward)
  /\ LET f == Head(downward)
     IN  IF filed[f.conv] = f.prompt /\ f.prompt \notin expired
         THEN /\ entries' = IF onDuty
                            THEN Append(entries, [conv |-> f.conv, decided |-> f.prompt])
                            ELSE entries
              /\ UNCHANGED upward
         ELSE upward' = Pushed(filed) /\ UNCHANGED entries
  /\ UNCHANGED <<filed, promptFacts, work, onDuty, cut, link, serverSide, sentTokens,
                 count>>
-----------------------------------------------------------------------------
(* The connection of the daemon                                               *)

\* the close event of the slot's connection
LinkBreaks ==
  /\ link /\ Counted("drops", MaxDrops)
  /\ link' = FALSE /\ upward' = <<>> /\ downward' = <<>>
  /\ snapshot' = {}
  /\ toBrowser' = IF snapshot # {} /\ browser THEN Append(toBrowser, {}) ELSE toBrowser
  /\ UNCHANGED <<daemonSide, browser, banner, routing>>

\* the open handler: ready, then the whole snapshot
OpenSays == <<Summary(filed)>>

LinkOpens ==
  /\ ~link /\ link' = TRUE /\ upward' = OpenSays
  /\ UNCHANGED <<daemonSide, downward, serverSide, count>>

\* interrupts:state replaces what the server knew and goes on to the page
StateArrives ==
  /\ upward # <<>> /\ upward' = Tail(upward)
  /\ snapshot' = Head(upward)
  /\ toBrowser' = IF browser THEN Append(toBrowser, Head(upward)) ELSE toBrowser
  /\ UNCHANGED <<daemonSide, link, downward, browser, banner, routing, count>>
-----------------------------------------------------------------------------
(* The page                                                                   *)

BannerArrives ==
  /\ browser /\ toBrowser # <<>>
  /\ banner' = Head(toBrowser) /\ toBrowser' = Tail(toBrowser)
  /\ UNCHANGED <<daemonSide, link, upward, downward, snapshot, browser, routing, count>>

\* the owner answers a prompt the page shows
Answer(p) ==
  /\ browser /\ p \in banner /\ Counted("answers", MaxAnswers)
  /\ \E k \in {"dismiss", "resolve"} :
       routing' = routing \cup {[kind |-> k, conv |-> issuedIn[p], prompt |-> p]}
  /\ UNCHANGED <<daemonSide, link, upward, downward, snapshot, browser, toBrowser,
                 banner>>

\* resolveInterruptTarget has answered: the command goes on, or nobody is there
RouteAnswer ==
  \E f \in routing :
    /\ routing' = routing \ {f}
    /\ downward' = IF link THEN Append(downward, f) ELSE downward
    /\ UNCHANGED <<daemonSide, link, upward, snapshot, browser, toBrowser, banner,
                   count>>

PageLeaves ==
  /\ browser /\ browser' = FALSE /\ toBrowser' = <<>> /\ Counted("drops", MaxDrops)
  /\ banner' \in {banner, {}}      \* the connection broke, or the page was reloaded
  /\ UNCHANGED <<daemonSide, link, upward, downward, snapshot, routing>>

\* registerConnection sends what the server knows, unless that is nothing
PageConnects ==
  /\ ~browser /\ browser' = TRUE
  /\ toBrowser' = IF snapshot = {} THEN <<>> ELSE <<snapshot>>
  /\ UNCHANGED <<daemonSide, link, upward, downward, snapshot, banner, routing, count>>
-----------------------------------------------------------------------------
ApprovalsNext ==
  \/ Begin \/ SendResumingTurn \/ PrepareFails \/ WorkEnds \/ WorkFails \/ WorkInterrupts
  \/ \E c \in Conversation : MessageComes(c)
  \/ Unregister \/ Reregister \/ Expires \/ IdentityChanges \/ DaemonCrashes
  \/ DismissArrives \/ ResolveArrives
  \/ LinkBreaks \/ LinkOpens \/ StateArrives
  \/ BannerArrives \/ RouteAnswer \/ PageLeaves \/ PageConnects
  \/ \E p \in Interrupt : Answer(p)

ApprovalsSpec == ApprovalsInit /\ [][ApprovalsNext]_approvalVars
-----------------------------------------------------------------------------
(* Properties                                                                 *)

\* The owner's decision resumes the prompt it was made for, whatever came between the
\* click and the turn.
DecisionFitsItsPrompt == work.decided # None => work.resume = work.decided

\* A token is not sent a second time by the process that has sent it: a retried or
\* later turn of the conversation starts afresh.  agent-runtime-dispatch-headless.ts:514-518
\* and 562-564 ask for this, since a worker takes a token once; the sentence of the store
\* that TokenIsKeptForTheRetry states asks for the opposite where a turn is retried.
TokenIsSentAgain ==
  work.stage = "preparing" /\ work'.stage = "sent" /\ work.resume \in sentTokens

\* When nothing is on its way, the server lists exactly what the daemon holds, but for
\* what expired meanwhile, and a connected page shows every prompt that waits.
Quiet == link /\ upward = <<>> /\ toBrowser = <<>>
WaitingPromptsAreShown ==
  Quiet => /\ Summary(filed) \subseteq snapshot /\ snapshot \subseteq Summary(filed) \cup expired
           /\ browser => snapshot \subseteq banner

\* A prompt of a worker reaches its owner, and the owner's answer the prompt it was given
\* for, once.
PromptsAreHonoured ==
  [][WaitingPromptsAreShown' /\ DecisionFitsItsPrompt' /\ ~TokenIsSentAgain]_approvalVars

\* A turn that was sent and goes back to the queue keeps its prompt for the next attempt:
\* "deleted when the resumption has succeeded; kept on a retry, since the turn has not come
\* to its end" (agent-runtime-interrupt-store.ts:9).  The code does not keep this: it gives
\* the token up, and a decision that is retried fits nothing any more.
TurnIsRetried == work.stage = "sent" /\ work' = NoWork /\ Len(entries') > Len(entries)
TokenIsKeptForTheRetry ==
  [][TurnIsRetried => filed'[work.conv] = filed[work.conv]]_approvalVars

\* The page shows nothing that is not waiting (PendingInterruptBanner.vue:21).
BannerIsTheSnapshot == Quiet /\ browser => banner = snapshot
=============================================================================
