------------------------------- MODULE TaskBoard -------------------------------
(* One channel's task board and the dispatch contracts of its manager, as rows    *)
(* that concurrent requests read and write.  A step is one SQL statement (or one   *)
(* transaction that holds the task-number lock from one step to the next); other   *)
(* requests, of people and of agents, run between any two of them.                 *)
EXTENDS Integers, FiniteSets

CONSTANTS
  Message, Contract,   \* row ids; a contract stands for its idempotency key
  Member, Admin,       \* who claims and moves cards; those who manage the channel
  Worker,              \* the member contracts are given to
  Request,             \* requests that may run at one time
  Nobody, NoCard,
  MaxRequests, MaxAborts   \* bounds: requests made, requests that die on their way

ASSUME TaskBoardAssumption ==
  /\ Admin \subseteq Member /\ Worker \in Member /\ Nobody \notin Member
  /\ NoCard \notin Message /\ Nobody \notin Request
  /\ MaxRequests \in Nat /\ MaxAborts \in Nat

VARIABLES
  card,       \* message -> its task columns
  contract,   \* dispatches: status and task_message_id
  numLock,    \* holder of the channel's task-number lock
  req,        \* request -> what it is doing and what it has read
  begun, aborts,
  told,       \* history: who was told "claimed" since the task was last let go
  reports, accepts   \* history: per contract, requests that were answered ok

boardHistory == <<told, reports, accepts>>
boardVars == <<card, contract, numLock, req, begun, aborts, told, reports, accepts>>

OpenStatus == {"todo", "in_progress", "in_review"}
FinalStatus == {"done", "closed"}
Card == [num : Nat, status : {"absent", "plain"} \cup OpenStatus \cup FinalStatus,
         holder : Member \cup {Nobody}]
Terminal == {"cancelled", "completed"}
NoRequest == [op |-> "none", step |-> "none", msg |-> NoCard, con |-> "none", num |-> 0,
              status |-> "none", changed |-> FALSE]

TaskBoardInit ==
  /\ card = [m \in Message |-> [num |-> 0, status |-> "absent", holder |-> Nobody]]
  /\ contract = [d \in Contract |-> [status |-> "none", card |-> NoCard]]
  /\ numLock = Nobody /\ req = [q \in Request |-> NoRequest]
  /\ begun = 0 /\ aborts = 0 /\ told = [m \in Message |-> {}]
  /\ reports = [d \in Contract |-> 0] /\ accepts = [d \in Contract |-> 0]

-----------------------------------------------------------------------------
(* Requests                                                                  *)

Begin(q, r) ==
  /\ req[q] = NoRequest /\ begun < MaxRequests
  /\ begun' = begun + 1 /\ req' = [req EXCEPT ![q] = r]
At(q, op, step) == req[q].op = op /\ req[q].step = step
GoTo(q, step) == req' = [req EXCEPT ![q].step = step]
Answer(q) == req' = [req EXCEPT ![q] = NoRequest]
Bounds == <<begun, aborts>>

IsTask(m) == card[m].num > 0
Numbered(n) == {m \in Message : card[m].num = n}
\* MAX(task_number) + 1, as the set of that one number
NextNumbers == {n \in {1} \cup {card[m].num + 1 : m \in Message} :
                  \A m \in Message : card[m].num < n}

\* a query throws or the process dies; an open transaction rolls back
Abort(q) ==
  /\ req[q] # NoRequest /\ aborts < MaxAborts
  /\ aborts' = aborts + 1 /\ Answer(q)
  /\ numLock' = IF numLock = q THEN Nobody ELSE numLock
  /\ UNCHANGED <<card, contract, begun, boardHistory>>
-----------------------------------------------------------------------------
(* Task numbers                                                              *)

TakeNumber(q) ==
  /\ req[q].step = "number" /\ numLock = Nobody
  /\ numLock' = q
  /\ \E n \in NextNumbers : req' = [req EXCEPT ![q].step = "write", ![q].num = n]
  /\ UNCHANGED <<card, contract, Bounds, boardHistory>>

\* the dispatch takes its notice as a card, whatever has become of it
WriteAssigned(q) ==
  /\ At(q, "delegate", "write") /\ GoTo(q, "link") /\ numLock' = Nobody
  /\ card' = [card EXCEPT ![req[q].msg] =
                [num |-> req[q].num, status |-> "in_progress", holder |-> Worker]]
  /\ told' = [told EXCEPT ![req[q].msg] = {}]
  /\ UNCHANGED <<contract, Bounds, reports, accepts>>

WriteNew(q) ==
  /\ At(q, "create", "write") /\ Answer(q) /\ numLock' = Nobody
  /\ \E m \in Message :
       /\ card[m].status = "absent"
       /\ card' = [card EXCEPT ![m].num = req[q].num, ![m].status = "todo"]
  /\ UNCHANGED <<contract, Bounds, boardHistory>>

WriteConverted(q) ==
  /\ At(q, "convert", "write") /\ Answer(q) /\ numLock' = Nobody
  /\ card' = IF IsTask(req[q].msg) THEN card
             ELSE [card EXCEPT ![req[q].msg].num = req[q].num,
                               ![req[q].msg].status = "todo"]
  /\ UNCHANGED <<contract, Bounds, boardHistory>>

CreateTask(q) ==
  /\ \E m \in Message : card[m].status = "absent"
  /\ Begin(q, [NoRequest EXCEPT !.op = "create", !.step = "number"])
  /\ UNCHANGED <<card, contract, numLock, aborts, boardHistory>>

PostMessage ==
  /\ \E m \in Message : card[m].status = "absent"
                        /\ card' = [card EXCEPT ![m].status = "plain"]
  /\ UNCHANGED <<contract, numLock, req, Bounds, boardHistory>>

ConvertMessage(q, m) ==
  /\ card[m].status = "plain"
  /\ Begin(q, [NoRequest EXCEPT !.op = "convert", !.step = "number", !.msg = m])
  /\ UNCHANGED <<card, contract, numLock, aborts, boardHistory>>
-----------------------------------------------------------------------------
(* Claims.  unclaim and update-status read the holder, then write by number.  *)

MayTouch(who, m) == card[m].holder \in {Nobody, who} \/ who \in Admin

Claim(who, m) ==
  /\ IsTask(m) /\ card[m].status \notin FinalStatus
  /\ card[m].holder \in {Nobody, who}
  /\ card' = [card EXCEPT ![m].status = "in_progress", ![m].holder = who]
  /\ told' = [told EXCEPT ![m] = @ \cup {who}]
  /\ UNCHANGED <<contract, numLock, req, Bounds, reports, accepts>>

AskUnclaim(q, who, m) ==
  /\ IsTask(m) /\ MayTouch(who, m)
  /\ Begin(q, [NoRequest EXCEPT !.op = "unclaim", !.step = "update", !.num = card[m].num])
  /\ UNCHANGED <<card, contract, numLock, aborts, boardHistory>>

Unclaim(q) ==
  /\ At(q, "unclaim", "update") /\ Answer(q)
  /\ LET hit == Numbered(req[q].num)
     IN  /\ card' = [m \in Message |-> IF m \notin hit THEN card[m]
                                      ELSE [card[m] EXCEPT !.holder = Nobody, !.status = "todo"]]
         /\ told' = [m \in Message |-> IF m \in hit THEN {} ELSE told[m]]
  /\ UNCHANGED <<contract, numLock, Bounds, reports, accepts>>

AskStatus(q, who, m, s) ==
  /\ IsTask(m) /\ MayTouch(who, m)
  /\ Begin(q, [NoRequest EXCEPT !.op = "move", !.step = "update", !.num = card[m].num,
               !.msg = m, !.status = s, !.changed = card[m].status # s])
  /\ UNCHANGED <<card, contract, numLock, aborts, boardHistory>>

MoveCard(q) ==
  /\ At(q, "move", "update")
  /\ LET hit == Numbered(req[q].num)
     IN  /\ card' = [m \in Message |-> IF m \notin hit THEN card[m]
                                      ELSE [card[m] EXCEPT !.status = req[q].status]]
         /\ IF hit # {} /\ req[q].changed /\ req[q].status \in FinalStatus
            THEN GoTo(q, "sync") ELSE Answer(q)
  /\ UNCHANGED <<contract, numLock, Bounds, boardHistory>>

\* syncDispatchOnCardClose
SyncContract(q) ==
  /\ At(q, "move", "sync") /\ Answer(q)
  /\ contract' = [d \in Contract |->
       IF contract[d].card = req[q].msg /\ contract[d].status \in {"open", "reported"}
       THEN [contract[d] EXCEPT !.status =
               IF req[q].status = "done" THEN "completed" ELSE "cancelled"]
       ELSE contract[d]]
  /\ UNCHANGED <<card, numLock, Bounds, boardHistory>>
-----------------------------------------------------------------------------
(* Contracts                                                                 *)

\* a second request with the key of an existing contract returns the contract
Delegate(q, d) ==
  /\ contract[d].status = "none"
  /\ contract' = [contract EXCEPT ![d].status = "open"]
  /\ Begin(q, [NoRequest EXCEPT !.op = "delegate", !.step = "post", !.con = d])
  /\ UNCHANGED <<card, numLock, aborts, boardHistory>>

PostNotice(q) ==
  /\ At(q, "delegate", "post")
  /\ \E m \in Message :
       /\ card[m].status = "absent"
       /\ card' = [card EXCEPT ![m].status = "plain"]
       /\ req' = [req EXCEPT ![q].msg = m, ![q].step = "number"]
  /\ UNCHANGED <<contract, numLock, Bounds, boardHistory>>

LinkCard(q) ==
  /\ At(q, "delegate", "link") /\ Answer(q)
  /\ contract' = [contract EXCEPT ![req[q].con].card = req[q].msg]
  /\ UNCHANGED <<card, numLock, Bounds, boardHistory>>

AskReport(q, d) ==
  /\ contract[d].status = "open"
  /\ Begin(q, [NoRequest EXCEPT !.op = "report", !.step = "update", !.con = d,
               !.msg = contract[d].card])
  /\ UNCHANGED <<card, contract, numLock, aborts, boardHistory>>

AskCancel(q, d) ==
  /\ contract[d].status = "open"
  /\ Begin(q, [NoRequest EXCEPT !.op = "cancel", !.step = "update", !.con = d,
               !.msg = contract[d].card])
  /\ UNCHANGED <<card, contract, numLock, aborts, boardHistory>>

ThenCard(q) == IF req[q].msg = NoCard THEN Answer(q) ELSE GoTo(q, "card")

\* neither update repeats the condition of its select
Report(q) ==
  /\ At(q, "report", "update") /\ ThenCard(q)
  /\ contract' = [contract EXCEPT ![req[q].con].status = "reported"]
  /\ reports' = [reports EXCEPT ![req[q].con] = @ + 1]
  /\ UNCHANGED <<card, numLock, Bounds, told, accepts>>

CancelContract(q) ==
  /\ At(q, "cancel", "update") /\ ThenCard(q)
  /\ contract' = [contract EXCEPT ![req[q].con].status = "cancelled"]
  /\ UNCHANGED <<card, numLock, Bounds, boardHistory>>

\* a plausible fault: the condition of the update is left out
AcceptAny(q, d) ==
  /\ contract[d].status # "none"
  /\ contract' = [contract EXCEPT ![d].status = "completed"]
  /\ accepts' = [accepts EXCEPT ![d] = @ + 1]
  /\ Begin(q, [NoRequest EXCEPT !.op = "accept", !.step = "card", !.con = d,
               !.msg = contract[d].card])
  /\ UNCHANGED <<card, numLock, aborts, told, reports>>

\* one conditional update, then the card of the row it returned
Accept(q, d) ==
  /\ contract[d].status = "reported"
  /\ contract' = [contract EXCEPT ![d].status = "completed"]
  /\ accepts' = [accepts EXCEPT ![d] = @ + 1]
  /\ Begin(q, [NoRequest EXCEPT !.op = "accept", !.step = "card", !.con = d,
               !.msg = contract[d].card])
  /\ UNCHANGED <<card, numLock, aborts, told, reports>>

CardStatus == [report |-> "in_review", cancel |-> "closed", accept |-> "done"]
UpdateCard(q) ==
  /\ req[q].step = "card" /\ Answer(q)
  /\ card' = IF req[q].msg = NoCard THEN card
             ELSE [card EXCEPT ![req[q].msg].status = CardStatus[req[q].op]]
  /\ UNCHANGED <<contract, numLock, Bounds, boardHistory>>
-----------------------------------------------------------------------------
TaskBoardNext ==
  \/ PostMessage
  \/ \E q \in Request :
       \/ CreateTask(q) \/ TakeNumber(q) \/ WriteAssigned(q) \/ WriteNew(q)
       \/ WriteConverted(q) \/ Unclaim(q) \/ MoveCard(q) \/ SyncContract(q)
       \/ PostNotice(q) \/ LinkCard(q) \/ Report(q) \/ CancelContract(q) \/ UpdateCard(q)
       \/ Abort(q)
       \/ \E d \in Contract : \/ Delegate(q, d) \/ AskReport(q, d) \/ AskCancel(q, d)
                              \/ Accept(q, d)
       \/ \E m \in Message : ConvertMessage(q, m)
       \/ \E who \in Member, m \in Message :
            AskUnclaim(q, who, m) \/ \E s \in OpenStatus \cup FinalStatus : AskStatus(q, who, m, s)
  \/ \E who \in Member, m \in Message : Claim(who, m)

TaskBoardSpec == TaskBoardInit /\ [][TaskBoardNext]_boardVars
-----------------------------------------------------------------------------
(* Properties                                                                *)

\* Types of the rows and of the requests in flight.
TaskBoardTypeOK ==
  /\ card \in [Message -> Card]
  /\ contract \in [Contract -> [status : {"none", "open", "reported"} \cup Terminal,
                                card : Message \cup {NoCard}]]
  /\ numLock \in Request \cup {Nobody} /\ begun \in Nat /\ aborts \in Nat
  /\ \A q \in Request :
       /\ req[q].op \in {"none", "create", "convert", "delegate", "unclaim", "move",
                         "report", "cancel", "accept"}
       /\ req[q].num \in Nat /\ req[q].msg \in Message \cup {NoCard}
  /\ told \in [Message -> SUBSET Member]
  /\ reports \in [Contract -> Nat] /\ accepts \in [Contract -> Nat]

\* Two tasks of a channel never have one number, however creation, conversion and
\* dispatch race for the next one.
TaskNumbersAreUnique ==
  \A m, n \in Message : m # n /\ IsTask(m) => card[m].num # card[n].num

\* Until a task is let go, or handed to the worker by its manager, at most one
\* member was told that the task is his.
ClaimIsExclusive == \A m \in Message : Cardinality(told[m]) <= 1

\* A report is accepted once: of two requests that accept the same report, or of an
\* acceptance that races a card closed by hand, at most one is told ok.
AcceptedOncePerReport == \A d \in Contract : accepts[d] <= reports[d]

\* What members were told of their tasks, numbers and reports agrees.
BoardIsConsistent == TaskNumbersAreUnique /\ ClaimIsExclusive /\ AcceptedOncePerReport

\* completed and cancelled are final.
TerminalContractsRest ==
  [][\A d \in Contract :
       contract[d].status \in Terminal => contract'[d].status = contract[d].status]_boardVars

\* A card that was closed does not leave its contract open: when no request is on
\* its way and none was lost, no open contract has a closed card.
ClosedCardEndsContract ==
  aborts = 0 /\ (\A q \in Request : req[q] = NoRequest) =>
    \A d \in Contract : contract[d].card # NoCard /\ contract[d].status = "open"
                          => card[contract[d].card].status \notin FinalStatus
=============================================================================
