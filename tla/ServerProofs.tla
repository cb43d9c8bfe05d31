----------------------------- MODULE ServerProofs -----------------------------
(* Proofs about the parts of the server that several requests, instances or         *)
(* connections write at one time: the task board, attachments, the daemons'          *)
(* connections, and membership.  The parts share no variable, each is proved from     *)
(* its own inductive invariant; what is proved of each then holds of them together.    *)
EXTENDS MCServer, RosterProofs, ClientProofs, WellFoundedInduction, FiniteSetTheorems, TLAPS

-----------------------------------------------------------------------------
(* The task board                                                            *)

Statuses == OpenStatus \cup FinalStatus
Operations == {"none", "create", "convert", "delegate", "unclaim", "move", "report",
               "cancel", "accept"}
RequestOf ==
  [op : Operations, step : {"none", "number", "write", "link", "update", "sync", "post", "card"},
   msg : Message \cup {NoCard}, con : Contract \cup {"none"}, num : Nat,
   status : {"none"} \cup Statuses, changed : BOOLEAN]

\* the types of the rows, and of what a request has read
BoardTyped ==
  /\ TaskBoardTypeOK
  /\ req \in [Request -> RequestOf]
  /\ \A q \in Request :
       /\ req[q].op = "move" => req[q].status \in Statuses
       /\ req[q].step = "card" => req[q].op \in {"report", "cancel", "accept"}

\* a request that is to write a number holds the lock, and the number is still the next
NumbersAreNext ==
  \A q \in Request :
    req[q].step = "write" => numLock = q /\ \A m \in Message : card[m].num < req[q].num

\* told of a task is its holder only
ToldIsTheHolder == \A m \in Message : told[m] \subseteq {card[m].holder}

\* a report that waits is one that was not accepted
ReportsAreCounted ==
  \A d \in Contract :
    accepts[d] + (IF contract[d].status = "reported" THEN 1 ELSE 0) <= reports[d]

BoardInv ==
  BoardTyped /\ TaskNumbersAreUnique /\ NumbersAreNext /\ ToldIsTheHolder /\ ReportsAreCounted

\* The board starts empty and no request is on its way.
LEMMA BoardInit == TaskBoardInit => BoardInv
<1> SUFFICES ASSUME TaskBoardInit PROVE BoardInv
  OBVIOUS
<1>1. NoRequest \in RequestOf
  BY DEF NoRequest, RequestOf, Operations
<1>2. BoardTyped
  BY <1>1, TaskBoardAssumption
     DEF TaskBoardInit, BoardTyped, TaskBoardTypeOK, Card, NoRequest
<1>3. TaskNumbersAreUnique /\ NumbersAreNext /\ ToldIsTheHolder /\ ReportsAreCounted
  BY DEF TaskBoardInit, TaskNumbersAreUnique, IsTask, NumbersAreNext, NoRequest,
         ToldIsTheHolder, ReportsAreCounted
<1>4. QED
  BY <1>2, <1>3 DEF BoardInv

\* What the requests in flight hold keeps its type.
LEMMA RequestTypes ==
  ASSUME BoardTyped, [TaskBoardNext]_boardVars
  PROVE  /\ req' \in [Request -> RequestOf]
         /\ \A q \in Request :
              /\ req'[q].op = "move" => req'[q].status \in Statuses
              /\ req'[q].step = "card" => req'[q].op \in {"report", "cancel", "accept"}
<1> DEFINE Fit(r) == /\ r \in RequestOf
                     /\ r.op = "move" => r.status \in Statuses
                     /\ r.step = "card" => r.op \in {"report", "cancel", "accept"}
<1>1. req \in [Request -> RequestOf] /\ \A q \in Request : Fit(req[q])
  BY DEF BoardTyped
<1>2. \A q \in Request : req[q].num \in Nat
  BY <1>1 DEF RequestOf
<1>3. \A m \in Message : card[m].num \in Nat
  BY DEF BoardTyped, TaskBoardTypeOK, Card
<1>4. ASSUME NEW q \in Request, NEW r, Fit(r), req' = [req EXCEPT ![q] = r]
      PROVE  req' \in [Request -> RequestOf] /\ \A p \in Request : Fit(req'[p])
  BY <1>1, <1>4
<1>5. Fit(NoRequest)
  BY DEF NoRequest, RequestOf, Operations
<1>6. ASSUME NEW q \in Request, NEW s \in {"number", "write", "link", "sync", "card"},
             s = "card" => req[q].op \in {"report", "cancel", "accept"}
      PROVE  Fit([req[q] EXCEPT !.step = s])
  BY <1>1, <1>6 DEF RequestOf
<1> HIDE DEF Fit
<1>7. ASSUME UNCHANGED req PROVE req' \in [Request -> RequestOf] /\ \A p \in Request : Fit(req'[p])
  BY <1>1, <1>7
<1>8. ASSUME NEW q \in Request, Answer(q) PROVE req' \in [Request -> RequestOf] /\ \A p \in Request : Fit(req'[p])
  BY <1>4, <1>5, <1>8 DEF Answer
<1>9. ASSUME NEW q \in Request, NEW s \in {"number", "write", "link", "sync", "card"}, GoTo(q, s),
             s = "card" => req[q].op \in {"report", "cancel", "accept"}
      PROVE  req' \in [Request -> RequestOf] /\ \A p \in Request : Fit(req'[p])
  BY <1>4, <1>6, <1>9 DEF GoTo
<1>10. ASSUME NEW q \in Request, ThenCard(q), req[q].op \in {"report", "cancel", "accept"}
       PROVE  req' \in [Request -> RequestOf] /\ \A p \in Request : Fit(req'[p])
  BY <1>8, <1>9, <1>10 DEF ThenCard
<1>11. ASSUME NEW q \in Request, TakeNumber(q)
       PROVE  req' \in [Request -> RequestOf] /\ \A p \in Request : Fit(req'[p])
  <2>1. PICK n \in NextNumbers : req' = [req EXCEPT ![q] = [req[q] EXCEPT !.step = "write", !.num = n]]
    BY <1>11 DEF TakeNumber
  <2>2. n \in Nat
    BY <1>3 DEF NextNumbers
  <2>3. Fit([req[q] EXCEPT !.step = "write", !.num = n])
    BY <1>1, <2>2 DEF Fit, RequestOf
  <2>4. QED
    BY <1>4, <2>1, <2>3
<1>12. ASSUME NEW q \in Request, PostNotice(q)
       PROVE  req' \in [Request -> RequestOf] /\ \A p \in Request : Fit(req'[p])
  <2>1. PICK m \in Message : req' = [req EXCEPT ![q] = [req[q] EXCEPT !.msg = m, !.step = "number"]]
    BY <1>12 DEF PostNotice
  <2>2. Fit([req[q] EXCEPT !.msg = m, !.step = "number"])
    BY <1>1 DEF Fit, RequestOf
  <2>3. QED
    BY <1>4, <2>1, <2>2
<1>13. ASSUME NEW q \in Request, NEW r, Begin(q, r), Fit(r)
       PROVE  req' \in [Request -> RequestOf] /\ \A p \in Request : Fit(req'[p])
  BY <1>4, <1>13 DEF Begin
<1>14. ASSUME NEW q \in Request, NEW d \in Contract, Delegate(q, d) \/ AskReport(q, d) \/ AskCancel(q, d) \/ Accept(q, d)
       PROVE  req' \in [Request -> RequestOf] /\ \A p \in Request : Fit(req'[p])
  <2>1. contract[d].card \in Message \cup {NoCard}
    BY DEF BoardTyped, TaskBoardTypeOK
  <2>2. Fit([NoRequest EXCEPT !.op = "delegate", !.step = "post", !.con = d])
    BY DEF Fit, NoRequest, RequestOf, Operations
  <2>3. \A op \in {"report", "cancel"} :
          Fit([NoRequest EXCEPT !.op = op, !.step = "update", !.con = d, !.msg = contract[d].card])
    BY <2>1 DEF Fit, NoRequest, RequestOf, Operations
  <2>4. Fit([NoRequest EXCEPT !.op = "accept", !.step = "card", !.con = d, !.msg = contract[d].card])
    BY <2>1 DEF Fit, NoRequest, RequestOf, Operations
  <2>5. QED
    BY <1>13, <1>14, <2>2, <2>3, <2>4 DEF Delegate, AskReport, AskCancel, Accept
<1>15. /\ \A q \in Request : \A m \in Message : ConvertMessage(q, m) =>
            req' \in [Request -> RequestOf] /\ \A p \in Request : Fit(req'[p])
       /\ \A q \in Request : \A who \in Member : \A m \in Message : AskUnclaim(q, who, m) =>
            req' \in [Request -> RequestOf] /\ \A p \in Request : Fit(req'[p])
  <2>1. ASSUME NEW m \in Message
        PROVE  /\ Fit([NoRequest EXCEPT !.op = "convert", !.step = "number", !.msg = m])
               /\ Fit([NoRequest EXCEPT !.op = "unclaim", !.step = "update", !.num = card[m].num])
    BY <1>3 DEF Fit, NoRequest, RequestOf, Operations
  <2>2. QED
    BY <1>13, <2>1 DEF ConvertMessage, AskUnclaim
<1>21. ASSUME NEW q \in Request, NEW m \in Message, NEW who \in Member,
              NEW s \in OpenStatus \cup FinalStatus, AskStatus(q, who, m, s)
       PROVE  req' \in [Request -> RequestOf] /\ \A p \in Request : Fit(req'[p])
  <2>1. Fit([NoRequest EXCEPT !.op = "move", !.step = "update", !.num = card[m].num,
                              !.msg = m, !.status = s, !.changed = card[m].status # s])
    BY <1>3 DEF Fit, NoRequest, RequestOf, Operations, Statuses
  <2>2. QED
    BY <1>13, <1>21, <2>1 DEF AskStatus
<1>16. ASSUME NEW q \in Request,
              WriteAssigned(q) \/ WriteNew(q) \/ WriteConverted(q) \/ Unclaim(q) \/ MoveCard(q)
              \/ SyncContract(q) \/ LinkCard(q) \/ Report(q) \/ CancelContract(q) \/ UpdateCard(q)
              \/ Abort(q)
       PROVE  req' \in [Request -> RequestOf] /\ \A p \in Request : Fit(req'[p])
  BY <1>8, <1>9, <1>10, <1>16
     DEF WriteAssigned, WriteNew, WriteConverted, Unclaim, MoveCard, SyncContract, LinkCard,
         Report, CancelContract, UpdateCard, Abort, At
<1>17. ASSUME UNCHANGED boardVars \/ PostMessage \/ \E who \in Member, m \in Message : Claim(who, m)
       PROVE  req' \in [Request -> RequestOf] /\ \A p \in Request : Fit(req'[p])
  BY <1>7, <1>17 DEF boardVars, PostMessage, Claim
<1>18. ASSUME NEW q \in Request, CreateTask(q)
       PROVE  req' \in [Request -> RequestOf] /\ \A p \in Request : Fit(req'[p])
  <2>1. Fit([NoRequest EXCEPT !.op = "create", !.step = "number"])
    BY DEF Fit, NoRequest, RequestOf, Operations
  <2>2. QED
    BY <1>13, <1>18, <2>1 DEF CreateTask
<1>19. req' \in [Request -> RequestOf] /\ \A p \in Request : Fit(req'[p])
  <2>1. CASE TaskBoardNext /\ ~ PostMessage /\ ~ \E who \in Member, m \in Message : Claim(who, m)
    <3>1. PICK q \in Request :
            \/ CreateTask(q) \/ TakeNumber(q) \/ WriteAssigned(q) \/ WriteNew(q)
            \/ WriteConverted(q) \/ Unclaim(q) \/ MoveCard(q) \/ SyncContract(q)
            \/ PostNotice(q) \/ LinkCard(q) \/ Report(q) \/ CancelContract(q) \/ UpdateCard(q)
            \/ Abort(q)
            \/ \E d \in Contract : \/ Delegate(q, d) \/ AskReport(q, d) \/ AskCancel(q, d)
                                   \/ Accept(q, d)
            \/ \E m \in Message : ConvertMessage(q, m)
            \/ \E who \in Member, m \in Message :
                 AskUnclaim(q, who, m) \/ \E s \in OpenStatus \cup FinalStatus : AskStatus(q, who, m, s)
      BY <2>1 DEF TaskBoardNext
    <3>2. CASE \E d \in Contract : \/ Delegate(q, d) \/ AskReport(q, d) \/ AskCancel(q, d)
                                   \/ Accept(q, d)
      BY <1>14, <3>2
    <3>3. CASE \E m \in Message : ConvertMessage(q, m)
      BY <1>15, <3>3
    <3>4. ASSUME NEW who \in Member, NEW m \in Message,
                 AskUnclaim(q, who, m) \/ \E s \in OpenStatus \cup FinalStatus : AskStatus(q, who, m, s)
          PROVE  req' \in [Request -> RequestOf] /\ \A p \in Request : Fit(req'[p])
      BY <1>15, <1>21, <3>4
    <3>5. CASE \/ CreateTask(q) \/ TakeNumber(q) \/ WriteAssigned(q) \/ WriteNew(q)
               \/ WriteConverted(q) \/ Unclaim(q) \/ MoveCard(q) \/ SyncContract(q)
               \/ PostNotice(q) \/ LinkCard(q) \/ Report(q) \/ CancelContract(q) \/ UpdateCard(q)
               \/ Abort(q)
      BY <1>11, <1>12, <1>16, <1>18, <3>5
    <3>6. QED
      BY <3>1, <3>2, <3>3, <3>4, <3>5
  <2>2. CASE UNCHANGED boardVars
    BY <1>17, <2>2
  <2>3. QED
    <3>1. CASE TaskBoardNext
      BY <1>17, <2>1, <3>1
    <3>2. QED
      BY <2>2, <3>1
<1>20. QED
  BY <1>19 DEF Fit

\* The rows keep their types.
LEMMA BoardTypesNext == BoardTyped /\ [TaskBoardNext]_boardVars => BoardTyped'
<1> SUFFICES ASSUME BoardTyped, [TaskBoardNext]_boardVars PROVE BoardTyped'
  OBVIOUS
<1>1. /\ req' \in [Request -> RequestOf]
      /\ \A q \in Request :
           /\ req'[q].op = "move" => req'[q].status \in Statuses
           /\ req'[q].step = "card" => req'[q].op \in {"report", "cancel", "accept"}
  BY RequestTypes
<1>2. /\ card \in [Message -> Card] /\ Nobody \notin Member
      /\ contract \in [Contract -> [status : {"none", "open", "reported"} \cup Terminal,
                                    card : Message \cup {NoCard}]]
      /\ numLock \in Request \cup {Nobody} /\ begun \in Nat /\ aborts \in Nat
      /\ told \in [Message -> SUBSET Member]
      /\ reports \in [Contract -> Nat] /\ accepts \in [Contract -> Nat]
  BY TaskBoardAssumption DEF BoardTyped, TaskBoardTypeOK
<1>3. /\ \A q \in Request : req[q] \in RequestOf
      /\ \A q \in Request : req[q].op = "move" => req[q].status \in Statuses
      /\ \A q \in Request : req[q].step = "card" => req[q].op \in {"report", "cancel", "accept"}
  BY DEF BoardTyped
<1>4. ASSUME card' \in [Message -> Card],
             contract' \in [Contract -> [status : {"none", "open", "reported"} \cup Terminal,
                                         card : Message \cup {NoCard}]],
             numLock' \in Request \cup {Nobody}, begun' \in Nat, aborts' \in Nat,
             told' \in [Message -> SUBSET Member],
             reports' \in [Contract -> Nat], accepts' \in [Contract -> Nat]
      PROVE  BoardTyped'
  <2>1. \A q \in Request :
          /\ req'[q].op \in {"none", "create", "convert", "delegate", "unclaim", "move",
                             "report", "cancel", "accept"}
          /\ req'[q].num \in Nat /\ req'[q].msg \in Message \cup {NoCard}
    BY <1>1 DEF RequestOf, Operations
  <2>2. QED
    BY <1>1, <1>4, <2>1 DEF BoardTyped, TaskBoardTypeOK
<1>5. \A c \in Card : \A n \in Nat : \A s \in Statuses \cup {"plain"} : \A h \in Member \cup {Nobody} :
        /\ [c EXCEPT !.status = s] \in Card
        /\ [c EXCEPT !.num = n, !.status = s] \in Card
        /\ [c EXCEPT !.status = s, !.holder = h] \in Card
        /\ [c EXCEPT !.holder = h, !.status = s] \in Card
        /\ [num |-> n, status |-> s, holder |-> h] \in Card
  <2> SUFFICES ASSUME NEW c \in Card, NEW n \in Nat, NEW s \in Statuses \cup {"plain"},
                      NEW h \in Member \cup {Nobody}
               PROVE  /\ [c EXCEPT !.status = s] \in Card
                      /\ [c EXCEPT !.num = n, !.status = s] \in Card
                      /\ [c EXCEPT !.status = s, !.holder = h] \in Card
                      /\ [c EXCEPT !.holder = h, !.status = s] \in Card
                      /\ [num |-> n, status |-> s, holder |-> h] \in Card
    OBVIOUS
  <2>1. [c EXCEPT !.status = s] \in Card
    BY DEF Card, Statuses
  <2>2. [c EXCEPT !.num = n, !.status = s] \in Card
    BY DEF Card, Statuses
  <2>3. /\ [c EXCEPT !.status = s, !.holder = h] \in Card
        /\ [c EXCEPT !.holder = h, !.status = s] \in Card
    BY DEF Card, Statuses
  <2>4. [num |-> n, status |-> s, holder |-> h] \in Card
    BY DEF Card, Statuses
  <2> QED
    BY <2>1, <2>2, <2>3, <2>4
<1>6. CASE UNCHANGED boardVars
  BY <1>2, <1>4, <1>6 DEF boardVars, boardHistory
<1>7. CASE PostMessage
  <2>1. card' \in [Message -> Card]
    <3>1. PICK m \in Message : card' = [card EXCEPT ![m].status = "plain"]
      BY <1>7 DEF PostMessage
    <3>2. [card[m] EXCEPT !.status = "plain"] \in Card
      BY <1>2, <1>5
    <3>3. QED
      BY <1>2, <3>1, <3>2
  <2>2. QED
    BY <1>2, <1>4, <1>7, <2>1 DEF PostMessage, Bounds, boardHistory
<1>8. ASSUME NEW who \in Member, NEW m \in Message, Claim(who, m)
      PROVE  BoardTyped'
  <2>1. card' \in [Message -> Card] /\ told' \in [Message -> SUBSET Member]
    BY <1>2, <1>5, <1>8 DEF Claim, Statuses, OpenStatus
  <2>2. QED
    BY <1>2, <1>4, <1>8, <2>1 DEF Claim, Bounds
<1>9. ASSUME NEW q \in Request, Abort(q) \/ CreateTask(q) \/ TakeNumber(q)
                                  \/ \E m \in Message : ConvertMessage(q, m)
      PROVE  BoardTyped'
  <2>1. CASE Abort(q)
    BY <1>2, <1>4, <2>1 DEF Abort, boardHistory
  <2>2. CASE TakeNumber(q)
    BY <1>2, <1>4, <2>2 DEF TakeNumber, Bounds, boardHistory
  <2>3. CASE CreateTask(q)
    BY <1>2, <1>4, <2>3 DEF CreateTask, Begin, boardHistory
  <2>4. ASSUME NEW m \in Message, ConvertMessage(q, m) PROVE BoardTyped'
    BY <1>2, <1>4, <2>4 DEF ConvertMessage, Begin, boardHistory
  <2>5. QED
    BY <1>9, <2>1, <2>2, <2>3, <2>4
<1>10. ASSUME NEW q \in Request, WriteAssigned(q)
       PROVE  BoardTyped'
  <2>1. card' \in [Message -> Card] /\ told' \in [Message -> SUBSET Member]
    <3>1. req[q].num \in Nat /\ Worker \in Member
      BY <1>3, TaskBoardAssumption DEF RequestOf
    <3>2. QED
      BY <1>2, <1>5, <1>10, <3>1 DEF WriteAssigned, Statuses, OpenStatus
  <2>2. QED
    BY <1>2, <1>4, <1>10, <2>1 DEF WriteAssigned, Bounds
<1>11. ASSUME NEW q \in Request, WriteNew(q) \/ WriteConverted(q)
       PROVE  BoardTyped'
  <2>1. req[q].num \in Nat
    BY <1>3 DEF RequestOf
  <2>2. CASE WriteNew(q)
    <3>1. card' \in [Message -> Card]
      <4>1. PICK m \in Message : card' = [card EXCEPT ![m].num = req[q].num, ![m].status = "todo"]
        BY <2>2 DEF WriteNew
      <4>2. [card[m] EXCEPT !.num = req[q].num, !.status = "todo"] \in Card
        BY <1>2, <1>5, <2>1 DEF Statuses, OpenStatus
      <4>3. QED
        BY <1>2, <4>1, <4>2
    <3>2. QED
      BY <1>2, <1>4, <2>2, <3>1 DEF WriteNew, Bounds, boardHistory
  <2>3. CASE WriteConverted(q)
    <3>1. card' \in [Message -> Card]
      BY <1>2, <1>5, <2>1, <2>3 DEF WriteConverted, Statuses, OpenStatus
    <3>2. QED
      BY <1>2, <1>4, <2>3, <3>1 DEF WriteConverted, Bounds, boardHistory
  <2>4. QED
    BY <1>11, <2>2, <2>3
<1>12. ASSUME NEW q \in Request, NEW who \in Member, NEW m \in Message,
              AskUnclaim(q, who, m) \/ \E s \in Statuses : AskStatus(q, who, m, s)
       PROVE  BoardTyped'
  <2>1. CASE AskUnclaim(q, who, m)
    BY <1>2, <1>4, <2>1 DEF AskUnclaim, Begin, boardHistory
  <2>2. ASSUME NEW s \in Statuses, AskStatus(q, who, m, s) PROVE BoardTyped'
    BY <1>2, <1>4, <2>2 DEF AskStatus, Begin, boardHistory
  <2>3. QED
    BY <1>12, <2>1, <2>2
<1>13. ASSUME NEW q \in Request, Unclaim(q)
       PROVE  BoardTyped'
  <2>1. card' \in [Message -> Card] /\ told' \in [Message -> SUBSET Member]
    BY <1>2, <1>5, <1>13 DEF Unclaim, Statuses, OpenStatus
  <2>2. QED
    BY <1>2, <1>4, <1>13, <2>1 DEF Unclaim, Bounds
<1>14. ASSUME NEW q \in Request, MoveCard(q)
       PROVE  BoardTyped'
  <2>1. req[q].status \in Statuses
    BY <1>3, <1>14 DEF MoveCard, At
  <2>2. card' \in [Message -> Card]
    BY <1>2, <1>5, <1>14, <2>1 DEF MoveCard
  <2>3. QED
    BY <1>2, <1>4, <1>14, <2>2 DEF MoveCard, Bounds, boardHistory
<1>15. ASSUME NEW q \in Request, SyncContract(q)
       PROVE  BoardTyped'
  <2>1. contract' \in [Contract -> [status : {"none", "open", "reported"} \cup Terminal,
                                    card : Message \cup {NoCard}]]
    BY <1>2, <1>15 DEF SyncContract, Terminal
  <2>2. QED
    BY <1>2, <1>4, <1>15, <2>1 DEF SyncContract, Bounds, boardHistory
<1>16. ASSUME NEW q \in Request, NEW d \in Contract, Delegate(q, d) \/ AskReport(q, d) \/ AskCancel(q, d) \/ Accept(q, d)
       PROVE  BoardTyped'
  <2>1. contract' \in [Contract -> [status : {"none", "open", "reported"} \cup Terminal,
                                    card : Message \cup {NoCard}]]
    BY <1>2, <1>16 DEF Delegate, AskReport, AskCancel, Accept, Terminal
  <2>2. accepts' \in [Contract -> Nat]
    BY <1>2, <1>16 DEF Delegate, AskReport, AskCancel, Accept, boardHistory
  <2>3. QED
    BY <1>2, <1>4, <1>16, <2>1, <2>2 DEF Delegate, AskReport, AskCancel, Accept, Begin, boardHistory
<1>17. ASSUME NEW q \in Request, PostNotice(q)
       PROVE  BoardTyped'
  <2>1. card' \in [Message -> Card]
    <3>1. PICK m \in Message : card' = [card EXCEPT ![m].status = "plain"]
      BY <1>17 DEF PostNotice
    <3>2. [card[m] EXCEPT !.status = "plain"] \in Card
      BY <1>2, <1>5
    <3>3. QED
      BY <1>2, <3>1, <3>2
  <2>2. QED
    BY <1>2, <1>4, <1>17, <2>1 DEF PostNotice, Bounds, boardHistory
<1>18. ASSUME NEW q \in Request, LinkCard(q) \/ Report(q) \/ CancelContract(q)
       PROVE  BoardTyped'
  <2>1. req[q].msg \in Message \cup {NoCard}
    BY <1>3 DEF RequestOf
  <2>2. contract' \in [Contract -> [status : {"none", "open", "reported"} \cup Terminal,
                                    card : Message \cup {NoCard}]]
    BY <1>2, <1>18, <2>1 DEF LinkCard, Report, CancelContract, Terminal
  <2>3. reports' \in [Contract -> Nat]
    BY <1>2, <1>18 DEF LinkCard, Report, CancelContract, boardHistory
  <2>4. QED
    BY <1>2, <1>4, <1>18, <2>2, <2>3 DEF LinkCard, Report, CancelContract, Bounds, boardHistory
<1>19. ASSUME NEW q \in Request, UpdateCard(q)
       PROVE  BoardTyped'
  <2>1. CardStatus[req[q].op] \in Statuses
    BY <1>3, <1>19 DEF UpdateCard, CardStatus, Statuses, OpenStatus, FinalStatus
  <2>2. card' \in [Message -> Card]
    BY <1>2, <1>5, <1>19, <2>1 DEF UpdateCard
  <2>3. QED
    BY <1>2, <1>4, <1>19, <2>2 DEF UpdateCard, Bounds, boardHistory
<1>20. QED
  BY <1>6, <1>7, <1>8, <1>9, <1>10, <1>11, <1>12, <1>13, <1>14, <1>15, <1>16, <1>17, <1>18, <1>19
     DEF TaskBoardNext, Statuses
\* No two requests hold one number, and the number a request is about to write is larger
\* than all: the lock is taken with MAX and let go with the write.
LEMMA NumbersNext ==
  ASSUME BoardTyped, TaskNumbersAreUnique, NumbersAreNext, [TaskBoardNext]_boardVars
  PROVE  TaskNumbersAreUnique' /\ NumbersAreNext'
<1>1. /\ card \in [Message -> Card] /\ \A m \in Message : card[m].num \in Nat
      /\ req \in [Request -> RequestOf] /\ \A q \in Request : req[q].num \in Nat
      /\ Nobody \notin Request
  BY TaskBoardAssumption DEF BoardTyped, TaskBoardTypeOK, Card, RequestOf
<1>2. ASSUME \A m \in Message : card'[m].num = card[m].num,
             \A p \in Request : req'[p].step = "write" =>
                                  req'[p] = req[p] /\ (numLock = p => numLock' = p)
      PROVE  TaskNumbersAreUnique' /\ NumbersAreNext'
  BY <1>2 DEF TaskNumbersAreUnique, NumbersAreNext, IsTask
<1>3. ASSUME NEW q \in Request, NEW m \in Message, req[q].step = "write",
             \A x \in Message : x # m => card'[x].num = card[x].num, card'[m].num = req[q].num,
             \A p \in Request : p # q => req'[p] = req[p], req'[q].step # "write"
      PROVE  TaskNumbersAreUnique' /\ NumbersAreNext'
  <2>1. \A x \in Message : card[x].num < req[q].num
    BY <1>3 DEF NumbersAreNext
  <2>2. \A p \in Request : req'[p].step # "write"
    BY <1>3 DEF NumbersAreNext
  <2>3. \A x \in Message : card[x].num # req[q].num
    BY <2>1, <1>1
  <2>4. TaskNumbersAreUnique'
    <3>1. SUFFICES ASSUME NEW x \in Message, NEW y \in Message, x # y, card'[x].num > 0
                   PROVE  card'[x].num # card'[y].num
      BY DEF TaskNumbersAreUnique, IsTask
    <3>2. CASE x # m /\ y # m
      BY <1>3, <3>1, <3>2 DEF TaskNumbersAreUnique, IsTask
    <3>3. CASE x = m \/ y = m
      BY <1>3, <2>3, <3>1, <3>3
    <3>4. QED
      BY <3>2, <3>3
  <2>5. QED
    BY <2>2, <2>4 DEF NumbersAreNext
<1>4. ASSUME NEW q \in Request, NEW r, r.step # "write", req' = [req EXCEPT ![q] = r]
      PROVE  /\ \A p \in Request : p # q => req'[p] = req[p]
             /\ \A p \in Request : req'[p].step = "write" => req'[p] = req[p] /\ p # q
             /\ req'[q].step # "write"
  BY <1>1, <1>4
<1>5. ASSUME NEW q \in Request, Answer(q) \/ \E s \in {"link", "sync", "card"} : GoTo(q, s)
      PROVE  /\ \A p \in Request : p # q => req'[p] = req[p]
             /\ \A p \in Request : req'[p].step = "write" => req'[p] = req[p] /\ p # q
             /\ req'[q].step # "write"
  <2>1. CASE Answer(q)
    BY <1>4, <2>1 DEF Answer, NoRequest
  <2>2. ASSUME NEW s \in {"link", "sync", "card"}, GoTo(q, s)
        PROVE  \E r : r.step # "write" /\ req' = [req EXCEPT ![q] = r]
    <3>1. req' = [req EXCEPT ![q] = [req[q] EXCEPT !.step = s]]
      BY <2>2 DEF GoTo
    <3>2. [req[q] EXCEPT !.step = s].step # "write"
      BY <1>1 DEF RequestOf
    <3>3. QED
      BY <3>1, <3>2
  <2>3. QED
    BY <1>4, <1>5, <2>1, <2>2
<1>6. ASSUME NEW q \in Request, NEW r, Begin(q, r), r.step # "write"
      PROVE  \A p \in Request : req'[p].step = "write" => req'[p] = req[p]
  BY <1>4, <1>6 DEF Begin
<1>7. ASSUME NEW S, NEW f, card' = [m \in Message |-> IF m \notin S THEN card[m] ELSE f[m]],
             \A m \in Message : f[m].num = card[m].num
      PROVE  \A m \in Message : card'[m].num = card[m].num
  BY <1>7
<1>8. CASE UNCHANGED boardVars
  BY <1>2, <1>8 DEF boardVars
<1>9. CASE PostMessage
  <2>1. PICK m \in Message : card' = [card EXCEPT ![m].status = "plain"]
    BY <1>9 DEF PostMessage
  <2>2. \A x \in Message : card'[x].num = card[x].num
    BY <1>1, <2>1 DEF Card
  <2>3. QED
    BY <1>2, <1>9, <2>2 DEF PostMessage
<1>10. ASSUME NEW who \in Member, NEW m \in Message, Claim(who, m)
       PROVE  TaskNumbersAreUnique' /\ NumbersAreNext'
  <2>1. \A x \in Message : card'[x].num = card[x].num
    BY <1>1, <1>10 DEF Claim, Card
  <2>2. QED
    BY <1>2, <1>10, <2>1 DEF Claim
<1>11. ASSUME NEW q \in Request, TakeNumber(q)
       PROVE  TaskNumbersAreUnique' /\ NumbersAreNext'
  <2>1. PICK n \in NextNumbers : req' = [req EXCEPT ![q].step = "write", ![q].num = n]
    BY <1>11 DEF TakeNumber
  <2>2. /\ \A m \in Message : card[m].num < n
        /\ card' = card /\ numLock = Nobody /\ numLock' = q
    BY <1>11 DEF TakeNumber, NextNumbers
  <2>3. \A p \in Request : p # q => req'[p] = req[p]
    BY <1>1, <2>1
  <2>4. req'[q].num = n
    BY <1>1, <2>1 DEF RequestOf
  <2>5. NumbersAreNext'
    BY <1>1, <2>2, <2>3, <2>4 DEF NumbersAreNext
  <2>6. TaskNumbersAreUnique'
    BY <2>2 DEF TaskNumbersAreUnique, IsTask
  <2>7. QED
    BY <2>5, <2>6
<1>12. ASSUME NEW q \in Request, WriteAssigned(q)
       PROVE  TaskNumbersAreUnique' /\ NumbersAreNext'
  <2>1. req[q].step = "write" /\ GoTo(q, "link")
    BY <1>12 DEF WriteAssigned, At
  <2>2. CASE req[q].msg \in Message
    <3>1. /\ \A x \in Message : x # req[q].msg => card'[x].num = card[x].num
          /\ card'[req[q].msg].num = req[q].num
      BY <1>1, <1>12, <2>2 DEF WriteAssigned
    <3>2. QED
      BY <1>3, <1>5, <2>1, <2>2, <3>1
  <2>3. CASE req[q].msg \notin Message
    <3>1. card' = card
      BY <1>1, <1>12, <2>3 DEF WriteAssigned
    <3>2. \A p \in Request : req'[p].step # "write"
      BY <1>5, <2>1 DEF NumbersAreNext
    <3>3. QED
      BY <1>2, <3>1, <3>2
  <2>4. QED
    BY <2>2, <2>3
<1>13. ASSUME NEW q \in Request, WriteNew(q)
       PROVE  TaskNumbersAreUnique' /\ NumbersAreNext'
  <2>1. req[q].step = "write" /\ Answer(q)
    BY <1>13 DEF WriteNew, At
  <2>2. PICK m \in Message : card' = [card EXCEPT ![m].num = req[q].num, ![m].status = "todo"]
    BY <1>13 DEF WriteNew
  <2>3. /\ \A x \in Message : x # m => card'[x].num = card[x].num
        /\ card'[m].num = req[q].num
    BY <1>1, <2>2 DEF Card
  <2>4. QED
    BY <1>3, <1>5, <2>1, <2>3
<1>14. ASSUME NEW q \in Request, WriteConverted(q)
       PROVE  TaskNumbersAreUnique' /\ NumbersAreNext'
  <2>1. req[q].step = "write" /\ Answer(q)
    BY <1>14 DEF WriteConverted, At
  <2>2. CASE card' = card
    <3>2. \A p \in Request : req'[p].step # "write"
      BY <1>5, <2>1 DEF NumbersAreNext
    <3>3. QED
      BY <1>2, <2>2, <3>2
  <2>3. CASE card' # card
    <3>1. card' = [card EXCEPT ![req[q].msg].num = req[q].num, ![req[q].msg].status = "todo"]
      BY <1>14, <2>3 DEF WriteConverted
    <3>2. req[q].msg \in Message
      BY <1>1, <2>3, <3>1
    <3>3. /\ \A x \in Message : x # req[q].msg => card'[x].num = card[x].num
          /\ card'[req[q].msg].num = req[q].num
      BY <1>1, <3>1, <3>2 DEF Card
    <3>4. QED
      BY <1>3, <1>5, <2>1, <3>2, <3>3
  <2>4. QED
    BY <2>2, <2>3
<1>15. ASSUME NEW q \in Request, Abort(q)
       PROVE  TaskNumbersAreUnique' /\ NumbersAreNext'
  BY <1>2, <1>5, <1>15 DEF Abort
<1>16. ASSUME NEW q \in Request, NEW r, r.step # "write", Begin(q, r), card' = card, numLock' = numLock
       PROVE  TaskNumbersAreUnique' /\ NumbersAreNext'
  BY <1>2, <1>6, <1>16
<1>17. ASSUME NEW q \in Request, CreateTask(q) \/ \E m \in Message : ConvertMessage(q, m)
       PROVE  TaskNumbersAreUnique' /\ NumbersAreNext'
  <2>1. CASE CreateTask(q)
    BY <1>16, <2>1 DEF CreateTask, NoRequest
  <2>2. ASSUME NEW m \in Message, ConvertMessage(q, m)
        PROVE  TaskNumbersAreUnique' /\ NumbersAreNext'
    BY <1>16, <2>2 DEF ConvertMessage, NoRequest
  <2>3. QED
    BY <1>17, <2>1, <2>2
<1>18. ASSUME NEW q \in Request, NEW who \in Member, NEW m \in Message,
              AskUnclaim(q, who, m) \/ \E s \in Statuses : AskStatus(q, who, m, s)
       PROVE  TaskNumbersAreUnique' /\ NumbersAreNext'
  <2>1. CASE AskUnclaim(q, who, m)
    BY <1>16, <2>1 DEF AskUnclaim, NoRequest
  <2>2. ASSUME NEW s \in Statuses, AskStatus(q, who, m, s)
        PROVE  TaskNumbersAreUnique' /\ NumbersAreNext'
    BY <1>16, <2>2 DEF AskStatus, NoRequest
  <2>3. QED
    BY <1>18, <2>1, <2>2
<1>19. ASSUME NEW q \in Request, NEW d \in Contract, Delegate(q, d) \/ AskReport(q, d) \/ AskCancel(q, d) \/ Accept(q, d)
       PROVE  TaskNumbersAreUnique' /\ NumbersAreNext'
  <2>1. CASE Delegate(q, d)
    BY <1>16, <2>1 DEF Delegate, NoRequest
  <2>2. CASE AskReport(q, d)
    BY <1>16, <2>2 DEF AskReport, NoRequest
  <2>3. CASE AskCancel(q, d)
    BY <1>16, <2>3 DEF AskCancel, NoRequest
  <2>4. CASE Accept(q, d)
    BY <1>16, <2>4 DEF Accept, NoRequest
  <2>5. QED
    BY <1>19, <2>1, <2>2, <2>3, <2>4
<1>20. ASSUME NEW q \in Request, Unclaim(q) \/ MoveCard(q)
       PROVE  TaskNumbersAreUnique' /\ NumbersAreNext'
  <2>1. \A m \in Message : card'[m].num = card[m].num
    <3>1. \A m \in Message : \A s, h : /\ [card[m] EXCEPT !.holder = h, !.status = s].num = card[m].num
                                       /\ [card[m] EXCEPT !.status = s].num = card[m].num
      BY <1>1 DEF Card
    <3>2. CASE Unclaim(q)
      BY <3>1, <3>2 DEF Unclaim
    <3>3. CASE MoveCard(q)
      BY <3>1, <3>3 DEF MoveCard
    <3>4. QED
      BY <1>20, <3>2, <3>3
  <2>2. Answer(q) \/ GoTo(q, "sync")
    BY <1>20 DEF Unclaim, MoveCard
  <2>3. QED
    BY <1>2, <1>5, <1>20, <2>1, <2>2 DEF Unclaim, MoveCard
<1>21. ASSUME NEW q \in Request, SyncContract(q) \/ LinkCard(q) \/ Report(q) \/ CancelContract(q)
       PROVE  TaskNumbersAreUnique' /\ NumbersAreNext'
  <2>1. Answer(q) \/ GoTo(q, "card")
    BY <1>21 DEF SyncContract, LinkCard, Report, CancelContract, ThenCard
  <2>2. card' = card /\ numLock' = numLock
    BY <1>21 DEF SyncContract, LinkCard, Report, CancelContract
  <2>3. QED
    BY <1>2, <1>5, <2>1, <2>2
<1>22. ASSUME NEW q \in Request, PostNotice(q)
       PROVE  TaskNumbersAreUnique' /\ NumbersAreNext'
  <2>1. PICK m \in Message : /\ card' = [card EXCEPT ![m].status = "plain"]
                             /\ req' = [req EXCEPT ![q].msg = m, ![q].step = "number"]
    BY <1>22 DEF PostNotice
  <2>6. req' = [req EXCEPT ![q] = [req[q] EXCEPT !.msg = m, !.step = "number"]]
    BY <2>1
  <2>2. \A x \in Message : card'[x].num = card[x].num
    BY <1>1, <2>1 DEF Card
  <2>3. [req[q] EXCEPT !.msg = m, !.step = "number"].step # "write"
    BY <1>1 DEF RequestOf
  <2>4. \A p \in Request : req'[p].step = "write" => req'[p] = req[p]
    BY <1>4, <2>6, <2>3
  <2>5. QED
    BY <1>2, <1>22, <2>2, <2>4 DEF PostNotice
<1>23. ASSUME NEW q \in Request, UpdateCard(q)
       PROVE  TaskNumbersAreUnique' /\ NumbersAreNext'
  <2>1. \A m \in Message : card'[m].num = card[m].num
    BY <1>1, <1>23 DEF UpdateCard, Card
  <2>2. QED
    BY <1>2, <1>5, <1>23, <2>1 DEF UpdateCard
<1>24. QED
  BY <1>8, <1>9, <1>10, <1>11, <1>12, <1>13, <1>14, <1>15, <1>17, <1>18, <1>19, <1>20, <1>21,
     <1>22, <1>23
     DEF TaskBoardNext, Statuses

\* The requests that were told of a task are at most its holder: a claim reads the holder
\* in its WHERE, what lets a task go clears both.
LEMMA ToldNext == BoardTyped /\ ToldIsTheHolder /\ [TaskBoardNext]_boardVars => ToldIsTheHolder'
<1> SUFFICES ASSUME BoardTyped, ToldIsTheHolder, [TaskBoardNext]_boardVars
             PROVE  ToldIsTheHolder'
  OBVIOUS
<1>1. /\ card \in [Message -> Card] /\ told \in [Message -> SUBSET Member]
      /\ Nobody \notin Member
  BY TaskBoardAssumption DEF BoardTyped, TaskBoardTypeOK
<1>2. ASSUME \A m \in Message : told'[m] \subseteq told[m],
             \A m \in Message : card'[m].holder = card[m].holder
      PROVE  ToldIsTheHolder'
  BY <1>2 DEF ToldIsTheHolder
<1>3. ASSUME UNCHANGED <<card, told>> PROVE ToldIsTheHolder'
  BY <1>3 DEF ToldIsTheHolder
<1>4. ASSUME told' = told, NEW m, NEW s, card' = [card EXCEPT ![m].status = s]
      PROVE  ToldIsTheHolder'
  <2>1. \A x \in Message : card'[x].holder = card[x].holder
    BY <1>1, <1>4 DEF Card
  <2>2. QED
    BY <1>2, <1>4, <2>1
<1>5. ASSUME told' = told, NEW m, NEW s, NEW n,
             card' = [card EXCEPT ![m].num = n, ![m].status = s]
      PROVE  ToldIsTheHolder'
  <2>1. \A x \in Message : card'[x].holder = card[x].holder
    BY <1>1, <1>5 DEF Card
  <2>2. QED
    BY <1>2, <1>5, <2>1
<1>6. CASE UNCHANGED boardVars
  BY <1>3, <1>6 DEF boardVars, boardHistory
<1>7. CASE PostMessage
  BY <1>4, <1>7 DEF PostMessage, boardHistory
<1>8. ASSUME NEW who \in Member, NEW m \in Message, Claim(who, m) PROVE ToldIsTheHolder'
  <2>1. told[m] \subseteq {who}
    BY <1>1, <1>8 DEF Claim, ToldIsTheHolder
  <2>2. told'[m] \subseteq {who} /\ card'[m].holder = who
    BY <1>1, <1>8, <2>1 DEF Claim, Card
  <2>3. \A x \in Message : x # m => told'[x] = told[x] /\ card'[x] = card[x]
    BY <1>1, <1>8 DEF Claim
  <2>4. QED
    BY <2>2, <2>3 DEF ToldIsTheHolder
<1>9. ASSUME NEW q \in Request,
             \/ CreateTask(q) \/ TakeNumber(q) \/ SyncContract(q) \/ LinkCard(q) \/ Report(q)
             \/ CancelContract(q) \/ Abort(q)
      PROVE  ToldIsTheHolder'
  BY <1>3, <1>9 DEF CreateTask, TakeNumber, SyncContract, LinkCard, Report, CancelContract,
                    Abort, boardHistory
<1>10. ASSUME NEW q \in Request, NEW d \in Contract,
              Delegate(q, d) \/ AskReport(q, d) \/ AskCancel(q, d) \/ Accept(q, d)
       PROVE  ToldIsTheHolder'
  BY <1>3, <1>10 DEF Delegate, AskReport, AskCancel, Accept, boardHistory
<1>11. ASSUME NEW q \in Request, NEW m \in Message, ConvertMessage(q, m) PROVE ToldIsTheHolder'
  BY <1>3, <1>11 DEF ConvertMessage, boardHistory
<1>12. ASSUME NEW q \in Request, NEW who \in Member, NEW m \in Message,
              AskUnclaim(q, who, m) \/ \E s \in Statuses : AskStatus(q, who, m, s)
       PROVE  ToldIsTheHolder'
  BY <1>3, <1>12 DEF AskUnclaim, AskStatus, boardHistory
<1>13. ASSUME NEW q \in Request, WriteAssigned(q) PROVE ToldIsTheHolder'
  <2>1. /\ \A x \in Message : x # req[q].msg => told'[x] = told[x] /\ card'[x] = card[x]
        /\ req[q].msg \in Message => told'[req[q].msg] = {}
    BY <1>1, <1>13 DEF WriteAssigned
  <2>2. QED
    BY <2>1 DEF ToldIsTheHolder
<1>14. ASSUME NEW q \in Request, WriteNew(q) PROVE ToldIsTheHolder'
  BY <1>5, <1>14 DEF WriteNew, boardHistory
<1>15. ASSUME NEW q \in Request, WriteConverted(q) PROVE ToldIsTheHolder'
  BY <1>3, <1>5, <1>15 DEF WriteConverted, boardHistory
<1>16. ASSUME NEW q \in Request, Unclaim(q) PROVE ToldIsTheHolder'
  BY <1>1, <1>16 DEF Unclaim, ToldIsTheHolder
<1>17. ASSUME NEW q \in Request, MoveCard(q) PROVE ToldIsTheHolder'
  <2>1. \A m \in Message : card'[m].holder = card[m].holder
    BY <1>1, <1>17 DEF MoveCard, Card
  <2>2. QED
    BY <1>2, <1>17, <2>1 DEF MoveCard, boardHistory
<1>18. ASSUME NEW q \in Request, PostNotice(q) PROVE ToldIsTheHolder'
  BY <1>4, <1>18 DEF PostNotice, boardHistory
<1>19. ASSUME NEW q \in Request, UpdateCard(q) PROVE ToldIsTheHolder'
  BY <1>3, <1>4, <1>19 DEF UpdateCard, boardHistory
<1>20. QED
  BY <1>6, <1>7, <1>8, <1>9, <1>10, <1>11, <1>12, <1>13, <1>14, <1>15, <1>16, <1>17, <1>18, <1>19
     DEF TaskBoardNext, Statuses

\* An acceptance uses up the report that it finds.
LEMMA ReportsNext ==
  BoardTyped /\ ReportsAreCounted /\ [TaskBoardNext]_boardVars => ReportsAreCounted'
<1> SUFFICES ASSUME BoardTyped, ReportsAreCounted, [TaskBoardNext]_boardVars
             PROVE  ReportsAreCounted'
  OBVIOUS
<1>1. /\ contract \in [Contract -> [status : {"none", "open", "reported"} \cup Terminal,
                                    card : Message \cup {NoCard}]]
      /\ reports \in [Contract -> Nat] /\ accepts \in [Contract -> Nat]
  BY DEF BoardTyped, TaskBoardTypeOK
<1>2. \A d \in Contract : accepts[d] <= reports[d] /\ accepts[d] \in Nat /\ reports[d] \in Nat
  BY <1>1 DEF ReportsAreCounted
<1>3. ASSUME UNCHANGED <<reports, accepts>>,
             \A d \in Contract : contract'[d].status = "reported" => contract[d].status = "reported"
      PROVE  ReportsAreCounted'
  BY <1>2, <1>3 DEF ReportsAreCounted
<1>4. ASSUME UNCHANGED <<contract, reports, accepts>> PROVE ReportsAreCounted'
  BY <1>4 DEF ReportsAreCounted
<1>5. CASE UNCHANGED boardVars \/ PostMessage \/ \E who \in Member, m \in Message : Claim(who, m)
  BY <1>4, <1>5 DEF boardVars, PostMessage, Claim, boardHistory
<1>6. ASSUME NEW q \in Request,
             \/ CreateTask(q) \/ TakeNumber(q) \/ WriteAssigned(q) \/ WriteNew(q)
             \/ WriteConverted(q) \/ Unclaim(q) \/ MoveCard(q)
             \/ PostNotice(q) \/ UpdateCard(q) \/ Abort(q)
      PROVE  ReportsAreCounted'
  BY <1>4, <1>6 DEF CreateTask, TakeNumber, WriteAssigned, WriteNew, WriteConverted, Unclaim,
                    MoveCard, PostNotice, UpdateCard, Abort, boardHistory
<1>7. ASSUME NEW q \in Request, NEW m \in Message, ConvertMessage(q, m) PROVE ReportsAreCounted'
  BY <1>4, <1>7 DEF ConvertMessage, boardHistory
<1>8. ASSUME NEW q \in Request, NEW who \in Member, NEW m \in Message,
             AskUnclaim(q, who, m) \/ \E s \in Statuses : AskStatus(q, who, m, s)
      PROVE  ReportsAreCounted'
  BY <1>4, <1>8 DEF AskUnclaim, AskStatus, boardHistory
<1>9. ASSUME NEW q \in Request, SyncContract(q) PROVE ReportsAreCounted'
  <2>1. \A d \in Contract : contract'[d].status = "reported" => contract[d].status = "reported"
    BY <1>1, <1>9 DEF SyncContract
  <2>2. QED
    BY <1>3, <1>9, <2>1 DEF SyncContract, boardHistory
<1>10. ASSUME NEW q \in Request, LinkCard(q) \/ CancelContract(q) PROVE ReportsAreCounted'
  <2>1. \A d \in Contract : contract'[d].status = "reported" => contract[d].status = "reported"
    BY <1>1, <1>10 DEF LinkCard, CancelContract
  <2>2. QED
    BY <1>3, <1>10, <2>1 DEF LinkCard, CancelContract, boardHistory
<1>11. ASSUME NEW q \in Request, Report(q) PROVE ReportsAreCounted'
  <2>1. /\ accepts' = accepts
        /\ \A d \in Contract : d # req[q].con => contract'[d] = contract[d] /\ reports'[d] = reports[d]
        /\ req[q].con \in Contract => reports'[req[q].con] = reports[req[q].con] + 1
    BY <1>1, <1>11 DEF Report
  <2>2. QED
    BY <1>2, <2>1 DEF ReportsAreCounted
<1>12. ASSUME NEW q \in Request, NEW d \in Contract, Delegate(q, d) \/ AskReport(q, d) \/ AskCancel(q, d)
       PROVE  ReportsAreCounted'
  <2>1. \A e \in Contract : contract'[e].status = "reported" => contract[e].status = "reported"
    BY <1>1, <1>12 DEF Delegate, AskReport, AskCancel
  <2>2. QED
    BY <1>3, <1>12, <2>1 DEF Delegate, AskReport, AskCancel, boardHistory
<1>13. ASSUME NEW q \in Request, NEW d \in Contract, Accept(q, d) PROVE ReportsAreCounted'
  <2>1. /\ reports' = reports
        /\ \A e \in Contract : e # d => contract'[e] = contract[e] /\ accepts'[e] = accepts[e]
        /\ contract'[d].status = "completed" /\ accepts'[d] = accepts[d] + 1
        /\ contract[d].status = "reported"
    BY <1>1, <1>13 DEF Accept
  <2>2. QED
    BY <1>2, <2>1 DEF ReportsAreCounted
<1>14. QED
  BY <1>5, <1>6, <1>7, <1>8, <1>9, <1>10, <1>11, <1>12, <1>13 DEF TaskBoardNext, Statuses

\* The board's inductive invariant holds throughout.
THEOREM BoardInvariantHolds == TaskBoardSpec => []BoardInv
<1>1. BoardInv /\ [TaskBoardNext]_boardVars => BoardInv'
  BY BoardTypesNext, NumbersNext, ToldNext, ReportsNext DEF BoardInv
<1>2. QED
  BY BoardInit, <1>1, PTL DEF TaskBoardSpec

\* Whatever requests run at one time, and wherever one of them dies: two tasks never have
\* one number, a task that was not let go was promised to one member, and of the requests
\* that accept one report one is told ok.
THEOREM TheBoardIsConsistent == TaskBoardSpec => []BoardIsConsistent
<1>1. BoardInv => BoardIsConsistent
  <2> SUFFICES ASSUME BoardInv PROVE BoardIsConsistent
    OBVIOUS
  <2>1. ClaimIsExclusive
    <3>1. SUFFICES ASSUME NEW m \in Message PROVE Cardinality(told[m]) <= 1
      BY DEF ClaimIsExclusive
    <3>2. told[m] \subseteq {card[m].holder}
      BY DEF BoardInv, ToldIsTheHolder
    <3>3. IsFiniteSet({card[m].holder}) /\ Cardinality({card[m].holder}) = 1
      BY FS_Singleton
    <3>4. QED
      BY <3>2, <3>3, FS_Subset
  <2>2. AcceptedOncePerReport
    <3>1. \A d \in Contract : accepts[d] \in Nat /\ reports[d] \in Nat
      BY DEF BoardInv, BoardTyped, TaskBoardTypeOK
    <3>2. QED
      BY <3>1 DEF BoardInv, ReportsAreCounted, AcceptedOncePerReport
  <2>3. QED
    BY <2>1, <2>2 DEF BoardInv, BoardIsConsistent
<1>2. QED
  BY BoardInvariantHolds, <1>1, PTL

-----------------------------------------------------------------------------
(* Attachments                                                               *)

Stage(f) == upload[f].stage

\* a row is of an upload that ended, and names the key of one, with equal content;
\* the row of the upload that stored the bytes has them
RowsAreDone ==
  \A f \in Rows : /\ Stage(f) = "done" /\ Stage(row[f]) = "done"
                  /\ content[row[f]] = content[f]
                  /\ row[f] = f => f \in object

\* what an upload is to write in its row, its own key or that of one that ended
InsertsAreFit ==
  \A f \in File : Stage(f) = "insert" =>
    /\ upload[f].key \in File /\ content[upload[f].key] = content[f]
    /\ upload[f].key = f => f \in object
    /\ upload[f].key # f => Stage(upload[f].key) = "done"

\* a collector looks at keys of uploads that ended, and removes one whose own row is gone
CollectedAreDone ==
  \A g \in Collector :
    /\ \A k \in cleanup[g] : Stage(k) = "done"
    /\ removing[g] # NoFile => Stage(removing[g]) = "done" /\ row[removing[g]] # removing[g]

FilesInv ==
  /\ FilesTypeOK /\ RowsAreDone /\ InsertsAreFit /\ CollectedAreDone
  /\ \A b \in bound : b[2] \in Rows

\* The rows of before hashing have their bytes; nothing else is there.
LEMMA FilesStart == FilesInit => FilesInv
<1> SUFFICES ASSUME FilesInit PROVE FilesInv
  OBVIOUS
<1>1. FilesTypeOK
  BY AttachmentsAssumption DEF FilesInit, FilesTypeOK, Stages
<1>2. RowsAreDone /\ InsertsAreFit
  BY AttachmentsAssumption DEF FilesInit, RowsAreDone, InsertsAreFit, Rows, Stage
<1>3. CollectedAreDone /\ \A b \in bound : b[2] \in Rows
  BY DEF FilesInit, CollectedAreDone
<1>4. QED
  BY <1>1, <1>2, <1>3 DEF FilesInv

\* Uploads keep the invariant: a key that is taken over is one of a row, and an upload
\* makes nothing of what another has ended undone.
LEMMA UploadsKeep ==
  ASSUME FilesInv, NEW f \in File,
         LookForEqual(f) \/ SaveBytes(f) \/ InsertFileRow(f) \/ UploadFails(f)
  PROVE  FilesInv'
<1>1. /\ upload \in [File -> [stage : Stages, key : File \cup {NoFile}]]
      /\ row \in [File -> File \cup {NoFile}] /\ NoFile \notin File
      /\ object \subseteq File /\ hashed \subseteq File
      /\ crashes \in 0 .. MaxCrashes /\ MaxCrashes \in Nat
  BY AttachmentsAssumption DEF FilesInv, FilesTypeOK
<1>2. \A x \in Rows : /\ x \in File /\ row[x] \in File /\ Stage(x) = "done" /\ Stage(row[x]) = "done"
                      /\ content[row[x]] = content[x] /\ (row[x] = x => x \in object)
  BY <1>1 DEF FilesInv, RowsAreDone, Rows
<1>3. \A x \in File : Stage(x) = "insert" =>
        /\ upload[x].key \in File /\ content[upload[x].key] = content[x]
        /\ (upload[x].key = x => x \in object)
        /\ (upload[x].key # x => Stage(upload[x].key) = "done")
  BY DEF FilesInv, InsertsAreFit
<1>4. \A g \in Collector :
        /\ cleanup[g] \subseteq File /\ removing[g] \in File \cup {NoFile}
        /\ \A k \in cleanup[g] : Stage(k) = "done"
        /\ (removing[g] # NoFile => Stage(removing[g]) = "done" /\ row[removing[g]] # removing[g])
  BY DEF FilesInv, FilesTypeOK, CollectedAreDone
<1>5. \A b \in bound : b[2] \in Rows
  BY DEF FilesInv
<1>6. ASSUME NEW s \in Stages, NEW k \in File \cup {NoFile}, To(f, s, k)
      PROVE  /\ upload' \in [File -> [stage : Stages, key : File \cup {NoFile}]]
             /\ \A x \in File : x # f => upload'[x] = upload[x]
             /\ upload'[f].stage = s /\ upload'[f].key = k
  BY <1>1, <1>6 DEF To
<1>7. ASSUME UNCHANGED <<content, row, bound, cleanup, removing>>, object \subseteq object',
             NEW s \in {"save", "insert", "failed"}, NEW k \in File \cup {NoFile}, To(f, s, k),
             Stage(f) # "done",
             s = "insert" => /\ k \in File /\ content[k] = content[f]
                             /\ (k = f => f \in object') /\ (k # f => Stage(k) = "done")
      PROVE  (RowsAreDone /\ InsertsAreFit /\ CollectedAreDone /\ \A b \in bound : b[2] \in Rows)'
  <2>1. /\ \A x \in File : x # f => upload'[x] = upload[x]
        /\ upload'[f].stage = s /\ upload'[f].key = k
    BY <1>6, <1>7 DEF Stages
  <2>2. \A x \in File : upload[x].stage = "done" => upload'[x].stage = "done"
    BY <1>7, <2>1 DEF Stage
  <2>3. RowsAreDone'
    BY <1>2, <1>7, <2>2 DEF RowsAreDone, Rows, Stage
  <2>4. InsertsAreFit'
    <3>1. SUFFICES ASSUME NEW x \in File, upload'[x].stage = "insert"
                   PROVE  /\ upload'[x].key \in File /\ content'[upload'[x].key] = content'[x]
                          /\ (upload'[x].key = x => x \in object')
                          /\ (upload'[x].key # x => upload'[upload'[x].key].stage = "done")
      BY DEF InsertsAreFit, Stage
    <3>2. CASE x = f
      BY <1>7, <2>1, <2>2, <3>1, <3>2 DEF Stage
    <3>3. CASE x # f
      BY <1>3, <1>7, <2>1, <2>2, <3>1, <3>3 DEF Stage
    <3>4. QED
      BY <3>2, <3>3
  <2>5. CollectedAreDone'
    <3>1. SUFFICES ASSUME NEW g \in Collector
                   PROVE  /\ \A x \in cleanup[g] : upload'[x].stage = "done"
                          /\ removing[g] # NoFile => /\ upload'[removing[g]].stage = "done"
                                                     /\ row[removing[g]] # removing[g]
      BY <1>7 DEF CollectedAreDone, Stage
    <3>2. QED
      BY <1>4, <2>2 DEF Stage
  <2>6. (\A b \in bound : b[2] \in Rows)'
    BY <1>5, <1>7 DEF Rows
  <2>7. QED
    BY <2>3, <2>4, <2>5, <2>6
<1>8. CASE LookForEqual(f)
  <2>1. PICK s \in {"save", "insert"}, k \in File :
          /\ To(f, s, k)
          /\ s = "insert" => content[k] = content[f] /\ k # f /\ Stage(k) = "done"
    <3>1. CASE {e \in Rows \cap hashed : content[e] = content[f]} = {}
      BY <1>8, <3>1 DEF LookForEqual
    <3>2. CASE {e \in Rows \cap hashed : content[e] = content[f]} # {}
      <4>1. PICK e \in Rows : content[e] = content[f] /\ To(f, "insert", row[e])
        BY <1>8, <3>2 DEF LookForEqual
      <4>2. row[e] # f
        BY <1>2, <1>8 DEF LookForEqual, Stage
      <4>3. QED
        BY <1>2, <4>1, <4>2
    <3>3. QED
      BY <3>1, <3>2
  <2>2. UNCHANGED <<content, filesDb, object, cleanup, removing, crashes>> /\ Stage(f) # "done"
    BY <1>8 DEF LookForEqual, Stage
  <2>3. FilesTypeOK'
    BY <1>6, <2>1, <2>2 DEF FilesInv, FilesTypeOK, filesDb, Stages
  <2>4. (RowsAreDone /\ InsertsAreFit /\ CollectedAreDone /\ \A b \in bound : b[2] \in Rows)'
    BY <1>7, <2>1, <2>2 DEF filesDb
  <2>5. QED
    BY <2>3, <2>4 DEF FilesInv
<1>9. CASE SaveBytes(f)
  <2>1. /\ UNCHANGED <<content, filesDb, cleanup, removing, crashes>> /\ Stage(f) # "done"
        /\ object' = object \cup {f} /\ To(f, "insert", f)
    BY <1>9 DEF SaveBytes, Stage
  <2>2. FilesTypeOK'
    BY <1>6, <2>1 DEF FilesInv, FilesTypeOK, filesDb, Stages
  <2>3. (RowsAreDone /\ InsertsAreFit /\ CollectedAreDone /\ \A b \in bound : b[2] \in Rows)'
    BY <1>7, <2>1 DEF filesDb
  <2>4. QED
    BY <2>2, <2>3 DEF FilesInv
<1>10. CASE UploadFails(f)
  <2>1. /\ UNCHANGED <<content, filesDb, object, cleanup, removing>> /\ Stage(f) # "done"
        /\ crashes' \in 0 .. MaxCrashes /\ To(f, "failed", upload[f].key)
        /\ upload[f].key \in File \cup {NoFile}
    BY <1>1, <1>10 DEF UploadFails, Stage
  <2>2. FilesTypeOK'
    BY <1>6, <2>1 DEF FilesInv, FilesTypeOK, filesDb, Stages
  <2>3. (RowsAreDone /\ InsertsAreFit /\ CollectedAreDone /\ \A b \in bound : b[2] \in Rows)'
    BY <1>7, <2>1 DEF filesDb
  <2>4. QED
    BY <2>2, <2>3 DEF FilesInv
<1>11. CASE InsertFileRow(f)
  <2> DEFINE k == upload[f].key
  <2>1. /\ UNCHANGED <<content, old, object, channelOf, bound, cleanup, removing, posts, crashes>>
        /\ Stage(f) = "insert" /\ To(f, "done", k)
        /\ row' = [row EXCEPT ![f] = k] /\ hashed' = hashed \cup {f}
    BY <1>11 DEF InsertFileRow, Stage
  <2>2. k \in File /\ content[k] = content[f] /\ (k = f => f \in object) /\ (k # f => Stage(k) = "done")
    BY <1>3, <2>1
  <2> HIDE DEF k
  <2>3. /\ upload' \in [File -> [stage : Stages, key : File \cup {NoFile}]]
        /\ \A x \in File : x # f => upload'[x] = upload[x]
        /\ upload'[f].stage = "done"
    BY <1>6, <2>1, <2>2 DEF Stages
  <2>4. FilesTypeOK'
    BY <1>1, <2>1, <2>2, <2>3 DEF FilesInv, FilesTypeOK
  <2>5. \A x \in File : x # f => row'[x] = row[x]
    BY <1>1, <2>1
  <2>6. row'[f] = k /\ \A x \in File : upload[x].stage = "done" => upload'[x].stage = "done"
    BY <1>1, <2>1, <2>3
  <2>7. RowsAreDone'
    <3>1. SUFFICES ASSUME NEW x \in File, row'[x] # NoFile
                   PROVE  /\ upload'[x].stage = "done" /\ upload'[row'[x]].stage = "done"
                          /\ content[row'[x]] = content[x] /\ (row'[x] = x => x \in object)
      BY <2>1 DEF RowsAreDone, Rows, Stage
    <3>2. CASE x = f
      BY <2>2, <2>3, <2>6, <3>2 DEF Stage
    <3>3. CASE x # f
      BY <1>2, <2>5, <2>6, <3>1, <3>3 DEF Rows, Stage
    <3>4. QED
      BY <3>2, <3>3
  <2>8. InsertsAreFit'
    BY <1>3, <2>1, <2>3, <2>6 DEF InsertsAreFit, Stage
  <2>9. CollectedAreDone'
    <3>1. SUFFICES ASSUME NEW g \in Collector
                   PROVE  /\ \A x \in cleanup[g] : upload'[x].stage = "done"
                          /\ removing[g] # NoFile => /\ upload'[removing[g]].stage = "done"
                                                     /\ row'[removing[g]] # removing[g]
      BY <2>1 DEF CollectedAreDone, Stage
    <3>2. removing[g] # NoFile => removing[g] # f
      BY <1>4, <2>1
    <3>3. QED
      BY <1>4, <2>5, <2>6, <3>2 DEF Stage
  <2>10. (\A b \in bound : b[2] \in Rows)'
    BY <1>1, <1>5, <2>1, <2>2, <2>5, <2>6 DEF Rows
  <2>11. QED
    BY <2>4, <2>7, <2>8, <2>9, <2>10 DEF FilesInv
<1>12. QED
  BY <1>8, <1>9, <1>10, <1>11

\* Collectors keep it: the rows that go are those no message refers to, and the bytes that
\* go are those of a row that is gone.
LEMMA CollectionKeeps ==
  ASSUME FilesInv, NEW g \in Collector,
         \/ Sweep(g) \/ CheckKey(g) \/ RemoveBytes(g) \/ CollectorDies(g)
         \/ \E c \in Channel : DeleteChannel(g, c)
  PROVE  FilesInv'
<1>1. /\ row \in [File -> File \cup {NoFile}] /\ NoFile \notin File
      /\ cleanup \in [Collector -> SUBSET File] /\ removing \in [Collector -> File \cup {NoFile}]
      /\ bound \subseteq Post \X File /\ object \subseteq File
      /\ channelOf \in [Post -> Channel \cup {"none"}]
      /\ crashes \in 0 .. MaxCrashes /\ MaxCrashes \in Nat
  BY AttachmentsAssumption DEF FilesInv, FilesTypeOK
<1>2. \A x \in Rows : /\ x \in File /\ row[x] \in File /\ Stage(x) = "done" /\ Stage(row[x]) = "done"
                      /\ content[row[x]] = content[x] /\ (row[x] = x => x \in object)
  BY <1>1 DEF FilesInv, RowsAreDone, Rows
<1>3. \A x \in File : Stage(x) = "insert" =>
        /\ upload[x].key \in File /\ content[upload[x].key] = content[x]
        /\ (upload[x].key = x => x \in object)
        /\ (upload[x].key # x => Stage(upload[x].key) = "done")
  BY DEF FilesInv, InsertsAreFit
<1>4. \A h \in Collector :
        /\ \A k \in cleanup[h] : Stage(k) = "done"
        /\ (removing[h] # NoFile => Stage(removing[h]) = "done" /\ row[removing[h]] # removing[h])
  BY DEF FilesInv, CollectedAreDone
<1>5. \A b \in bound : b[2] \in Rows
  BY DEF FilesInv
<1>6. ASSUME NEW fs \in SUBSET Rows, DropRows(g, fs), UNCHANGED <<upload, content, object, removing>>,
             bound' \subseteq bound, \A b \in bound' : b[2] \notin fs,
             channelOf' \in [Post -> Channel \cup {"none"}],
             UNCHANGED <<hashed, old, posts, crashes>>
      PROVE  FilesInv'
  <2>1. /\ row' = [f \in File |-> IF f \in fs THEN NoFile ELSE row[f]]
        /\ cleanup' = [cleanup EXCEPT ![g] = {row[f] : f \in fs}]
    BY <1>6 DEF DropRows
  <2>2. \A x \in {row[f] : f \in fs} : x \in File /\ Stage(x) = "done"
    BY <1>2, <1>6
  <2>3. FilesTypeOK'
    <3>1. row' \in [File -> File \cup {NoFile}]
      BY <1>1, <2>1
    <3>2. cleanup' \in [Collector -> SUBSET File]
      BY <1>1, <2>1, <2>2
    <3>3. QED
      BY <1>1, <1>6, <3>1, <3>2 DEF FilesInv, FilesTypeOK
  <2>4. \A x \in Rows' : x \in Rows /\ row'[x] = row[x]
    BY <2>1 DEF Rows
  <2>5. RowsAreDone'
    BY <1>2, <1>6, <2>4 DEF RowsAreDone, Stage
  <2>6. InsertsAreFit'
    BY <1>3, <1>6 DEF InsertsAreFit, Stage
  <2>7. CollectedAreDone'
    <3>1. SUFFICES ASSUME NEW h \in Collector
                   PROVE  /\ \A x \in cleanup'[h] : Stage(x) = "done"
                          /\ removing[h] # NoFile => /\ Stage(removing[h]) = "done"
                                                     /\ row'[removing[h]] # removing[h]
      BY <1>6 DEF CollectedAreDone, Stage
    <3>2. \A x \in cleanup'[h] : x \in cleanup[h] \/ x \in {row[f] : f \in fs}
      BY <1>1, <2>1
    <3>3. removing[h] # NoFile => removing[h] \in File
      BY <1>1
    <3>4. QED
      BY <1>1, <1>4, <2>1, <2>2, <3>2, <3>3
  <2>8. (\A b \in bound : b[2] \in Rows)'
    <3>1. SUFFICES ASSUME NEW b \in bound' PROVE b[2] \in File /\ row'[b[2]] # NoFile
      BY DEF Rows
    <3>2. b[2] \in Rows /\ b[2] \notin fs
      BY <1>5, <1>6
    <3>3. QED
      BY <2>1, <3>2 DEF Rows
  <2>9. QED
    BY <2>3, <2>5, <2>6, <2>7, <2>8 DEF FilesInv
<1>7. CASE Sweep(g)
  <2>1. PICK fs \in SUBSET {f \in Rows \cap old : ~Bound(f)} : DropRows(g, fs)
    BY <1>7 DEF Sweep
  <2>2. /\ UNCHANGED <<upload, content, object, removing, bound, channelOf, hashed, old, posts, crashes>>
        /\ fs \in SUBSET Rows
    BY <1>7 DEF Sweep
  <2>3. \A b \in bound : b[2] \notin fs
    <3>1. SUFFICES ASSUME NEW b \in bound, b[2] \in fs PROVE FALSE
      OBVIOUS
    <3>2. b[1] \in Post /\ b = <<b[1], b[2]>>
      BY <1>1
    <3>3. QED
      BY <3>1, <3>2 DEF Bound
  <2>4. QED
    BY <1>1, <1>6, <2>1, <2>2, <2>3
<1>8. ASSUME NEW c \in Channel, DeleteChannel(g, c) PROVE FilesInv'
  <2> DEFINE rest == {b \in bound : b[1] \notin PostsIn(c)}
             fs == {f \in FilesOf(PostsIn(c)) : f \notin {b[2] : b \in rest}}
  <2>1. /\ DropRows(g, fs) /\ bound' = rest
        /\ channelOf' = [p \in Post |-> IF channelOf[p] = c THEN "none" ELSE channelOf[p]]
        /\ UNCHANGED <<upload, content, object, removing, hashed, old, posts, crashes>>
    BY <1>8 DEF DeleteChannel
  <2>2. fs \in SUBSET Rows
    <3>1. \A f \in FilesOf(PostsIn(c)) : f \in Rows
      BY <1>5 DEF FilesOf
    <3>2. QED
      BY <3>1
  <2>3. rest \subseteq bound /\ \A b \in rest : b[2] \notin fs
    OBVIOUS
  <2>4. channelOf' \in [Post -> Channel \cup {"none"}]
    BY <1>1, <2>1
  <2> HIDE DEF rest, fs
  <2>5. QED
    BY <1>6, <2>1, <2>2, <2>3, <2>4
<1>9. ASSUME UNCHANGED <<upload, content, filesDb>>, object' \subseteq object,
             \A x \in File : x \in object => x \in object' \/ (upload[x].stage = "done" /\ row[x] # x),
             crashes' \in 0 .. MaxCrashes,
             cleanup' \in [Collector -> SUBSET File], removing' \in [Collector -> File \cup {NoFile}],
             \A h \in Collector : cleanup'[h] \subseteq cleanup[h],
             \A h \in Collector : removing'[h] \in {removing[h], NoFile}
                                  \/ (upload[removing'[h]].stage = "done" /\ row[removing'[h]] # removing'[h])
      PROVE  FilesInv'
  <2>1. FilesTypeOK'
    BY <1>9 DEF FilesInv, FilesTypeOK, filesDb
  <2>2. RowsAreDone'
    BY <1>2, <1>9 DEF RowsAreDone, Rows, Stage, filesDb
  <2>3. InsertsAreFit'
    BY <1>3, <1>9 DEF InsertsAreFit, Stage, filesDb
  <2>4. CollectedAreDone'
    BY <1>4, <1>9 DEF CollectedAreDone, Stage, filesDb
  <2>5. (\A b \in bound : b[2] \in Rows)'
    BY <1>5, <1>9 DEF Rows, filesDb
  <2>6. QED
    BY <2>1, <2>2, <2>3, <2>4, <2>5 DEF FilesInv
<1>10. CASE CheckKey(g)
  <2>1. PICK k \in cleanup[g] :
          /\ cleanup' = [cleanup EXCEPT ![g] = @ \ {k}]
          /\ removing' = IF \E f \in File : row[f] = k THEN removing
                         ELSE [removing EXCEPT ![g] = k]
    BY <1>10 DEF CheckKey
  <2>2. UNCHANGED <<upload, content, filesDb, object, crashes>> /\ k \in File /\ upload[k].stage = "done"
    BY <1>1, <1>4, <1>10 DEF CheckKey, Stage
  <2>3. /\ removing' \in [Collector -> File \cup {NoFile}]
        /\ \A h \in Collector : removing'[h] \in {removing[h], NoFile}
                                \/ (upload[removing'[h]].stage = "done" /\ row[removing'[h]] # removing'[h])
    <3>1. CASE removing' = removing
      BY <1>1, <3>1
    <3>2. CASE removing' = [removing EXCEPT ![g] = k] /\ row[k] # k
      BY <1>1, <2>2, <3>2
    <3>3. QED
      BY <2>1, <2>2, <3>1, <3>2
  <2>4. /\ cleanup' \in [Collector -> SUBSET File]
        /\ \A h \in Collector : cleanup'[h] \subseteq cleanup[h]
    BY <1>1, <2>1
  <2>5. UNCHANGED <<upload, content, filesDb>> /\ object' = object /\ crashes' \in 0 .. MaxCrashes
    BY <1>1, <2>2
  <2>6. QED
    BY <1>9, <2>3, <2>4, <2>5
<1>11. CASE RemoveBytes(g)
  <2>1. /\ removing[g] # NoFile /\ removing' = [removing EXCEPT ![g] = NoFile]
        /\ object' \in {object, object \ {removing[g]}}
        /\ UNCHANGED <<upload, content, filesDb, cleanup, crashes>>
    BY <1>11 DEF RemoveBytes
  <2>2. upload[removing[g]].stage = "done" /\ row[removing[g]] # removing[g]
    BY <1>4, <2>1 DEF Stage
  <2>3. /\ removing' \in [Collector -> File \cup {NoFile}]
        /\ \A h \in Collector : removing'[h] \in {removing[h], NoFile}
    BY <1>1, <2>1
  <2>4. object' \subseteq object /\ \A x \in File : x \in object => x \in object' \/ x = removing[g]
    BY <2>1
  <2>5. /\ UNCHANGED <<upload, content, filesDb>> /\ crashes' \in 0 .. MaxCrashes
        /\ cleanup' \in [Collector -> SUBSET File]
        /\ \A h \in Collector : cleanup'[h] \subseteq cleanup[h]
    BY <1>1, <2>1
  <2>6. \A x \in File : x \in object => x \in object' \/ (upload[x].stage = "done" /\ row[x] # x)
    BY <2>2, <2>4
  <2>7. QED
    BY <1>9, <2>3, <2>4, <2>5, <2>6
<1>12. CASE CollectorDies(g)
  <2>1. /\ UNCHANGED <<upload, content, filesDb, object>> /\ crashes' \in 0 .. MaxCrashes
        /\ cleanup' = [cleanup EXCEPT ![g] = {}] /\ removing' = [removing EXCEPT ![g] = NoFile]
    BY <1>1, <1>12 DEF CollectorDies
  <2>2. /\ removing' \in [Collector -> File \cup {NoFile}]
        /\ \A h \in Collector : removing'[h] \in {removing[h], NoFile}
        /\ cleanup' \in [Collector -> SUBSET File]
        /\ \A h \in Collector : cleanup'[h] \subseteq cleanup[h]
    BY <1>1, <2>1
  <2>3. QED
    BY <1>9, <2>1, <2>2
<1>13. QED
  BY <1>7, <1>8, <1>10, <1>11, <1>12

\* The attachments' inductive invariant holds throughout.
THEOREM FilesInvariantHolds == FilesSpec => []FilesInv
<1>1. FilesInv /\ [FilesNext]_filesVars => FilesInv'
  <2> SUFFICES ASSUME FilesInv, [FilesNext]_filesVars PROVE FilesInv'
    OBVIOUS
  <2>1. /\ channelOf \in [Post -> Channel \cup {"none"}] /\ bound \subseteq Post \X File
        /\ hashed \subseteq File /\ old \subseteq File /\ posts \in 0 .. MaxPosts /\ MaxPosts \in Nat
    BY AttachmentsAssumption DEF FilesInv, FilesTypeOK
  <2>2. ASSUME UNCHANGED <<upload, content, row, object, cleanup, removing, crashes>>,
               channelOf' \in [Post -> Channel \cup {"none"}], bound' \subseteq Post \X File,
               hashed' \subseteq File, old' \subseteq File, posts' \in 0 .. MaxPosts,
               \A b \in bound' : b[2] \in Rows
        PROVE  FilesInv'
    BY <2>2 DEF FilesInv, FilesTypeOK, RowsAreDone, InsertsAreFit, CollectedAreDone, Rows, Stage
  <2>3. \A b \in bound : b[2] \in Rows
    BY DEF FilesInv
  <2>4. ASSUME NEW f \in File, HashLegacy(f) \/ PassesGrace(f) PROVE FilesInv'
    <3>1. CASE HashLegacy(f)
      BY <2>1, <2>2, <2>3, <3>1 DEF HashLegacy
    <3>2. CASE PassesGrace(f)
      BY <2>1, <2>2, <2>3, <3>2 DEF PassesGrace
    <3>3. QED
      BY <2>4, <3>1, <3>2
  <2>5. ASSUME NEW c \in Channel, NEW fs \in SUBSET File, SendWith(c, fs) PROVE FilesInv'
    <3>1. PICK p \in Post : /\ channelOf' = [channelOf EXCEPT ![p] = c]
                            /\ bound' = bound \cup {<<p, f>> : f \in fs}
      BY <2>5 DEF SendWith
    <3>2. /\ UNCHANGED <<upload, content, row, hashed, old, object, cleanup, removing, crashes>>
          /\ fs \subseteq Rows /\ posts' \in 0 .. MaxPosts
      BY <2>1, <2>5 DEF SendWith
    <3>3. channelOf' \in [Post -> Channel \cup {"none"}] /\ bound' \subseteq Post \X File
      BY <2>1, <3>1
    <3>4. \A b \in bound' : b[2] \in Rows
      BY <2>3, <3>1, <3>2
    <3>5. QED
      BY <2>1, <2>2, <3>2, <3>3, <3>4
  <2>6. ASSUME NEW p \in Post, DeletePost(p) PROVE FilesInv'
    BY <2>1, <2>2, <2>3, <2>6 DEF DeletePost
  <2>7. CASE UNCHANGED filesVars
    BY <2>1, <2>2, <2>3, <2>7 DEF filesVars
  <2>8. QED
    BY <2>4, <2>5, <2>6, <2>7, UploadsKeep, CollectionKeeps DEF FilesNext
<1>2. QED
  BY FilesStart, <1>1, PTL DEF FilesSpec

\* Whatever uploads share an object and whoever removes rows: a row that stored its bytes
\* has them, what a message refers to has a row, and a row names equal content.
THEOREM FilesStayWhole == FilesSpec => []FilesAreWhole
<1>1. FilesInv => FilesAreWhole
  BY DEF FilesInv, FilesAreWhole, StoredBytesStay, BoundFilesHaveRows, RowsAreDone
<1>2. QED
  BY FilesInvariantHolds, <1>1, PTL

-----------------------------------------------------------------------------
(* Orgs, members, invites                                                    *)

Roles == {"none", "member", "admin", "owner"}

\* the types of the rows; the orgs there are were made
OrgsTyped ==
  /\ lastOrg \in Org /\ orgs \subseteq 1 .. lastOrg
  /\ ownerId \in [Org -> Account] /\ role \in [Account \X Org -> Roles]
  /\ invites \in [Invite -> InviteRow \cup {Nothing}]
  /\ seated \in [Invite -> SUBSET Account] /\ \A i \in Invite : IsFiniteSet(seated[i])
  /\ orgAgents \in [OrgAgent -> OrgAgentRow \cup {Nothing}] /\ computers \subseteq Computer

\* what a request carries from its first query to its last
FitOrgRequest(r) ==
  /\ r.op \in {"transfer", "promote"} =>
       r.who \in Account /\ r.to \in Account /\ r.org \in Org /\ r.to # r.who
  /\ r.op = "promote" => r.was \in Roles
  /\ r.op = "role" => r.as \in {"member", "admin"}
  /\ r.op = "invite" => r.seats \in 0 .. MaxSeats
  /\ r.op = "accept" => r.to \in Account
  /\ r.op = "visibility" => r.public \in BOOLEAN
  /\ r.op = "ready" => r.computer \in Computer
  /\ r.op \in {"kick", "rehome", "move"} => r.agent \in OrgAgent /\ orgAgents[r.agent] # Nothing
  /\ r.op \in {"kick", "rehome"} => r.keeper = orgAgents[r.agent].keeper
  /\ r.op = "move" /\ r.computer # Nothing =>
       r.computer[1] = orgAgents[r.agent].keeper /\ r.computer[2] = r.home

RequestsAreFit ==
  orgReq = [q \in OrgSlot |-> orgReq[q]] /\ \A q \in OrgSlot : FitOrgRequest(orgReq[q])

\* nobody sits on an invite that is not there
SeatsInv == SeatsAreCounted /\ \A i \in Invite : invites[i] = Nothing => seated[i] = {}

\* machines are those of orgs that exist
HomesInv == AgentsAreAtHome /\ \A c \in computers : c[2] \in orgs

OrgsInv == OrgsTyped /\ RequestsAreFit /\ SeatsInv /\ HomesInv

\* The founder, one org and one machine.
LEMMA OrgsStart == MembershipInit => OrgsInv
<1> SUFFICES ASSUME MembershipInit PROVE OrgsInv
  OBVIOUS
<1>1. 1 \in Org /\ Founder \in Account /\ Box # {}
  BY MembershipAssumption DEF Org
<1>2. PICK b : b \in Box
  BY <1>1
<1>3. <<Founder, 1, b>> \in Computer /\ <<Founder, 1, b>>[1] = Founder /\ <<Founder, 1, b>>[2] = 1
  BY <1>1, <1>2 DEF Computer
<1> DEFINE founded == CHOOSE c \in Computer : c[1] = Founder /\ c[2] = 1
<1>4. founded \in Computer /\ founded[1] = Founder /\ founded[2] = 1
  <2>1. \E c \in Computer : c[1] = Founder /\ c[2] = 1
    BY <1>3
  <2>2. QED
    BY <2>1
<1> HIDE DEF founded
<1>5. computers = {founded}
  BY DEF MembershipInit, founded
<1>6. OrgsTyped
  <2>1. /\ lastOrg \in Org /\ orgs \subseteq 1 .. lastOrg
        /\ ownerId \in [Org -> Account] /\ role \in [Account \X Org -> Roles]
    BY <1>1 DEF MembershipInit, Roles
  <2>2. /\ invites \in [Invite -> InviteRow \cup {Nothing}]
        /\ orgAgents \in [OrgAgent -> OrgAgentRow \cup {Nothing}]
        /\ seated \in [Invite -> SUBSET Account] /\ \A i \in Invite : seated[i] = {}
    BY DEF MembershipInit
  <2>3. QED
    BY <1>4, <1>5, <2>1, <2>2, FS_EmptySet DEF OrgsTyped
<1>7. RequestsAreFit
  BY DEF MembershipInit, RequestsAreFit, FitOrgRequest, NoOrgRequest
<1>8. SeatsInv
  BY DEF MembershipInit, SeatsInv, SeatsAreCounted
<1>9. HomesInv
  BY <1>4, <1>5 DEF MembershipInit, HomesInv, AgentsAreAtHome, Lives
<1>10. QED
  BY <1>6, <1>7, <1>8, <1>9 DEF OrgsInv

\* Rows: every action writes values of their types.
LEMMA OrgsTypedNext ==
  ASSUME OrgsTyped, RequestsAreFit, [MembershipNext]_orgVars
  PROVE  OrgsTyped'
<1>1. /\ lastOrg \in Org /\ lastOrg \in Nat /\ orgs \subseteq 1 .. lastOrg
      /\ ownerId \in [Org -> Account] /\ role \in [Account \X Org -> Roles]
      /\ invites \in [Invite -> InviteRow \cup {Nothing}]
      /\ seated \in [Invite -> SUBSET Account] /\ \A i \in Invite : IsFiniteSet(seated[i])
      /\ orgAgents \in [OrgAgent -> OrgAgentRow \cup {Nothing}] /\ computers \subseteq Computer
      /\ MaxOrgs \in Nat
  BY MembershipAssumption DEF OrgsTyped, Org
<1>2. \A q \in OrgSlot : FitOrgRequest(orgReq[q])
  BY DEF RequestsAreFit
<1>3. ASSUME UNCHANGED tables PROVE OrgsTyped'
  BY <1>3 DEF tables, OrgsTyped
<1>4. CASE UNCHANGED orgVars \/ CacheExpires
  BY <1>3, <1>4 DEF orgVars, tables, CacheExpires
<1>5. ASSUME NEW q \in OrgSlot,
             \/ AskAsOwner(q) \/ AskDelete(q) \/ AskVisibility(q) \/ AskLeave(q) \/ AskJoin(q)
             \/ AskAccept(q) \/ AskForget(q) \/ ReadTarget(q) \/ ReadHome(q) \/ ReadMachines(q)
             \/ Fails(q)
      PROVE  UNCHANGED tables
  BY <1>5 DEF AskAsOwner, AskDelete, AskVisibility, AskLeave, AskJoin, AskAccept, AskForget,
              ReadTarget, ReadHome, ReadMachines, Fails
<1>6. CASE CreateOrg
  <2>1. PICK u \in Account :
          /\ lastOrg < MaxOrgs /\ lastOrg' = lastOrg + 1 /\ orgs' = orgs \cup {lastOrg + 1}
          /\ ownerId' = [ownerId EXCEPT ![lastOrg + 1] = u]
          /\ role' = [role EXCEPT ![<<u, lastOrg + 1>>] = "owner"]
          /\ UNCHANGED <<isPublic, invites, orgAgents, computers, defaultOrg, orgsAsked, orgReq, seated>>
    BY <1>6 DEF CreateOrg
  <2>2. lastOrg' \in Org /\ orgs' \subseteq 1 .. lastOrg'
    BY <1>1, <2>1 DEF Org
  <2>3. ownerId' \in [Org -> Account] /\ role' \in [Account \X Org -> Roles]
    BY <1>1, <2>1 DEF Roles
  <2>4. QED
    BY <1>1, <2>1, <2>2, <2>3 DEF OrgsTyped
<1>7. CASE InviteExpires
  <2>1. PICK i \in Invite :
          /\ invites[i] # Nothing /\ invites' = [invites EXCEPT ![i].open = FALSE]
          /\ UNCHANGED <<lastOrg, orgs, ownerId, isPublic, role, orgAgents, computers, defaultOrg,
                         orgsAsked, orgReq, seated>>
    BY <1>7 DEF InviteExpires
  <2>2. [invites[i] EXCEPT !.open = FALSE] \in InviteRow
    BY <1>1, <2>1 DEF InviteRow
  <2>3. invites' \in [Invite -> InviteRow \cup {Nothing}]
    BY <1>1, <2>1, <2>2
  <2>4. QED
    BY <1>1, <2>1, <2>3 DEF OrgsTyped
<1>8. ASSUME NEW q \in OrgSlot, Promote(q) PROVE OrgsTyped'
  <2> DEFINE r == orgReq[q]
  <2>1. /\ r.op = "promote"
        /\ ownerId' = [ownerId EXCEPT ![r.org] = r.to]
        /\ role' = [m \in DOMAIN role |->
                      IF m = <<r.to, r.org>> THEN "owner"
                      ELSE IF m = <<r.who, r.org>> /\ role[m] = "owner"
                      THEN IF r.was = "owner" THEN "member" ELSE r.was
                      ELSE role[m]]
        /\ UNCHANGED <<invites, seated, lastOrg, orgs, orgAgents, computers>>
    BY <1>8 DEF Promote, MembersOnly
  <2>2. r.to \in Account /\ r.was \in Roles
    BY <1>2, <2>1 DEF FitOrgRequest
  <2> HIDE DEF r
  <2>3. role' \in [Account \X Org -> Roles]
    BY <1>1, <2>1, <2>2 DEF Roles
  <2>4. ownerId' \in [Org -> Account]
    BY <1>1, <2>1, <2>2
  <2>5. QED
    BY <1>1, <2>1, <2>3, <2>4 DEF OrgsTyped
<1>9. ASSUME NEW q \in OrgSlot, ChangeMember(q) PROVE OrgsTyped'
  <2> DEFINE r == orgReq[q]
  <2>1. UNCHANGED <<ownerId, invites, seated, lastOrg, orgs, orgAgents, computers>>
    BY <1>9 DEF ChangeMember, MembersOnly
  <2>2. r.op = "role" => r.as \in Roles
    BY <1>2 DEF FitOrgRequest, Roles
  <2>3. \/ role' = Joined(r.to, r.org, "member")
        \/ role' = [role EXCEPT ![<<r.to, r.org>>] = IF @ = "owner" THEN @ ELSE "none"]
        \/ role' = [role EXCEPT ![<<r.to, r.org>>] = "none"]
        \/ /\ r.op = "role"
           /\ role' = [role EXCEPT ![<<r.to, r.org>>] = IF @ \in {"owner", "none"} THEN @ ELSE r.as]
    BY <1>9 DEF ChangeMember
  <2> HIDE DEF r
  <2>4. role' \in [Account \X Org -> Roles]
    BY <1>1, <2>2, <2>3 DEF Joined, Roles
  <2>5. QED
    BY <1>1, <2>1, <2>4 DEF OrgsTyped
<1>10. ASSUME NEW q \in OrgSlot, ChangeInvite(q) PROVE OrgsTyped'
  <2> DEFINE r == orgReq[q]
  <2>1. UNCHANGED <<ownerId, role, seated, lastOrg, orgs, orgAgents, computers>>
    BY <1>10 DEF ChangeInvite, MembersOnly
  <2>2. CASE /\ r.op = "invite" /\ r.org \in orgs
             /\ invites' = [invites EXCEPT ![r.token] =
                              [org |-> r.org, seats |-> r.seats, uses |-> 0, open |-> TRUE]]
    <3>1. r.seats \in 0 .. MaxSeats
      BY <1>2, <2>2 DEF FitOrgRequest
    <3>2. r.org \in Org
      <4>1. \A o \in orgs : o \in Org
        BY <1>1 DEF Org
      <4>2. QED
        BY <2>2, <4>1
    <3>3. [org |-> r.org, seats |-> r.seats, uses |-> 0, open |-> TRUE] \in InviteRow
      BY <3>1, <3>2 DEF InviteRow
    <3> HIDE DEF r
    <3>4. QED
      BY <1>1, <2>1, <2>2, <3>3 DEF OrgsTyped
  <2>3. CASE /\ invites[r.token] # Nothing
             /\ invites' = [invites EXCEPT ![r.token].open = FALSE]
    <3> HIDE DEF r
    <3>1. invites' \in [Invite -> InviteRow \cup {Nothing}]
      <4>1. CASE r.token \in Invite
        <5>1. [invites[r.token] EXCEPT !.open = FALSE] \in InviteRow
          BY <1>1, <2>3, <4>1 DEF InviteRow
        <5>2. QED
          BY <1>1, <2>3, <5>1
      <4>2. CASE r.token \notin Invite
        BY <1>1, <2>3, <4>2
      <4>3. QED
        BY <4>1, <4>2
    <3>2. QED
      BY <1>1, <2>1, <3>1 DEF OrgsTyped
  <2>4. QED
    BY <1>10, <2>2, <2>3 DEF ChangeInvite
<1>11. ASSUME NEW i, NEW u \in Account, TakeSeat(i, u),
              UNCHANGED <<ownerId, lastOrg, orgs, orgAgents, computers>>
       PROVE  OrgsTyped'
  <2>1. /\ invites[i] # Nothing /\ invites' = [invites EXCEPT ![i].uses = @ + 1]
        /\ role' = Joined(u, invites[i].org, "member")
        /\ seated' = [seated EXCEPT ![i] = IF role' = role THEN @ ELSE @ \cup {u}]
    BY <1>11 DEF TakeSeat, HasSeat
  <2>2. role' \in [Account \X Org -> Roles]
    BY <1>1, <2>1 DEF Joined, Roles
  <2>3. CASE i \in Invite
    <3>1. [invites[i] EXCEPT !.uses = @ + 1] \in InviteRow
      BY <1>1, <2>1, <2>3 DEF InviteRow
    <3>2. invites' \in [Invite -> InviteRow \cup {Nothing}]
      BY <1>1, <2>1, <3>1
    <3>3. seated' \in [Invite -> SUBSET Account]
      BY <1>1, <2>1
    <3>4. \A j \in Invite : IsFiniteSet(seated'[j])
      <4>1. IsFiniteSet(seated[i] \cup {u})
        BY <1>1, <2>3, FS_AddElement
      <4>2. \A j \in Invite : seated'[j] \in {seated[j], seated[i] \cup {u}}
        BY <1>1, <2>1
      <4>3. QED
        BY <1>1, <4>1, <4>2
    <3>5. QED
      BY <1>1, <1>11, <2>2, <3>2, <3>3, <3>4 DEF OrgsTyped
  <2>4. CASE i \notin Invite
    BY <1>1, <1>11, <2>1, <2>2, <2>4 DEF OrgsTyped
  <2>5. QED
    BY <2>3, <2>4
<1>12. ASSUME NEW q \in OrgSlot, AcceptInvite(q) PROVE OrgsTyped'
  <2>1. orgReq[q].to \in Account
    BY <1>2, <1>12 DEF FitOrgRequest, AcceptInvite
  <2>2. QED
    BY <1>11, <1>12, <2>1 DEF AcceptInvite, MembersOnly
<1>13. ASSUME NEW q \in OrgSlot, RegisterAccount(q) PROVE OrgsTyped'
  <2>1. UNCHANGED <<lastOrg, orgs, ownerId, isPublic, orgAgents, computers>>
    BY <1>13 DEF RegisterAccount
  <2>2. PICK u \in Account : (\E i \in Invite : TakeSeat(i, u)) \/ UNCHANGED <<invites, role, seated>>
    BY <1>13 DEF RegisterAccount
  <2>3. CASE UNCHANGED <<invites, role, seated>>
    BY <1>3, <2>1, <2>3 DEF tables
  <2>4. ASSUME NEW i \in Invite, TakeSeat(i, u) PROVE OrgsTyped'
    BY <1>11, <2>1, <2>4
  <2>5. QED
    BY <2>2, <2>3, <2>4
<1>14. ASSUME NEW q \in OrgSlot, TurnVisibility(q) PROVE OrgsTyped'
  BY <1>1, <1>14 DEF TurnVisibility, OrgsTyped
<1>15. ASSUME NEW q \in OrgSlot, ChangeComputer(q) PROVE OrgsTyped'
  <2>1. computers' \subseteq Computer
    BY <1>1, <1>2, <1>15 DEF ChangeComputer, FitOrgRequest
  <2>2. QED
    BY <1>1, <1>15, <2>1 DEF ChangeComputer, OrgsTyped
<1>16. ASSUME NEW q \in OrgSlot, ChangeAgent(q) PROVE OrgsTyped'
  <2> DEFINE r == orgReq[q]
  <2>1. UNCHANGED <<lastOrg, orgs, ownerId, isPublic, role, invites, computers, defaultOrg, seated>>
    BY <1>16 DEF ChangeAgent
  <2>2. CASE /\ r.computer \in computers
             /\ orgAgents' = [orgAgents EXCEPT ![r.agent] =
                  [keeper |-> r.computer[1], org |-> r.computer[2], computer |-> r.computer]]
    <3>1. r.computer \in Computer
      BY <1>1, <2>2
    <3> HIDE DEF r
    <3>2. [keeper |-> r.computer[1], org |-> r.computer[2], computer |-> r.computer] \in OrgAgentRow
      BY <3>1 DEF Computer, OrgAgentRow
    <3>3. QED
      BY <1>1, <2>1, <2>2, <3>2 DEF OrgsTyped
  <2>3. CASE /\ Lives(r.agent) /\ r.home \in orgs /\ r.computer \in computers \cup {Nothing}
             /\ orgAgents' = [orgAgents EXCEPT ![r.agent] =
                                [@ EXCEPT !.org = r.home, !.computer = r.computer]]
    <3> HIDE DEF r
    <3>1. r.home \in Org /\ r.computer \in Computer \cup {Nothing}
      BY <1>1, <2>3 DEF Org
    <3>2. orgAgents' \in [OrgAgent -> OrgAgentRow \cup {Nothing}]
      <4>1. CASE r.agent \in OrgAgent
        <5>1. [orgAgents[r.agent] EXCEPT !.org = r.home, !.computer = r.computer] \in OrgAgentRow
          BY <1>1, <2>3, <3>1, <4>1 DEF OrgAgentRow, Lives
        <5>2. QED
          BY <1>1, <2>3, <5>1
      <4>2. CASE r.agent \notin OrgAgent
        BY <1>1, <2>3, <4>2
      <4>3. QED
        BY <4>1, <4>2
    <3>3. QED
      BY <1>1, <2>1, <3>2 DEF OrgsTyped
  <2>4. QED
    BY <1>16, <2>2, <2>3 DEF ChangeAgent
<1>17. ASSUME NEW q \in OrgSlot, DeleteOrg(q) PROVE OrgsTyped'
  <2> DEFINE r == orgReq[q]
             gone == IF r.op = "delete" THEN {c \in computers : c[2] = r.org} ELSE {}
  <2>1. /\ orgs' = orgs \ {r.org} /\ computers' = computers \ gone
        /\ orgAgents' = [g \in OrgAgent |->
             IF ~Lives(g) THEN orgAgents[g]
             ELSE IF orgAgents[g].org = r.org
             THEN [orgAgents[g] EXCEPT !.org = Nothing, !.computer = Nothing]
             ELSE IF orgAgents[g].computer \in gone THEN [orgAgents[g] EXCEPT !.computer = Nothing]
             ELSE orgAgents[g]]
        /\ role' = [m \in DOMAIN role |-> IF m[2] = r.org THEN "none" ELSE role[m]]
        /\ invites' = [i \in Invite |->
             IF invites[i] # Nothing /\ invites[i].org = r.org THEN Nothing ELSE invites[i]]
        /\ seated' = [i \in Invite |-> IF invites'[i] = Nothing THEN {} ELSE seated[i]]
        /\ UNCHANGED <<lastOrg, ownerId>>
    BY <1>17 DEF DeleteOrg
  <2> HIDE DEF r, gone
  <2>2. role' \in [Account \X Org -> Roles]
    BY <1>1, <2>1 DEF Roles
  <2>3. invites' \in [Invite -> InviteRow \cup {Nothing}] /\ seated' \in [Invite -> SUBSET Account]
    BY <1>1, <2>1
  <2>4. \A i \in Invite : IsFiniteSet(seated'[i])
    BY <1>1, <2>1, FS_EmptySet
  <2>5. orgAgents' \in [OrgAgent -> OrgAgentRow \cup {Nothing}]
    <3>1. \A g \in OrgAgent : Lives(g) =>
            /\ [orgAgents[g] EXCEPT !.org = Nothing, !.computer = Nothing] \in OrgAgentRow
            /\ [orgAgents[g] EXCEPT !.computer = Nothing] \in OrgAgentRow
      BY <1>1 DEF Lives, OrgAgentRow
    <3>2. QED
      BY <1>1, <2>1, <3>1
  <2>6. QED
    BY <1>1, <2>1, <2>2, <2>3, <2>4, <2>5 DEF OrgsTyped
<1>18. QED
  BY <1>3, <1>4, <1>5, <1>6, <1>7, <1>8, <1>9, <1>10, <1>12, <1>13, <1>14, <1>15, <1>16, <1>17
     DEF MembershipNext

\* What a request read of an agent's keeper stays true: an agent's id is used once and its
\* keeper never changes.
LEMMA RequestsFitNext ==
  ASSUME OrgsTyped, RequestsAreFit, [MembershipNext]_orgVars
  PROVE  RequestsAreFit'
<1> DEFINE Carried(r, ags) ==
      /\ r.op \in {"transfer", "promote"} =>
           r.who \in Account /\ r.to \in Account /\ r.org \in Org /\ r.to # r.who
      /\ r.op = "promote" => r.was \in Roles
      /\ r.op = "role" => r.as \in {"member", "admin"}
      /\ r.op = "invite" => r.seats \in 0 .. MaxSeats
      /\ r.op = "accept" => r.to \in Account
      /\ r.op = "visibility" => r.public \in BOOLEAN
      /\ r.op = "ready" => r.computer \in Computer
      /\ r.op \in {"kick", "rehome", "move"} => r.agent \in OrgAgent /\ ags[r.agent] # Nothing
      /\ r.op \in {"kick", "rehome"} => r.keeper = ags[r.agent].keeper
      /\ r.op = "move" /\ r.computer # Nothing =>
           r.computer[1] = ags[r.agent].keeper /\ r.computer[2] = r.home
<1>1. /\ orgs \subseteq Org /\ role \in [Account \X Org -> Roles]
      /\ orgAgents \in [OrgAgent -> OrgAgentRow \cup {Nothing}] /\ computers \subseteq Computer
      /\ Nothing \notin OrgAgentRow
  BY MembershipAssumption DEF OrgsTyped, Org
<1>2. /\ orgReq = [q \in OrgSlot |-> orgReq[q]]
      /\ \A q \in OrgSlot : Carried(orgReq[q], orgAgents)
  BY DEF RequestsAreFit, FitOrgRequest
<1>3. SUFFICES /\ orgReq' = [q \in OrgSlot |-> orgReq'[q]]
               /\ \A q \in OrgSlot : Carried(orgReq'[q], orgAgents')
  BY DEF RequestsAreFit, FitOrgRequest
<1>4. Carried(NoOrgRequest, orgAgents)
  BY DEF NoOrgRequest
<1>5. ASSUME \A g \in OrgAgent : orgAgents[g] # Nothing =>
               orgAgents'[g] # Nothing /\ orgAgents'[g].keeper = orgAgents[g].keeper
      PROVE  \A r : Carried(r, orgAgents) => Carried(r, orgAgents')
  BY <1>5
<1> HIDE DEF Carried
<1> DEFINE Goal == /\ orgReq' = [q \in OrgSlot |-> orgReq'[q]]
                   /\ \A q \in OrgSlot : Carried(orgReq'[q], orgAgents')
<1>6. ASSUME NEW q \in OrgSlot, NEW r, Carried(r, orgAgents), orgAgents' = orgAgents,
             orgReq' = [orgReq EXCEPT ![q] = r]
      PROVE  Goal
  BY <1>2, <1>6
<1>7. ASSUME NEW q \in OrgSlot, Ends(q) \/ orgReq' = orgReq,
             \A r : Carried(r, orgAgents) => Carried(r, orgAgents')
      PROVE  Goal
  BY <1>2, <1>4, <1>7 DEF Ends, Reads
<1>8. ASSUME UNCHANGED <<orgReq, orgAgents>> PROVE Goal
  BY <1>2, <1>8
<1>9. ASSUME NEW q \in OrgSlot, NEW r, Carried(r, orgAgents), orgAgents' = orgAgents,
             AskOrg(q, r) \/ Reads(q, r)
      PROVE  Goal
  BY <1>6, <1>9 DEF AskOrg, Reads
<1> HIDE DEF Goal
<1>10. CASE UNCHANGED orgVars \/ CreateOrg \/ CacheExpires \/ InviteExpires
  BY <1>8, <1>10 DEF orgVars, CreateOrg, CacheExpires, InviteExpires, tables, Goal
<1>11. ASSUME NEW q \in OrgSlot, AskAsOwner(q) PROVE Goal
  <2>1. PICK u \in Account, o \in orgs :
          \/ \E x \in Account \ {u} : AskOrg(q, [op |-> "transfer", who |-> u, org |-> o, to |-> x])
          \/ \E x \in Account, op \in {"add", "remove"} : AskOrg(q, [op |-> op, org |-> o, to |-> x])
          \/ \E x \in Account, as \in {"member", "admin"} :
               AskOrg(q, [op |-> "role", org |-> o, to |-> x, as |-> as])
          \/ \E i \in Invite, n \in 0 .. MaxSeats :
               /\ invites[i] = Nothing
               /\ AskOrg(q, [op |-> "invite", org |-> o, token |-> i, seats |-> n])
          \/ \E i \in Invite : AskOrg(q, [op |-> "revoke", org |-> o, token |-> i])
          \/ \E g \in OrgAgent, c \in computers :
               /\ orgAgents[g] = Nothing /\ c[1] = u /\ c[2] = o
               /\ AskOrg(q, [op |-> "agent", agent |-> g, computer |-> c])
          \/ \E g \in OrgAgent :
               /\ Lives(g) /\ orgAgents[g].org = o
               /\ AskOrg(q, [op |-> "kick", org |-> o, agent |-> g, keeper |-> orgAgents[g].keeper])
    BY <1>11 DEF AskAsOwner
  <2>2. orgAgents' = orgAgents /\ o \in Org
    BY <1>1, <1>11 DEF AskAsOwner, tables
  <2>3. ASSUME NEW x \in Account \ {u}, AskOrg(q, [op |-> "transfer", who |-> u, org |-> o, to |-> x])
        PROVE  Goal
    <3>1. Carried([op |-> "transfer", who |-> u, org |-> o, to |-> x], orgAgents)
      BY <2>2 DEF Carried
    <3>2. QED
      BY <1>9, <2>2, <2>3, <3>1
  <2>4. ASSUME NEW x \in Account, NEW op \in {"add", "remove"},
               AskOrg(q, [op |-> op, org |-> o, to |-> x])
        PROVE  Goal
    <3>1. Carried([op |-> op, org |-> o, to |-> x], orgAgents)
      BY DEF Carried
    <3>2. QED
      BY <1>9, <2>2, <2>4, <3>1
  <2>5. ASSUME NEW x \in Account, NEW as \in {"member", "admin"},
               AskOrg(q, [op |-> "role", org |-> o, to |-> x, as |-> as])
        PROVE  Goal
    <3>1. Carried([op |-> "role", org |-> o, to |-> x, as |-> as], orgAgents)
      BY DEF Carried
    <3>2. QED
      BY <1>9, <2>2, <2>5, <3>1
  <2>6. ASSUME NEW i \in Invite, NEW n \in 0 .. MaxSeats,
               AskOrg(q, [op |-> "invite", org |-> o, token |-> i, seats |-> n])
        PROVE  Goal
    <3>1. Carried([op |-> "invite", org |-> o, token |-> i, seats |-> n], orgAgents)
      BY DEF Carried
    <3>2. QED
      BY <1>9, <2>2, <2>6, <3>1
  <2>7. ASSUME NEW i \in Invite, AskOrg(q, [op |-> "revoke", org |-> o, token |-> i])
        PROVE  Goal
    <3>1. Carried([op |-> "revoke", org |-> o, token |-> i], orgAgents)
      BY DEF Carried
    <3>2. QED
      BY <1>9, <2>2, <2>7, <3>1
  <2>8. ASSUME NEW g \in OrgAgent, NEW c \in computers,
               AskOrg(q, [op |-> "agent", agent |-> g, computer |-> c])
        PROVE  Goal
    <3>1. Carried([op |-> "agent", agent |-> g, computer |-> c], orgAgents)
      BY DEF Carried
    <3>2. QED
      BY <1>9, <2>2, <2>8, <3>1
  <2>9. ASSUME NEW g \in OrgAgent, Lives(g),
               AskOrg(q, [op |-> "kick", org |-> o, agent |-> g, keeper |-> orgAgents[g].keeper])
        PROVE  Goal
    <3>1. Carried([op |-> "kick", org |-> o, agent |-> g, keeper |-> orgAgents[g].keeper], orgAgents)
      BY <2>9 DEF Carried, Lives
    <3>2. QED
      BY <1>9, <2>2, <2>9, <3>1
  <2>10. QED
    BY <2>1, <2>3, <2>4, <2>5, <2>6, <2>7, <2>8, <2>9
<1>12. ASSUME NEW q \in OrgSlot, AskDelete(q) PROVE Goal
  <2>1. PICK o \in orgs : AskOrg(q, [op |-> "delete", org |-> o]) /\ UNCHANGED tables
    BY <1>12 DEF AskDelete
  <2>2. Carried([op |-> "delete", org |-> o], orgAgents)
    BY DEF Carried
  <2>3. QED
    BY <1>9, <2>1, <2>2 DEF tables
<1>13. ASSUME NEW q \in OrgSlot, AskVisibility(q) PROVE Goal
  <2>1. PICK o \in Org, b \in BOOLEAN :
          AskOrg(q, [op |-> "visibility", org |-> o, public |-> b]) /\ UNCHANGED tables
    BY <1>13 DEF AskVisibility
  <2>2. Carried([op |-> "visibility", org |-> o, public |-> b], orgAgents)
    BY DEF Carried
  <2>3. QED
    BY <1>9, <2>1, <2>2 DEF tables
<1>14. ASSUME NEW q \in OrgSlot, AskLeave(q) PROVE Goal
  <2>1. PICK u \in Account, o \in orgs :
          AskOrg(q, [op |-> "leave", org |-> o, to |-> u]) /\ UNCHANGED tables
    BY <1>14 DEF AskLeave
  <2>2. Carried([op |-> "leave", org |-> o, to |-> u], orgAgents)
    BY DEF Carried
  <2>3. QED
    BY <1>9, <2>1, <2>2 DEF tables
<1>15. ASSUME NEW q \in OrgSlot, AskJoin(q) PROVE Goal
  <2>1. PICK u \in Account, o \in orgs :
          /\ \/ AskOrg(q, [op |-> "add", org |-> o, to |-> u])
             \/ \E b \in Box : AskOrg(q, [op |-> "ready", computer |-> <<u, o, b>>])
          /\ UNCHANGED tables
    BY <1>15 DEF AskJoin
  <2>2. Carried([op |-> "add", org |-> o, to |-> u], orgAgents)
    BY DEF Carried
  <2>3. ASSUME NEW b \in Box, AskOrg(q, [op |-> "ready", computer |-> <<u, o, b>>]) PROVE Goal
    <3>1. <<u, o, b>> \in Computer
      BY <1>1 DEF Computer
    <3>2. Carried([op |-> "ready", computer |-> <<u, o, b>>], orgAgents)
      BY <3>1 DEF Carried
    <3>3. QED
      BY <1>9, <2>1, <2>3, <3>2 DEF tables
  <2>4. QED
    BY <1>9, <2>1, <2>2, <2>3 DEF tables
<1>16. ASSUME NEW q \in OrgSlot, AskAccept(q) PROVE Goal
  <2>1. PICK u \in Account, i \in Invite :
          AskOrg(q, [op |-> "accept", token |-> i, to |-> u]) /\ UNCHANGED tables
    BY <1>16 DEF AskAccept
  <2>2. Carried([op |-> "accept", token |-> i, to |-> u], orgAgents)
    BY DEF Carried
  <2>3. QED
    BY <1>9, <2>1, <2>2 DEF tables
<1>17. ASSUME NEW q \in OrgSlot, AskForget(q) PROVE Goal
  <2>1. PICK c \in computers : AskOrg(q, [op |-> "forget", computer |-> c]) /\ UNCHANGED tables
    BY <1>17 DEF AskForget
  <2>2. Carried([op |-> "forget", computer |-> c], orgAgents)
    BY DEF Carried
  <2>3. QED
    BY <1>9, <2>1, <2>2 DEF tables
<1>18. ASSUME NEW q \in OrgSlot, RegisterAccount(q) PROVE Goal
  <2>1. PICK u \in Account : AskOrg(q, [op |-> "add", org |-> Cached, to |-> u])
    BY <1>18 DEF RegisterAccount
  <2>2. Carried([op |-> "add", org |-> Cached, to |-> u], orgAgents)
    BY DEF Carried
  <2>3. QED
    BY <1>9, <1>18, <2>1, <2>2 DEF RegisterAccount
<1>19. ASSUME NEW q \in OrgSlot, ReadTarget(q) PROVE Goal
  <2> DEFINE r == orgReq[q]
             read == [op |-> "promote", who |-> r.who, org |-> r.org, to |-> r.to,
                      was |-> role[<<r.to, r.org>>]]
  <2>1. r.op = "transfer" /\ Reads(q, read) /\ UNCHANGED tables
    BY <1>19 DEF ReadTarget
  <2>2. r.who \in Account /\ r.to \in Account /\ r.org \in Org /\ r.to # r.who
    BY <1>2, <2>1 DEF Carried
  <2>3. role[<<r.to, r.org>>] \in Roles
    BY <1>1, <2>2
  <2>4. Carried(read, orgAgents)
    BY <2>2, <2>3 DEF Carried
  <2> HIDE DEF r, read
  <2>5. QED
    BY <1>9, <2>1, <2>4 DEF tables
<1>20. ASSUME NEW q \in OrgSlot, ReadHome(q) PROVE Goal
  <2> DEFINE r == orgReq[q]
  <2>1. PICK home : /\ r.op = "kick" /\ UNCHANGED tables
                    /\ Reads(q, [op |-> "rehome", agent |-> r.agent, keeper |-> r.keeper, home |-> home])
    BY <1>20 DEF ReadHome
  <2>2. /\ r.agent \in OrgAgent /\ orgAgents[r.agent] # Nothing
        /\ r.keeper = orgAgents[r.agent].keeper
    BY <1>2, <2>1 DEF Carried
  <2>3. Carried([op |-> "rehome", agent |-> r.agent, keeper |-> r.keeper, home |-> home], orgAgents)
    BY <2>2 DEF Carried
  <2> HIDE DEF r
  <2>4. QED
    BY <1>9, <2>1, <2>3 DEF tables
<1>21. ASSUME NEW q \in OrgSlot, ReadMachines(q) PROVE Goal
  <2> DEFINE r == orgReq[q]
             own == OwnMachines(r.keeper, r.home)
             read(c) == [op |-> "move", agent |-> r.agent, home |-> r.home, computer |-> c]
             found == IF Cardinality(own) = 1 THEN CHOOSE c \in own : TRUE ELSE Nothing
  <2>1. r.op = "rehome" /\ UNCHANGED tables /\ Reads(q, read(found))
    BY <1>21 DEF ReadMachines
  <2>2. /\ r.agent \in OrgAgent /\ orgAgents[r.agent] # Nothing
        /\ r.keeper = orgAgents[r.agent].keeper
    BY <1>2, <2>1 DEF Carried
  <2>3. found = Nothing \/ found \in own \/ own = {}
    OBVIOUS
  <2>4. \A c \in own : c[1] = r.keeper /\ c[2] = r.home
    BY DEF OwnMachines
  <2>5. own = {} => found = Nothing
    BY FS_EmptySet
  <2> HIDE DEF r, own, found
  <2>6. Carried(read(found), orgAgents)
    BY <2>2, <2>3, <2>4, <2>5 DEF Carried
  <2> HIDE DEF read
  <2>7. QED
    BY <1>9, <2>1, <2>6 DEF tables
<1>22. ASSUME NEW q \in OrgSlot,
              \/ Promote(q) \/ ChangeMember(q) \/ ChangeInvite(q) \/ AcceptInvite(q)
              \/ TurnVisibility(q) \/ ChangeComputer(q) \/ Fails(q)
       PROVE  Goal
  <2>1. Ends(q) /\ orgAgents' = orgAgents
    BY <1>22 DEF Promote, ChangeMember, ChangeInvite, AcceptInvite, TurnVisibility, ChangeComputer,
                 Fails, MembersOnly, tables
  <2>2. QED
    BY <1>7, <2>1
<1>23. ASSUME NEW q \in OrgSlot, ChangeAgent(q) \/ DeleteOrg(q) PROVE Goal
  <2>1. Ends(q)
    BY <1>23 DEF ChangeAgent, DeleteOrg
  <2>2. \A g \in OrgAgent : orgAgents[g] # Nothing =>
          orgAgents'[g] # Nothing /\ orgAgents'[g].keeper = orgAgents[g].keeper
    <3>0. OrgsTyped'
      BY OrgsTypedNext
    <3>1. CASE ChangeAgent(q)
      <4> DEFINE r == orgReq[q]
      <4>1. CASE /\ orgAgents[r.agent] = Nothing
                 /\ orgAgents' = [orgAgents EXCEPT ![r.agent] =
                      [keeper |-> r.computer[1], org |-> r.computer[2], computer |-> r.computer]]
        <5> HIDE DEF r
        <5>1. QED
          BY <1>1, <4>1
      <4>2. CASE /\ Lives(r.agent) /\ r.home \in orgs /\ r.computer \in computers \cup {Nothing}
                 /\ orgAgents' = [orgAgents EXCEPT ![r.agent] =
                                    [@ EXCEPT !.org = r.home, !.computer = r.computer]]
        <5> HIDE DEF r
        <5>1. r.home \in Org /\ r.computer \in Computer \cup {Nothing}
          BY <1>1, <4>2
        <5>2. \A g \in OrgAgent : orgAgents[g] # Nothing =>
                /\ [orgAgents[g] EXCEPT !.org = r.home, !.computer = r.computer] \in OrgAgentRow
                /\ [orgAgents[g] EXCEPT !.org = r.home, !.computer = r.computer].keeper
                     = orgAgents[g].keeper
          BY <1>1, <5>1 DEF OrgAgentRow
        <5>3. QED
          BY <1>1, <4>2, <5>2
      <4>3. QED
        BY <3>1, <4>1, <4>2 DEF ChangeAgent
    <3>2. CASE DeleteOrg(q)
      <4>1. \A g \in OrgAgent : orgAgents[g] # Nothing =>
              LET a == [orgAgents[g] EXCEPT !.org = Nothing, !.computer = Nothing]
                  b == [orgAgents[g] EXCEPT !.computer = Nothing]
              IN  a \in OrgAgentRow /\ b \in OrgAgentRow /\ a.keeper = orgAgents[g].keeper
                  /\ b.keeper = orgAgents[g].keeper
        BY <1>1 DEF OrgAgentRow
      <4>2. \A g \in OrgAgent :
              orgAgents'[g] \in {orgAgents[g], [orgAgents[g] EXCEPT !.org = Nothing, !.computer = Nothing],
                                 [orgAgents[g] EXCEPT !.computer = Nothing]}
        BY <3>2 DEF DeleteOrg
      <4>3. QED
        BY <1>1, <4>1, <4>2
    <3>3. QED
      BY <1>23, <3>1, <3>2
  <2>3. QED
    BY <1>5, <1>7, <2>1, <2>2
<1>24. QED
  BY <1>10, <1>11, <1>12, <1>13, <1>14, <1>15, <1>16, <1>17, <1>18, <1>19, <1>20, <1>21, <1>22, <1>23
     DEF MembershipNext, Goal

\* A seat is looked at and taken in one statement.
LEMMA SeatsNext ==
  ASSUME OrgsTyped, RequestsAreFit, SeatsInv, [MembershipNext]_orgVars
  PROVE  SeatsInv'
<1>1. /\ invites \in [Invite -> InviteRow \cup {Nothing}] /\ Nothing \notin InviteRow
      /\ seated \in [Invite -> SUBSET Account] /\ \A i \in Invite : IsFiniteSet(seated[i])
      /\ MaxSeats \in Nat
  BY MembershipAssumption DEF OrgsTyped
<1>2. \A i \in Invite :
        /\ invites[i] # Nothing => /\ Cardinality(seated[i]) <= invites[i].uses
                                   /\ invites[i].seats # 0 => invites[i].uses <= invites[i].seats
        /\ invites[i] = Nothing => seated[i] = {}
  BY DEF SeatsInv, SeatsAreCounted
<1>3. ASSUME UNCHANGED <<invites, seated>> PROVE SeatsInv'
  BY <1>3 DEF SeatsInv, SeatsAreCounted
<1>4. ASSUME NEW i, invites' = [invites EXCEPT ![i].open = FALSE], invites[i] # Nothing, seated' = seated
      PROVE  SeatsInv'
  <2>1. CASE i \in Invite
    <3>1. /\ invites'[i].uses = invites[i].uses /\ invites'[i].seats = invites[i].seats
          /\ invites'[i] # Nothing
      BY <1>1, <1>4, <2>1 DEF InviteRow
    <3>2. \A j \in Invite : j # i => invites'[j] = invites[j]
      BY <1>1, <1>4
    <3>3. QED
      BY <1>2, <1>4, <2>1, <3>1, <3>2 DEF SeatsInv, SeatsAreCounted
  <2>2. CASE i \notin Invite
    <3>1. invites' = invites
      BY <1>1, <1>4, <2>2
    <3>2. QED
      BY <1>3, <1>4, <3>1
  <2>3. QED
    BY <2>1, <2>2
<1>5. ASSUME NEW i, NEW u \in Account, TakeSeat(i, u) PROVE SeatsInv'
  <2>1. /\ invites[i] # Nothing /\ (invites[i].seats = 0 \/ invites[i].uses < invites[i].seats)
        /\ invites' = [invites EXCEPT ![i].uses = @ + 1]
        /\ \/ seated' = [seated EXCEPT ![i] = @ \cup {u}]
           \/ seated' = seated
    <3>1. seated' = seated \/ seated' = [seated EXCEPT ![i] = @ \cup {u}]
      BY <1>1, <1>5 DEF TakeSeat
    <3>2. QED
      BY <1>5, <3>1 DEF TakeSeat, HasSeat
  <2>2. CASE i \in Invite
    <3>1. invites[i] \in InviteRow
      BY <1>1, <2>1, <2>2
    <3>2. /\ invites'[i].uses = invites[i].uses + 1 /\ invites'[i].seats = invites[i].seats
          /\ invites[i].uses \in Nat /\ invites[i].seats \in Nat /\ invites'[i] # Nothing
      <4>1. [invites[i] EXCEPT !.uses = @ + 1] \in InviteRow
        BY <3>1 DEF InviteRow
      <4>2. QED
        BY <1>1, <2>1, <2>2, <3>1, <4>1 DEF InviteRow
    <3>3. \A j \in Invite : j # i => invites'[j] = invites[j] /\ seated'[j] = seated[j]
      BY <1>1, <2>1
    <3>4. /\ Cardinality(seated[i]) \in Nat /\ Cardinality(seated[i] \cup {u}) \in Nat
          /\ Cardinality(seated[i] \cup {u}) <= Cardinality(seated[i]) + 1
      <4>1. PICK S : S = seated[i]
        OBVIOUS
      <4>2. IsFiniteSet(S)
        BY <1>1, <2>2, <4>1
      <4>3. /\ IsFiniteSet(S \cup {u})
            /\ Cardinality(S \cup {u}) = IF u \in S THEN Cardinality(S) ELSE Cardinality(S) + 1
        BY <4>2, FS_AddElement
      <4>4. Cardinality(S) \in Nat
        BY <4>2, FS_CardinalityType
      <4>5. Cardinality(S \cup {u}) \in Nat
        BY <4>3, FS_CardinalityType
      <4>6. QED
        BY <4>1, <4>3, <4>4, <4>5
    <3>5. Cardinality(seated'[i]) <= invites'[i].uses
      <4>1. seated'[i] \in {seated[i], seated[i] \cup {u}}
        BY <1>1, <2>1, <2>2
      <4>2. Cardinality(seated[i]) <= invites[i].uses
        BY <1>2, <2>1, <2>2
      <4>3. CASE seated'[i] = seated[i]
        BY <3>2, <3>4, <4>2, <4>3
      <4>4. CASE seated'[i] = seated[i] \cup {u}
        BY <3>2, <3>4, <4>2, <4>4
      <4>5. QED
        BY <4>1, <4>3, <4>4
    <3>6. invites'[i].seats # 0 => invites'[i].uses <= invites'[i].seats
      BY <2>1, <3>2
    <3>7. QED
      BY <1>2, <3>2, <3>3, <3>5, <3>6 DEF SeatsInv, SeatsAreCounted
  <2>3. CASE i \notin Invite
    <3>1. invites' = invites /\ seated' = seated
      BY <1>1, <2>1, <2>3
    <3>2. QED
      BY <1>3, <3>1
  <2>4. QED
    BY <2>2, <2>3
<1>6. CASE UNCHANGED orgVars \/ CreateOrg \/ CacheExpires
  BY <1>3, <1>6 DEF orgVars, CreateOrg, CacheExpires, tables
<1>7. CASE InviteExpires
  <2>1. PICK i \in Invite : /\ invites[i] # Nothing /\ invites' = [invites EXCEPT ![i].open = FALSE]
                            /\ seated' = seated
    BY <1>7 DEF InviteExpires
  <2>2. QED
    BY <1>4, <2>1
<1>8. ASSUME NEW q \in OrgSlot,
             \/ AskAsOwner(q) \/ AskDelete(q) \/ AskVisibility(q) \/ AskLeave(q) \/ AskJoin(q)
             \/ AskAccept(q) \/ AskForget(q) \/ ReadTarget(q) \/ ReadHome(q) \/ ReadMachines(q)
             \/ Fails(q)
      PROVE  UNCHANGED tables
  BY <1>8 DEF AskAsOwner, AskDelete, AskVisibility, AskLeave, AskJoin, AskAccept, AskForget,
              ReadTarget, ReadHome, ReadMachines, Fails
<1>9. ASSUME NEW q \in OrgSlot,
             \/ Promote(q) \/ ChangeMember(q) \/ TurnVisibility(q) \/ ChangeComputer(q) \/ ChangeAgent(q)
      PROVE  SeatsInv'
  BY <1>3, <1>9 DEF Promote, ChangeMember, TurnVisibility, ChangeComputer, ChangeAgent
<1>10. ASSUME NEW q \in OrgSlot, ChangeInvite(q) PROVE SeatsInv'
  <2> DEFINE r == orgReq[q]
  <2>1. seated' = seated
    BY <1>10 DEF ChangeInvite
  <2>2. CASE /\ r.op = "invite" /\ invites[r.token] = Nothing
             /\ invites' = [invites EXCEPT ![r.token] =
                              [org |-> r.org, seats |-> r.seats, uses |-> 0, open |-> TRUE]]
    <3>1. r.seats \in 0 .. MaxSeats
      BY <2>2 DEF RequestsAreFit, FitOrgRequest
    <3> HIDE DEF r
    <3>2. \A j \in Invite : j # r.token => invites'[j] = invites[j]
      BY <1>1, <2>2
    <3>3. r.token \in Invite => /\ invites'[r.token].uses = 0 /\ invites'[r.token].seats = r.seats
                                /\ Cardinality(seated[r.token]) = 0 /\ seated[r.token] = {}
      BY <1>1, <1>2, <2>2, FS_EmptySet
    <3>4. QED
      BY <1>2, <2>1, <3>1, <3>2, <3>3 DEF SeatsInv, SeatsAreCounted
  <2>3. CASE invites[r.token] # Nothing /\ invites' = [invites EXCEPT ![r.token].open = FALSE]
    BY <1>4, <2>1, <2>3
  <2>4. QED
    BY <1>10, <2>2, <2>3 DEF ChangeInvite
<1>11. ASSUME NEW q \in OrgSlot, AcceptInvite(q) PROVE SeatsInv'
  <2>1. orgReq[q].to \in Account
    BY <1>11 DEF RequestsAreFit, FitOrgRequest, AcceptInvite
  <2>2. QED
    BY <1>5, <1>11, <2>1 DEF AcceptInvite
<1>12. ASSUME NEW q \in OrgSlot, RegisterAccount(q) PROVE SeatsInv'
  <2>1. PICK u \in Account : (\E i \in Invite : TakeSeat(i, u)) \/ UNCHANGED <<invites, role, seated>>
    BY <1>12 DEF RegisterAccount
  <2>2. QED
    BY <1>3, <1>5, <2>1
<1>13. ASSUME NEW q \in OrgSlot, DeleteOrg(q) PROVE SeatsInv'
  <2>1. /\ \A i \in Invite : invites'[i] \in {invites[i], Nothing}
        /\ \A i \in Invite : seated'[i] = IF invites'[i] = Nothing THEN {} ELSE seated[i]
    BY <1>13 DEF DeleteOrg
  <2>2. QED
    BY <1>2, <2>1 DEF SeatsInv, SeatsAreCounted
<1>14. QED
  BY <1>3, <1>6, <1>7, <1>8, <1>9, <1>10, <1>11, <1>12, <1>13 DEF MembershipNext, tables

\* An agent is written with the machine it is bound to, and a machine that goes is bound to
\* none or lets go of them in the same transaction.
LEMMA HomesNext ==
  ASSUME OrgsTyped, RequestsAreFit, HomesInv, [MembershipNext]_orgVars
  PROVE  HomesInv'
<1>1. /\ orgs \subseteq Org /\ lastOrg \in Nat /\ orgs \subseteq 1 .. lastOrg
      /\ orgAgents \in [OrgAgent -> OrgAgentRow \cup {Nothing}] /\ computers \subseteq Computer
      /\ Nothing \notin OrgAgentRow /\ Nothing \notin Org
  BY MembershipAssumption DEF OrgsTyped, Org
<1>2. /\ \A c \in computers : c[2] \in orgs
      /\ \A g \in OrgAgent : Lives(g) =>
           /\ orgAgents[g].org \in orgs
           /\ orgAgents[g].computer # Nothing =>
                /\ orgAgents[g].computer \in computers
                /\ orgAgents[g].computer[1] = orgAgents[g].keeper
                /\ orgAgents[g].computer[2] = orgAgents[g].org
  BY DEF HomesInv, AgentsAreAtHome, OwnMachines
<1>3. ASSUME UNCHANGED <<orgs, orgAgents, computers>> PROVE HomesInv'
  BY <1>3 DEF HomesInv, AgentsAreAtHome, OwnMachines, Lives
<1>4. ASSUME \A c \in computers' : c[2] \in orgs',
             \A g \in OrgAgent : Lives(g)' =>
               /\ orgAgents'[g].org \in orgs'
               /\ orgAgents'[g].computer # Nothing =>
                    /\ orgAgents'[g].computer \in computers'
                    /\ orgAgents'[g].computer[1] = orgAgents'[g].keeper
                    /\ orgAgents'[g].computer[2] = orgAgents'[g].org
      PROVE  HomesInv'
  BY <1>4 DEF HomesInv, AgentsAreAtHome, OwnMachines
<1>5. CASE UNCHANGED orgVars \/ CacheExpires \/ InviteExpires
  BY <1>3, <1>5 DEF orgVars, CacheExpires, InviteExpires, tables
<1>6. ASSUME NEW q \in OrgSlot,
             \/ AskAsOwner(q) \/ AskDelete(q) \/ AskVisibility(q) \/ AskLeave(q) \/ AskJoin(q)
             \/ AskAccept(q) \/ AskForget(q) \/ ReadTarget(q) \/ ReadHome(q) \/ ReadMachines(q)
             \/ Fails(q)
      PROVE  UNCHANGED tables
  BY <1>6 DEF AskAsOwner, AskDelete, AskVisibility, AskLeave, AskJoin, AskAccept, AskForget,
              ReadTarget, ReadHome, ReadMachines, Fails
<1>7. ASSUME NEW q \in OrgSlot,
             \/ Promote(q) \/ ChangeMember(q) \/ ChangeInvite(q) \/ AcceptInvite(q)
             \/ TurnVisibility(q) \/ RegisterAccount(q)
      PROVE  HomesInv'
  BY <1>3, <1>7 DEF Promote, ChangeMember, ChangeInvite, AcceptInvite, TurnVisibility,
                    RegisterAccount, MembersOnly
<1>8. CASE CreateOrg
  <2>1. orgs \subseteq orgs' /\ UNCHANGED <<orgAgents, computers>>
    BY <1>8 DEF CreateOrg
  <2>2. QED
    BY <1>2, <1>4, <2>1 DEF Lives
<1>9. ASSUME NEW q \in OrgSlot, ChangeComputer(q) PROVE HomesInv'
  <2> DEFINE r == orgReq[q]
  <2>1. UNCHANGED <<orgs, orgAgents>>
    BY <1>9 DEF ChangeComputer
  <2>2. CASE r.computer[2] \in orgs /\ computers' = computers \cup {r.computer}
    BY <1>2, <1>4, <2>1, <2>2 DEF Lives
  <2>3. CASE BoundTo(r.computer) = {} /\ computers' = computers \ {r.computer}
    BY <1>2, <1>4, <2>1, <2>3 DEF Lives, BoundTo
  <2>4. QED
    BY <1>9, <2>2, <2>3 DEF ChangeComputer
<1>10. ASSUME NEW q \in OrgSlot, ChangeAgent(q) PROVE HomesInv'
  <2> DEFINE r == orgReq[q]
  <2>1. UNCHANGED <<orgs, computers>>
    BY <1>10 DEF ChangeAgent
  <2>2. CASE /\ r.computer \in computers
             /\ orgAgents' = [orgAgents EXCEPT ![r.agent] =
                  [keeper |-> r.computer[1], org |-> r.computer[2], computer |-> r.computer]]
    <3> HIDE DEF r
    <3>1. \A g \in OrgAgent : g # r.agent => orgAgents'[g] = orgAgents[g]
      BY <1>1, <2>2
    <3>2. r.agent \in OrgAgent => /\ orgAgents'[r.agent].org = r.computer[2]
                                  /\ orgAgents'[r.agent].keeper = r.computer[1]
                                  /\ orgAgents'[r.agent].computer = r.computer
      BY <1>1, <2>2
    <3>3. QED
      BY <1>2, <1>4, <2>1, <2>2, <3>1, <3>2 DEF Lives
  <2>3. CASE /\ r.op = "move"
             /\ Lives(r.agent) /\ r.home \in orgs /\ r.computer \in computers \cup {Nothing}
             /\ orgAgents' = [orgAgents EXCEPT ![r.agent] =
                                [@ EXCEPT !.org = r.home, !.computer = r.computer]]
    <3>1. /\ r.agent \in OrgAgent
          /\ r.computer # Nothing => r.computer[1] = orgAgents[r.agent].keeper /\ r.computer[2] = r.home
      BY <2>3 DEF RequestsAreFit, FitOrgRequest
    <3> HIDE DEF r
    <3>2. \A g \in OrgAgent : g # r.agent => orgAgents'[g] = orgAgents[g]
      BY <1>1, <2>3
    <3>3. /\ orgAgents'[r.agent].org = r.home
          /\ orgAgents'[r.agent].keeper = orgAgents[r.agent].keeper
          /\ orgAgents'[r.agent].computer = r.computer
      BY <1>1, <2>3, <3>1 DEF OrgAgentRow, Lives
    <3>4. QED
      BY <1>2, <1>4, <2>1, <2>3, <3>1, <3>2, <3>3 DEF Lives
  <2>4. QED
    BY <1>10, <2>2, <2>3 DEF ChangeAgent
<1>11. ASSUME NEW q \in OrgSlot, DeleteOrg(q) PROVE HomesInv'
  <2>1. PICK o : o = orgReq[q].org
    OBVIOUS
  <2>2. PICK gone : gone = {c \in computers : c[2] = o}
    OBVIOUS
  <2>3. /\ orgs' = orgs \ {o} /\ computers' = computers \ gone
        /\ orgAgents' = [g \in OrgAgent |->
             IF ~Lives(g) THEN orgAgents[g]
             ELSE IF orgAgents[g].org = o
             THEN [orgAgents[g] EXCEPT !.org = Nothing, !.computer = Nothing]
             ELSE IF orgAgents[g].computer \in gone THEN [orgAgents[g] EXCEPT !.computer = Nothing]
             ELSE orgAgents[g]]
    BY <1>11, <2>1, <2>2 DEF DeleteOrg
  <2>4. \A g \in OrgAgent : Lives(g)' => Lives(g) /\ orgAgents[g].org # o /\ orgAgents'[g] = orgAgents[g]
    <3>1. SUFFICES ASSUME NEW g \in OrgAgent, orgAgents'[g] # Nothing, orgAgents'[g].org # Nothing
                   PROVE  Lives(g) /\ orgAgents[g].org # o /\ orgAgents'[g] = orgAgents[g]
      BY DEF Lives
    <3>2. Lives(g)
      BY <2>3, <3>1 DEF Lives
    <3>3. orgAgents[g] \in OrgAgentRow
      BY <1>1, <3>2 DEF Lives
    <3>4. [orgAgents[g] EXCEPT !.org = Nothing, !.computer = Nothing].org = Nothing
      BY <3>3 DEF OrgAgentRow
    <3>5. orgAgents[g].org # o
      BY <2>3, <3>1, <3>2, <3>4
    <3>6. orgAgents[g].computer \notin gone \/ orgAgents[g].computer = Nothing
      BY <1>2, <2>2, <3>2, <3>5
    <3>7. orgAgents[g].computer = Nothing => [orgAgents[g] EXCEPT !.computer = Nothing] = orgAgents[g]
      BY <3>3 DEF OrgAgentRow
    <3>8. QED
      BY <2>3, <3>2, <3>5, <3>6, <3>7
  <2>5. \A c \in computers' : c[2] \in orgs'
    BY <1>2, <2>2, <2>3
  <2>6. ASSUME NEW g \in OrgAgent, Lives(g)'
        PROVE  /\ orgAgents'[g].org \in orgs'
               /\ orgAgents'[g].computer # Nothing =>
                    /\ orgAgents'[g].computer \in computers'
                    /\ orgAgents'[g].computer[1] = orgAgents'[g].keeper
                    /\ orgAgents'[g].computer[2] = orgAgents'[g].org
    <3>1. Lives(g) /\ orgAgents[g].org # o /\ orgAgents'[g] = orgAgents[g]
      BY <2>4, <2>6
    <3>2. PICK a : a = orgAgents[g]
      OBVIOUS
    <3>3. /\ a.org \in orgs /\ a.org # o
          /\ a.computer # Nothing => /\ a.computer \in computers /\ a.computer[1] = a.keeper
                                     /\ a.computer[2] = a.org
      BY <1>2, <3>1, <3>2
    <3>4. a.computer # Nothing => a.computer \notin gone
      BY <2>2, <3>3
    <3>5. orgAgents'[g] = a
      BY <3>1, <3>2
    <3>6. a.org \in orgs'
      BY <2>3, <3>3
    <3>7. a.computer # Nothing => a.computer \in computers'
      BY <2>3, <3>3, <3>4
    <3>8. QED
      BY <3>3, <3>5, <3>6, <3>7
  <2>7. QED
    BY <1>4, <2>5, <2>6
<1>12. QED
  BY <1>3, <1>5, <1>6, <1>7, <1>8, <1>9, <1>10, <1>11 DEF MembershipNext, tables

\* The inductive invariant of orgs, invites, agents and machines holds throughout.
THEOREM OrgsInvariantHolds == MembershipSpec => []OrgsInv
<1>1. OrgsInv /\ [MembershipNext]_orgVars => OrgsInv'
  BY OrgsTypedNext, RequestsFitNext, SeatsNext, HomesNext DEF OrgsInv
<1>2. QED
  BY OrgsStart, <1>1, PTL DEF MembershipSpec

\* Whatever requests meet between their queries: an invite seats no more accounts than it
\* has seats, and an agent that lives is in an org that exists, bound to no machine but its
\* keeper's in that org.
THEOREM MembershipStaysSound == MembershipSpec => []MembershipIsSound
<1>1. OrgsInv => MembershipIsSound
  BY DEF OrgsInv, SeatsInv, HomesInv, MembershipIsSound
<1>2. QED
  BY OrgsInvariantHolds, <1>1, PTL

\* A handover writes an owner row for somebody who has a row, or it does not happen.
THEOREM HandoversReachAMember == MembershipSpec => HandoverReachesAMember
<1> DEFINE Handed == \A o \in orgs \cap orgs' : ownerId'[o] # ownerId[o] =>
                       role[<<ownerId'[o], o>>] # "none" /\ role'[<<ownerId'[o], o>>] = "owner"
<1>1. OrgsInv /\ [MembershipNext]_orgVars => [Handed]_orgVars
  <2> SUFFICES ASSUME OrgsInv, MembershipNext, NEW o \in orgs \cap orgs', ownerId'[o] # ownerId[o]
               PROVE  role[<<ownerId'[o], o>>] # "none" /\ role'[<<ownerId'[o], o>>] = "owner"
    BY DEF Handed
  <2>1. /\ lastOrg \in Nat /\ orgs \subseteq 1 .. lastOrg /\ orgs \subseteq Org
        /\ ownerId \in [Org -> Account] /\ role \in [Account \X Org -> Roles]
    BY MembershipAssumption DEF OrgsInv, OrgsTyped, Org
  <2>2. ~ CreateOrg
    <3>1. CreateOrg => ownerId'[o] = ownerId[o]
      BY <2>1 DEF CreateOrg
    <3>2. QED
      BY <3>1
  <2>3. PICK q \in OrgSlot : Promote(q)
    <3>1. UNCHANGED ownerId => FALSE
      OBVIOUS
    <3>2. ASSUME NEW q \in OrgSlot,
                 \/ AskAsOwner(q) \/ AskDelete(q) \/ AskVisibility(q) \/ AskLeave(q) \/ AskJoin(q)
                 \/ AskAccept(q) \/ AskForget(q) \/ ReadTarget(q) \/ ReadHome(q) \/ ReadMachines(q)
                 \/ Fails(q) \/ RegisterAccount(q) \/ ChangeMember(q) \/ ChangeInvite(q)
                 \/ AcceptInvite(q) \/ TurnVisibility(q) \/ ChangeComputer(q) \/ ChangeAgent(q)
                 \/ DeleteOrg(q)
          PROVE  UNCHANGED ownerId
      BY <3>2 DEF AskAsOwner, AskDelete, AskVisibility, AskLeave, AskJoin, AskAccept, AskForget,
                  ReadTarget, ReadHome, ReadMachines, Fails, RegisterAccount, ChangeMember,
                  ChangeInvite, AcceptInvite, TurnVisibility, ChangeComputer, ChangeAgent, DeleteOrg,
                  tables
    <3>3. CacheExpires \/ InviteExpires => UNCHANGED ownerId
      BY DEF CacheExpires, InviteExpires, tables
    <3>4. QED
      BY <2>2, <3>1, <3>2, <3>3 DEF MembershipNext
  <2> DEFINE r == orgReq[q]
  <2>4. /\ r.op = "promote" /\ role[<<r.to, r.org>>] # "none"
        /\ ownerId' = [ownerId EXCEPT ![r.org] = r.to]
        /\ role' = [m \in DOMAIN role |->
                      IF m = <<r.to, r.org>> THEN "owner"
                      ELSE IF m = <<r.who, r.org>> /\ role[m] = "owner"
                      THEN IF r.was = "owner" THEN "member" ELSE r.was
                      ELSE role[m]]
    BY <2>3 DEF Promote
  <2>5. r.to \in Account /\ r.org \in Org
    BY <2>4 DEF OrgsInv, RequestsAreFit, FitOrgRequest
  <2> HIDE DEF r
  <2>6. o = r.org /\ ownerId'[o] = r.to
    BY <2>1, <2>4, <2>5
  <2>7. QED
    BY <2>1, <2>4, <2>5, <2>6
<1>2. QED
  BY OrgsInvariantHolds, <1>1, PTL DEF MembershipSpec, HandoverReachesAMember, Handed

-----------------------------------------------------------------------------
(* The daemons' connections                                                  *)

\* The handlers are functions from one table to the next, so the invariant is a
\* predicate of a table and each handler is shown to keep it.

\* a slot holds the connection whose key it is, and has metadata; an empty one has none
SlotsAgree(h) ==
  \A k \in Key :
    IF h.slot[k] = NoOne THEN h.metaAt[k] = NoOne
    ELSE /\ h.slot[k] \in h.registered /\ h.keyOf[h.slot[k]] = k /\ h.metaAt[k] # NoOne

\* a connection's key is its own until its ready frame, then that of its machine, and
\* none once it closed; whoever is open is in the slot of its key
KeysAgree(h) ==
  \A c \in Conn :
    /\ h.sock[c] = "none" => c \notin h.early /\ c \notin h.registered
    /\ h.keyOf[c] \in {NoOne, c, h.machine[c]}
    /\ h.keyOf[c] = h.machine[c] => c \in h.early
    /\ c \notin h.registered => h.keyOf[c] = NoOne
    /\ c \in h.registered /\ h.sock[c] # "closed" => h.keyOf[c] # NoOne
    /\ c \in h.registered /\ h.sock[c] = "open" => h.slot[h.keyOf[c]] = c

\* the metadata object i was made by the ready frame of a daemon of machine m, and says
\* which server it is for
MadeBy(h, i, m) ==
  \E d \in h.registered \cap h.early :
    i = <<d, "ready">> /\ h.machine[d] = m /\ h.metaScope[i] \in Scope

\* metadata in a machine's slot, or being checked, was made by a ready frame of the machine
MetasAgree(h) ==
  /\ \A c \in Conn : h.metaAt[c] \in {NoOne, <<c, "pending">>}
  /\ \A m \in Machine : h.metaAt[m] # NoOne => MadeBy(h, h.metaAt[m], m)
  /\ \A pair \in h.checking :
       pair[1] \in h.registered /\ MadeBy(h, pair[2], h.machine[pair[1]])

\* what a metadata object is present as; a machine in its slot is
MembersAgree(h) ==
  /\ \A c \in Conn :
       /\ h.member[<<c, "ready">>] \in {NoOne, <<h.machine[c], h.metaScope[<<c, "ready">>]>>}
       /\ h.member[<<c, "ready">>] # NoOne => c \in h.registered \cap h.early
       /\ h.member[<<c, "pending">>] = NoOne
            \/ \E s \in Scope : h.member[<<c, "pending">>] = <<"pending", s>>
  /\ \A m \in Machine :
       h.slot[m] # NoOne /\ h.member[h.metaAt[m]] # NoOne => h.member[h.metaAt[m]] \in h.presence

HubFits(h) ==
  h \in HubType /\ SlotsAgree(h) /\ KeysAgree(h) /\ MetasAgree(h) /\ MembersAgree(h)

\* No connection, no slot.
LEMMA HubStart == HubInit => HubFits(hub)
<1> SUFFICES ASSUME HubInit PROVE HubFits(hub)
  OBVIOUS
<1>1. hub \in HubType
  <2>1. (CHOOSE m \in Machine : TRUE) \in Machine /\ (CHOOSE s \in Scope : TRUE) \in Scope
    BY HubAssumption
  <2>2. QED
    BY <2>1 DEF HubInit, HubType
<1>2. SlotsAgree(hub)
  BY DEF HubInit, SlotsAgree
<1>3. KeysAgree(hub)
  <2>1. (CHOOSE m \in Machine : TRUE) # NoOne
    BY HubAssumption
  <2>2. QED
    BY <2>1 DEF HubInit, KeysAgree
<1>4. MetasAgree(hub)
  BY DEF HubInit, MetasAgree, Key
<1>5. MembersAgree(hub)
  BY DEF HubInit, MembersAgree, MetaId, Key
<1>6. QED
  BY <1>1, <1>2, <1>3, <1>4, <1>5 DEF HubFits

\* Who made a metadata object is not forgotten.
LEMMA MadeByIsKept ==
  ASSUME NEW h, NEW g, NEW i, NEW m, MadeBy(h, i, m),
         h.registered \subseteq g.registered, h.early \subseteq g.early,
         \A d \in h.registered : g.machine[d] = h.machine[d],
         h.metaScope[i] \in Scope => g.metaScope[i] \in Scope
  PROVE  MadeBy(g, i, m)
  BY DEF MadeBy

\* Telling a connection to close changes nothing else.
OnlyClosed(h, c, g) ==
  /\ g \in HubType
  /\ \A d \in Conn : g.sock[d] = IF d = c /\ h.sock[d] = "open" THEN "closing" ELSE h.sock[d]
  /\ g.machine = h.machine /\ g.scope = h.scope /\ g.early = h.early
  /\ g.registered = h.registered /\ g.slot = h.slot /\ g.keyOf = h.keyOf
  /\ g.metaAt = h.metaAt /\ g.metaScope = h.metaScope /\ g.member = h.member
  /\ g.checking = h.checking /\ g.presence = h.presence

LEMMA ClosingFacts ==
  ASSUME NEW h \in HubType, NEW c \in Conn
  PROVE  OnlyClosed(h, c, Closing(h, c))
  BY DEF Closing, HubType, OnlyClosed

\* A connection told to close is in the way of nothing.
LEMMA ClosingKeeps ==
  ASSUME NEW h, HubFits(h), NEW c \in Conn
  PROVE  HubFits(Closing(h, c))
<1> DEFINE g == Closing(h, c)
<1>1. h \in HubType
  BY DEF HubFits
<1>2. /\ g \in HubType
      /\ \A d \in Conn : g.sock[d] = IF d = c /\ h.sock[d] = "open" THEN "closing" ELSE h.sock[d]
      /\ g.machine = h.machine /\ g.early = h.early
      /\ g.registered = h.registered /\ g.slot = h.slot /\ g.keyOf = h.keyOf
      /\ g.metaAt = h.metaAt /\ g.metaScope = h.metaScope /\ g.member = h.member
      /\ g.checking = h.checking /\ g.presence = h.presence
  BY <1>1, ClosingFacts DEF OnlyClosed
<1> HIDE DEF g
<1>3. SlotsAgree(g) /\ MembersAgree(g)
  BY <1>2 DEF HubFits, SlotsAgree, MembersAgree
<1>6. MetasAgree(g)
  <2>1. MetasAgree(h)
    BY DEF HubFits
  <2>2. \A i, m : MadeBy(h, i, m) => MadeBy(g, i, m)
    BY <1>2, MadeByIsKept
  <2>3. QED
    BY <1>2, <2>1, <2>2 DEF MetasAgree
<1>4. KeysAgree(g)
  BY <1>2 DEF HubFits, KeysAgree
<1>5. QED
  BY <1>2, <1>3, <1>4, <1>6 DEF HubFits, g

\* A connection that is registered has a slot of its own.
LEMMA RegisterKeeps ==
  ASSUME NEW h, HubFits(h), NEW c \in Conn, c \notin h.registered, h.sock[c] # "none"
  PROVE  /\ HubFits(Register(h, c)) /\ Register(h, c).keyOf[c] = c
         /\ c \in Register(h, c).registered /\ Register(h, c).early = h.early
         /\ Register(h, c).member[<<c, "ready">>] = NoOne
<1> DEFINE g == Register(h, c)
           p == <<"pending", h.scope[c]>>
<1>1. h \in HubType /\ <<c, "pending">> \in MetaId /\ c \in Key /\ h.scope[c] \in Scope
  BY DEF HubFits, HubType, MetaId, Key
<1>2. p \in PresenceMember
  BY <1>1 DEF PresenceMember
<1>3. /\ g.sock = h.sock /\ g.machine = h.machine /\ g.scope = h.scope /\ g.early = h.early
      /\ g.checking = h.checking /\ g.registered = h.registered \cup {c}
      /\ g.slot = [h.slot EXCEPT ![c] = c] /\ g.keyOf = [h.keyOf EXCEPT ![c] = c]
      /\ g.metaAt = [h.metaAt EXCEPT ![c] = <<c, "pending">>]
      /\ g.metaScope = [h.metaScope EXCEPT ![<<c, "pending">>] = h.scope[c]]
      /\ g.member = [h.member EXCEPT ![<<c, "pending">>] = p]
      /\ g.presence = h.presence \cup {p}
  BY <1>1 DEF Register, HubType
<1>4. g \in HubType
  <2> DEFINE a == [h EXCEPT !.registered = @ \cup {c}, !.slot[c] = c, !.keyOf[c] = c]
             b == [a EXCEPT !.metaAt[c] = <<c, "pending">>, !.metaScope[<<c, "pending">>] = h.scope[c]]
  <2>1. a \in HubType
    BY <1>1 DEF HubType
  <2>2. g = [b EXCEPT !.member[<<c, "pending">>] = p, !.presence = @ \cup {p}]
    BY Zenon DEF Register
  <2> HIDE DEF a, g, p
  <2>3. b \in HubType
    BY <1>1, <2>1 DEF HubType
  <2> HIDE DEF b
  <2>4. QED
    BY <1>1, <1>2, <2>2, <2>3 DEF HubType
<1>5. /\ h.slot \in [Key -> Conn \cup {NoOne}] /\ h.keyOf \in [Conn -> Key \cup {NoOne}]
      /\ h.metaAt \in [Key -> MetaId \cup {NoOne}] /\ h.metaScope \in [MetaId -> Scope \cup {NoOne}]
      /\ h.member \in [MetaId -> PresenceMember \cup {NoOne}]
      /\ h.machine \in [Conn -> Machine]
  BY <1>1 DEF HubType
<1> HIDE DEF g
<1>6. /\ \A k \in Key : k # c => g.slot[k] = h.slot[k] /\ g.metaAt[k] = h.metaAt[k]
      /\ \A d \in Conn : d # c => g.keyOf[d] = h.keyOf[d]
      /\ g.slot[c] = c /\ g.keyOf[c] = c /\ g.metaAt[c] = <<c, "pending">>
      /\ \A d \in Conn : g.member[<<d, "ready">>] = h.member[<<d, "ready">>]
      /\ \A d \in Conn : g.metaScope[<<d, "ready">>] = h.metaScope[<<d, "ready">>]
      /\ \A d \in Conn : d # c => g.member[<<d, "pending">>] = h.member[<<d, "pending">>]
      /\ g.member[<<c, "pending">>] = p
  BY <1>1, <1>3, <1>5 DEF MetaId
<1>7. NoOne \notin Conn /\ <<c, "pending">> # NoOne /\ Conn \cap Machine = {} /\ NoOne \notin Machine
  BY <1>1, HubAssumption
<1>8. \A d \in Conn : h.keyOf[d] = c => d = c
  BY <1>5, <1>7 DEF HubFits, KeysAgree
<1>9. SlotsAgree(g)
  <2>1. \A k \in Key : h.slot[k] # c
    BY <1>7 DEF HubFits, SlotsAgree
  <2>2. QED
    BY <1>3, <1>5, <1>6, <1>7, <2>1 DEF HubFits, SlotsAgree
<1>10. KeysAgree(g)
  <2>1. \A d \in Conn : d # c => h.keyOf[d] # c
    BY <1>8
  <2>2. ASSUME NEW d \in Conn, d # c
        PROVE  h.keyOf[d] # NoOne => g.slot[h.keyOf[d]] = h.slot[h.keyOf[d]]
    BY <1>5, <1>6, <2>1, <2>2
  <2>3. QED
    BY <1>3, <1>5, <1>6, <1>7, <2>2 DEF HubFits, KeysAgree
<1>11. MetasAgree(g)
  <2>1. \A d \in Conn : g.metaAt[d] \in {NoOne, <<d, "pending">>}
    BY <1>6 DEF HubFits, MetasAgree, Key
  <2>2. \A i, m : MadeBy(h, i, m) => MadeBy(g, i, m)
    <3>1. SUFFICES ASSUME NEW i, NEW m, MadeBy(h, i, m) PROVE MadeBy(g, i, m)
      OBVIOUS
    <3>2. PICK d \in Conn : i = <<d, "ready">>
      BY <1>1, <3>1 DEF MadeBy, HubType
    <3>3. g.metaScope[i] = h.metaScope[i]
      BY <1>6, <3>2
    <3>4. QED
      BY <1>3, <3>1, <3>3, MadeByIsKept
  <2>3. \A m \in Machine : g.metaAt[m] = h.metaAt[m]
    BY <1>6, <1>7 DEF Key
  <2>4. MetasAgree(h)
    BY DEF HubFits
  <2>5. QED
    BY <1>3, <2>1, <2>2, <2>3, <2>4 DEF MetasAgree
<1>12. MembersAgree(g)
  <2>1. \A d \in Conn :
          /\ g.member[<<d, "ready">>] \in {NoOne, <<g.machine[d], g.metaScope[<<d, "ready">>]>>}
          /\ g.member[<<d, "ready">>] # NoOne => d \in g.registered \cap g.early
    BY <1>3, <1>6 DEF HubFits, MembersAgree
  <2>4. \A d \in Conn : g.member[<<d, "pending">>] = NoOne
          \/ \E s \in Scope : g.member[<<d, "pending">>] = <<"pending", s>>
    <3>1. \E s \in Scope : g.member[<<c, "pending">>] = <<"pending", s>>
      BY <1>1, <1>6
    <3>2. ASSUME NEW d \in Conn, d # c
          PROVE  g.member[<<d, "pending">>] = h.member[<<d, "pending">>]
      BY <1>6, <3>2
    <3>3. QED
      BY <3>1, <3>2 DEF HubFits, MembersAgree
  <2>2. ASSUME NEW m \in Machine, g.slot[m] # NoOne, g.member[g.metaAt[m]] # NoOne
        PROVE  g.member[g.metaAt[m]] \in g.presence
    <3>1. m \in Key /\ m # c
      BY <1>7 DEF Key
    <3>2. g.slot[m] = h.slot[m] /\ g.metaAt[m] = h.metaAt[m]
      BY <1>6, <3>1
    <3>3. h.metaAt[m] # NoOne
      BY <2>2, <3>1, <3>2 DEF HubFits, SlotsAgree
    <3>4. PICK d \in Conn : h.metaAt[m] = <<d, "ready">>
      BY <1>1, <3>3 DEF HubFits, MetasAgree, MadeBy, HubType
    <3>5. g.member[g.metaAt[m]] = h.member[h.metaAt[m]]
      BY <1>6, <3>2, <3>4
    <3>6. QED
      BY <1>3, <2>2, <3>2, <3>5 DEF HubFits, MembersAgree
  <2>3. QED
    BY <2>1, <2>2, <2>4 DEF MembersAgree
<1>13. h.member[<<c, "ready">>] = NoOne
  BY DEF HubFits, MembersAgree
<1>14. QED
  BY <1>3, <1>4, <1>6, <1>9, <1>10, <1>11, <1>12, <1>13 DEF HubFits, g

\* A connection whose ready frame is handled takes over the slot of its machine, and
\* whoever held it is told to close.
LEMMA ReadyKeeps ==
  ASSUME NEW h, HubFits(h), NEW c \in h.registered \cap h.early, h.keyOf[c] = c,
         h.member[<<c, "ready">>] = NoOne
  PROVE  HubFits(Ready(h, c))
<1> DEFINE m == h.machine[c]
           i == <<c, "ready">>
           closed == IF h.slot[m] = NoOne THEN h ELSE Closing(h, h.slot[m])
           taken == TakeSlot(h, c)
           g == Ready(h, c)
<1>1. /\ h \in HubType /\ c \in Conn /\ m \in Machine /\ m \in Key /\ c \in Key /\ m # c
      /\ i \in MetaId /\ i # NoOne /\ m # NoOne
  BY HubAssumption DEF HubFits, HubType, Key, MetaId
<1>2. /\ closed \in HubType
      /\ closed.slot = h.slot /\ closed.keyOf = h.keyOf /\ closed.metaAt = h.metaAt
      /\ closed.machine = h.machine /\ closed.scope = h.scope /\ closed.early = h.early
      /\ closed.registered = h.registered /\ closed.metaScope = h.metaScope
      /\ closed.member = h.member /\ closed.checking = h.checking
      /\ closed.presence = h.presence
      /\ \A d \in Conn : closed.sock[d] = IF d = h.slot[m] /\ h.sock[d] = "open" THEN "closing"
                                          ELSE h.sock[d]
  <2>1. CASE h.slot[m] = NoOne
    BY <1>1, <2>1, HubAssumption
  <2>2. CASE h.slot[m] # NoOne
    <3>1. PICK prev \in Conn : prev = h.slot[m] /\ closed = Closing(h, prev)
      BY <1>1, <2>2 DEF HubType
    <3> HIDE DEF closed, m
    <3>2. QED
      BY <1>1, <3>1, ClosingFacts DEF OnlyClosed
  <2>3. QED
    BY <2>1, <2>2
<1>3. taken = [closed EXCEPT !.slot = [k \in Key |-> IF k = m THEN c
                                          ELSE IF k = c THEN NoOne ELSE h.slot[k]],
                             !.metaAt[c] = NoOne, !.keyOf[c] = m]
  BY <1>1 DEF TakeSlot
<1> HIDE DEF closed, taken, m, i
<1>4. /\ taken \in HubType
      /\ taken.slot = [k \in Key |-> IF k = m THEN c ELSE IF k = c THEN NoOne ELSE h.slot[k]]
      /\ taken.metaAt = [h.metaAt EXCEPT ![c] = NoOne] /\ taken.keyOf = [h.keyOf EXCEPT ![c] = m]
      /\ taken.sock = closed.sock /\ taken.machine = h.machine /\ taken.scope = h.scope
      /\ taken.early = h.early /\ taken.registered = h.registered
      /\ taken.metaScope = h.metaScope /\ taken.member = h.member
      /\ taken.checking = h.checking /\ taken.presence = h.presence
  <2>1. [k \in Key |-> IF k = m THEN c ELSE IF k = c THEN NoOne ELSE h.slot[k]]
          \in [Key -> Conn \cup {NoOne}]
    BY <1>1 DEF HubType
  <2>2. taken \in HubType
    BY <1>1, <1>2, <1>3, <2>1 DEF HubType
  <2>3. /\ taken.slot = [k \in Key |-> IF k = m THEN c ELSE IF k = c THEN NoOne ELSE h.slot[k]]
        /\ taken.metaAt = [h.metaAt EXCEPT ![c] = NoOne] /\ taken.keyOf = [h.keyOf EXCEPT ![c] = m]
    BY <1>2, <1>3 DEF HubType
  <2>4. /\ taken.sock = closed.sock /\ taken.machine = closed.machine /\ taken.scope = closed.scope
        /\ taken.early = closed.early /\ taken.registered = closed.registered
        /\ taken.metaScope = closed.metaScope /\ taken.member = closed.member
        /\ taken.checking = closed.checking /\ taken.presence = closed.presence
    BY <1>2, <1>3 DEF HubType
  <2>5. QED
    BY <1>2, <2>2, <2>3, <2>4
<1>5. /\ h.slot \in [Key -> Conn \cup {NoOne}] /\ h.keyOf \in [Conn -> Key \cup {NoOne}]
      /\ h.metaAt \in [Key -> MetaId \cup {NoOne}] /\ h.metaScope \in [MetaId -> Scope \cup {NoOne}]
      /\ h.machine \in [Conn -> Machine] /\ h.scope \in [Conn -> Scope]
      /\ h.registered \subseteq Conn /\ h.early \subseteq Conn
  BY <1>1 DEF HubType
<1>6. taken.metaAt[m] = h.metaAt[m]
  BY <1>1, <1>4, <1>5
<1>7. /\ g \in HubType /\ g.slot = taken.slot /\ g.keyOf = taken.keyOf /\ g.sock = taken.sock
      /\ g.machine = h.machine /\ g.early = h.early /\ g.registered = h.registered
      /\ g.member = h.member /\ g.presence = h.presence
      /\ \A k \in Key \ {m} : g.metaAt[k] = taken.metaAt[k]
      /\ g.metaAt[m] = IF h.metaAt[m] # NoOne THEN h.metaAt[m] ELSE i
      /\ g.checking = h.checking \cup {<<c, g.metaAt[m]>>}
      /\ \A j \in MetaId : g.metaScope[j] = h.metaScope[j] \/ (j = i /\ g.metaScope[i] \in Scope)
      /\ h.metaAt[m] = NoOne => g.metaScope[i] \in Scope
  <2>1. CASE h.metaAt[m] # NoOne
    <3>1. g = [taken EXCEPT !.checking = @ \cup {<<c, h.metaAt[m]>>}]
      BY <1>6, <2>1 DEF Ready, taken, m
    <3>2. <<c, h.metaAt[m]>> \in Conn \X MetaId
      BY <1>1, <1>5, <2>1
    <3> HIDE DEF g
    <3>3. QED
      BY <1>4, <1>6, <2>1, <3>1, <3>2 DEF HubType
  <2>2. CASE h.metaAt[m] = NoOne
    <3>1. g = [taken EXCEPT !.metaAt[m] = i, !.metaScope[i] = h.scope[c],
                            !.checking = @ \cup {<<c, i>>}]
      BY <1>6, <2>2 DEF Ready, taken, m, i
    <3>2. <<c, i>> \in Conn \X MetaId /\ h.scope[c] \in Scope
      BY <1>1, <1>5
    <3> HIDE DEF g
    <3>3. g \in HubType
      BY <1>1, <1>4, <3>1, <3>2 DEF HubType
    <3>4. QED
      BY <1>1, <1>4, <2>2, <3>1, <3>3 DEF HubType
  <2>3. QED
    BY <2>1, <2>2
<1> HIDE DEF g
<1>8. /\ \A k \in Key : g.slot[k] = IF k = m THEN c ELSE IF k = c THEN NoOne ELSE h.slot[k]
      /\ \A d \in Conn : g.keyOf[d] = IF d = c THEN m ELSE h.keyOf[d]
      /\ \A k \in Key : g.metaAt[k] = IF k = m THEN IF h.metaAt[m] # NoOne THEN h.metaAt[m] ELSE i
                                      ELSE IF k = c THEN NoOne ELSE h.metaAt[k]
  BY <1>1, <1>4, <1>5, <1>7
<1>9. \A d \in Conn : g.sock[d] = IF d = h.slot[m] /\ h.sock[d] = "open" THEN "closing" ELSE h.sock[d]
  BY <1>2, <1>4, <1>7
<1>10. NoOne \notin Conn /\ Conn \cap Machine = {} /\ NoOne \notin Machine
  BY HubAssumption
<1>11. SlotsAgree(g)
  BY <1>1, <1>5, <1>7, <1>8, <1>10 DEF HubFits, SlotsAgree
<1>12. KeysAgree(g)
  <2> SUFFICES ASSUME NEW d \in Conn
               PROVE  /\ g.sock[d] = "none" => d \notin g.early /\ d \notin g.registered
                      /\ g.keyOf[d] \in {NoOne, d, g.machine[d]}
                      /\ g.keyOf[d] = g.machine[d] => d \in g.early
                      /\ d \notin g.registered => g.keyOf[d] = NoOne
                      /\ d \in g.registered /\ g.sock[d] # "closed" => g.keyOf[d] # NoOne
                      /\ d \in g.registered /\ g.sock[d] = "open" => g.slot[g.keyOf[d]] = d
    BY DEF KeysAgree
  <2>1. CASE d = c
    BY <1>1, <1>5, <1>7, <1>8, <1>9, <2>1 DEF HubFits, KeysAgree, m
  <2>2. CASE d # c
    <3>1. ASSUME d \in g.registered, g.sock[d] = "open"
          PROVE  g.slot[g.keyOf[d]] = d
      <4>1. /\ h.sock[d] = "open" /\ d # h.slot[m] /\ h.keyOf[d] # NoOne /\ h.keyOf[d] \in Key
            /\ h.slot[h.keyOf[d]] = d /\ h.keyOf[d] \in {d, h.machine[d]} /\ h.machine[d] \in Machine
        BY <1>5, <1>7, <1>9, <3>1 DEF HubFits, KeysAgree
      <4>2. h.keyOf[d] # m /\ h.keyOf[d] # c
        BY <1>1, <1>10, <2>2, <4>1
      <4>3. QED
        BY <1>8, <2>2, <4>1, <4>2
    <3>2. QED
      BY <1>5, <1>7, <1>8, <1>9, <2>2, <3>1 DEF HubFits, KeysAgree
  <2>3. QED
    BY <2>1, <2>2
<1>13. MetasAgree(g)
  <2>1. \A d \in Conn : g.metaAt[d] \in {NoOne, <<d, "pending">>}
    BY <1>1, <1>8, <1>10 DEF HubFits, MetasAgree, Key
  <2>2. \A j, n : MadeBy(h, j, n) => MadeBy(g, j, n)
    <3>1. SUFFICES ASSUME NEW j, NEW n, MadeBy(h, j, n) PROVE MadeBy(g, j, n)
      OBVIOUS
    <3>2. j \in MetaId
      BY <1>5, <3>1 DEF MadeBy, MetaId
    <3>3. h.metaScope[j] \in Scope => g.metaScope[j] \in Scope
      BY <1>7, <3>2
    <3>4. QED
      BY <1>7, <3>1, <3>3, MadeByIsKept
  <2>3. MetasAgree(h)
    BY DEF HubFits
  <2>4. MadeBy(g, g.metaAt[m], m)
    <3>1. CASE h.metaAt[m] # NoOne
      BY <1>1, <1>7, <2>2, <2>3, <3>1 DEF MetasAgree
    <3>2. CASE h.metaAt[m] = NoOne
      BY <1>1, <1>7, <3>2 DEF MadeBy, m, i
    <3>3. QED
      BY <3>1, <3>2
  <2>5. ASSUME NEW n \in Machine, g.metaAt[n] # NoOne
        PROVE  MadeBy(g, g.metaAt[n], n)
    <3>1. n # m => g.metaAt[n] = h.metaAt[n]
      BY <1>1, <1>8, <1>10 DEF Key
    <3>2. QED
      BY <2>2, <2>3, <2>4, <2>5, <3>1 DEF MetasAgree
  <2>6. ASSUME NEW pair \in g.checking
        PROVE  pair[1] \in g.registered /\ MadeBy(g, pair[2], g.machine[pair[1]])
    <3>1. CASE pair = <<c, g.metaAt[m]>>
      BY <1>7, <2>4, <3>1 DEF m
    <3>2. CASE pair \in h.checking
      BY <1>7, <2>2, <2>3, <3>2 DEF MetasAgree
    <3>3. QED
      BY <1>7, <2>6, <3>1, <3>2
  <2>7. QED
    BY <2>1, <2>5, <2>6 DEF MetasAgree
<1>14. MembersAgree(g)
  <2>1. ASSUME NEW d \in Conn
        PROVE  /\ g.member[<<d, "ready">>] \in {NoOne, <<g.machine[d], g.metaScope[<<d, "ready">>]>>}
               /\ g.member[<<d, "ready">>] # NoOne => d \in g.registered \cap g.early
    <3>1. d # c => g.metaScope[<<d, "ready">>] = h.metaScope[<<d, "ready">>]
      BY <1>7 DEF i, MetaId
    <3>2. QED
      BY <1>7, <3>1 DEF HubFits, MembersAgree
  <2>2. \A d \in Conn : g.member[<<d, "pending">>] = NoOne
          \/ \E s \in Scope : g.member[<<d, "pending">>] = <<"pending", s>>
    BY <1>7 DEF HubFits, MembersAgree
  <2>3. ASSUME NEW n \in Machine, g.slot[n] # NoOne, g.member[g.metaAt[n]] # NoOne
        PROVE  g.member[g.metaAt[n]] \in g.presence
    <3>1. n \in Key /\ n # c
      BY <1>1, <1>10 DEF Key
    <3>2. CASE h.metaAt[n] # NoOne
      <4>1. h.slot[n] # NoOne /\ g.metaAt[n] = h.metaAt[n]
        BY <1>8, <3>1, <3>2 DEF HubFits, SlotsAgree
      <4>2. QED
        BY <1>7, <2>3, <4>1 DEF HubFits, MembersAgree
    <3>3. CASE h.metaAt[n] = NoOne
      <4>1. n = m
        BY <1>8, <2>3, <3>1, <3>3 DEF HubFits, SlotsAgree
      <4>2. g.member[g.metaAt[n]] = NoOne
        BY <1>7, <3>3, <4>1 DEF i
      <4>3. QED
        BY <2>3, <4>2
    <3>4. QED
      BY <3>2, <3>3
  <2>4. QED
    BY <2>1, <2>2, <2>3 DEF MembersAgree
<1>15. QED
  BY <1>7, <1>11, <1>12, <1>13, <1>14 DEF HubFits, g

\* A connection that opens before it is registered, or closes, is in the way of nothing.
LEMMA SockKeeps ==
  ASSUME NEW h, HubFits(h), NEW c \in Conn, NEW x \in {"open", "closed"},
         x = "closed" \/ c \notin h.registered
  PROVE  HubFits([h EXCEPT !.sock[c] = x])
<1> DEFINE g == [h EXCEPT !.sock[c] = x]
<1>1. h \in HubType
  BY DEF HubFits
<1>2. g \in HubType
  BY <1>1 DEF HubType
<1>3. /\ \A d \in Conn : g.sock[d] = IF d = c THEN x ELSE h.sock[d]
      /\ g.machine = h.machine /\ g.early = h.early
      /\ g.registered = h.registered /\ g.slot = h.slot /\ g.keyOf = h.keyOf
      /\ g.metaAt = h.metaAt /\ g.metaScope = h.metaScope /\ g.member = h.member
      /\ g.checking = h.checking /\ g.presence = h.presence
  BY <1>1 DEF HubType
<1> HIDE DEF g
<1>4. SlotsAgree(g) /\ MembersAgree(g)
  BY <1>3 DEF HubFits, SlotsAgree, MembersAgree
<1>5. KeysAgree(g)
  BY <1>3 DEF HubFits, KeysAgree
<1>6. MetasAgree(g)
  <2>1. MetasAgree(h)
    BY DEF HubFits
  <2>2. \A i, m : MadeBy(h, i, m) => MadeBy(g, i, m)
    BY <1>3, MadeByIsKept
  <2>3. QED
    BY <1>3, <2>1, <2>2 DEF MetasAgree
<1>7. QED
  BY <1>2, <1>4, <1>5, <1>6 DEF HubFits, g

\* So is one whose ready frame waits for its identity.
LEMMA EarlyKeeps ==
  ASSUME NEW h, HubFits(h), NEW c \in Conn, h.sock[c] # "none"
  PROVE  HubFits([h EXCEPT !.early = @ \cup {c}])
<1> DEFINE g == [h EXCEPT !.early = @ \cup {c}]
<1>1. h \in HubType
  BY DEF HubFits
<1>2. g \in HubType
  BY <1>1 DEF HubType
<1>3. /\ g.early = h.early \cup {c}
      /\ g.sock = h.sock /\ g.machine = h.machine
      /\ g.registered = h.registered /\ g.slot = h.slot /\ g.keyOf = h.keyOf
      /\ g.metaAt = h.metaAt /\ g.metaScope = h.metaScope /\ g.member = h.member
      /\ g.checking = h.checking /\ g.presence = h.presence
  BY <1>1 DEF HubType
<1> HIDE DEF g
<1>4. SlotsAgree(g) /\ MembersAgree(g)
  BY <1>3 DEF HubFits, SlotsAgree, MembersAgree
<1>5. KeysAgree(g)
  BY <1>3 DEF HubFits, KeysAgree
<1>6. MetasAgree(g)
  <2>1. MetasAgree(h)
    BY DEF HubFits
  <2>2. \A i, m : MadeBy(h, i, m) => MadeBy(g, i, m)
    BY <1>3, MadeByIsKept
  <2>3. QED
    BY <1>3, <2>1, <2>2 DEF MetasAgree
<1>7. QED
  BY <1>2, <1>4, <1>5, <1>6 DEF HubFits, g

\* A check that is answered is no longer pending.
LEMMA AnsweredKeeps ==
  ASSUME NEW h, HubFits(h), NEW pair \in h.checking
  PROVE  HubFits([h EXCEPT !.checking = @ \ {pair}])
<1> DEFINE g == [h EXCEPT !.checking = @ \ {pair}]
<1>1. h \in HubType
  BY DEF HubFits
<1>2. g \in HubType
  BY <1>1 DEF HubType
<1>3. /\ g.checking = h.checking \ {pair}
      /\ g.sock = h.sock /\ g.machine = h.machine /\ g.early = h.early
      /\ g.registered = h.registered /\ g.slot = h.slot /\ g.keyOf = h.keyOf
      /\ g.metaAt = h.metaAt /\ g.metaScope = h.metaScope /\ g.member = h.member
      /\ g.presence = h.presence
  BY <1>1 DEF HubType
<1> HIDE DEF g
<1>4. SlotsAgree(g) /\ MembersAgree(g)
  BY <1>3 DEF HubFits, SlotsAgree, MembersAgree
<1>5. KeysAgree(g)
  BY <1>3 DEF HubFits, KeysAgree
<1>6. MetasAgree(g)
  <2>1. MetasAgree(h)
    BY DEF HubFits
  <2>2. \A i, m : MadeBy(h, i, m) => MadeBy(g, i, m)
    BY <1>3, MadeByIsKept
  <2>3. QED
    BY <1>3, <2>1, <2>2 DEF MetasAgree
<1>7. QED
  BY <1>2, <1>4, <1>5, <1>6 DEF HubFits, g

\* A machine that is found present takes nobody's presence away.
LEMMA EnlistKeeps ==
  ASSUME NEW h, HubFits(h), NEW c \in h.registered, NEW i, MadeBy(h, i, h.machine[c])
  PROVE  HubFits(Enlist(h, c, i))
<1> DEFINE new == <<h.machine[c], h.metaScope[i]>>
           g == Enlist(h, c, i)
<1>1. PICK d \in h.registered \cap h.early :
        i = <<d, "ready">> /\ h.machine[d] = h.machine[c] /\ h.metaScope[i] \in Scope
  BY DEF MadeBy
<1>2. /\ h \in HubType /\ c \in Conn /\ d \in Conn /\ i \in MetaId
      /\ h.member \in [MetaId -> PresenceMember \cup {NoOne}]
      /\ h.presence \subseteq PresenceMember /\ h.metaAt \in [Key -> MetaId \cup {NoOne}]
  BY <1>1 DEF HubFits, HubType, MetaId
<1>3. new \in PresenceMember /\ new # NoOne
  BY <1>1, <1>2, HubAssumption DEF PresenceMember, HubType
<1>4. h.member[i] \in {NoOne, new}
  BY <1>1, <1>2 DEF HubFits, MembersAgree
<1>5. SUFFICES ASSUME h.member[i] = NoOne PROVE HubFits(g)
  BY <1>4 DEF Enlist
<1>6. g = [h EXCEPT !.member[i] = new, !.presence = (@ \ {NoOne}) \cup {new}]
  BY <1>3, <1>5 DEF Enlist
<1> HIDE DEF new, g
<1>7. g \in HubType
  BY <1>2, <1>3, <1>6 DEF HubType
<1>8. /\ g.sock = h.sock /\ g.machine = h.machine /\ g.early = h.early
      /\ g.registered = h.registered /\ g.slot = h.slot /\ g.keyOf = h.keyOf
      /\ g.metaAt = h.metaAt /\ g.metaScope = h.metaScope /\ g.checking = h.checking
      /\ g.member = [h.member EXCEPT ![i] = new]
      /\ g.presence = (h.presence \ {NoOne}) \cup {new}
  BY <1>2, <1>6 DEF HubType
<1>9. /\ g.member[i] = new /\ new \in g.presence
      /\ \A j \in MetaId : j # i => g.member[j] = h.member[j]
      /\ h.presence \subseteq g.presence
  BY <1>2, <1>8, HubAssumption
<1>10. SlotsAgree(g)
  BY <1>8 DEF HubFits, SlotsAgree
<1>11. KeysAgree(g)
  BY <1>8 DEF HubFits, KeysAgree
<1>12. MetasAgree(g)
  <2>1. MetasAgree(h)
    BY DEF HubFits
  <2>2. \A j, m : MadeBy(h, j, m) => MadeBy(g, j, m)
    BY <1>8, MadeByIsKept
  <2>3. QED
    BY <1>8, <2>1, <2>2 DEF MetasAgree
<1>13. MembersAgree(g)
  <2>1. ASSUME NEW e \in Conn
        PROVE  /\ g.member[<<e, "ready">>] \in {NoOne, <<g.machine[e], g.metaScope[<<e, "ready">>]>>}
               /\ g.member[<<e, "ready">>] # NoOne => e \in g.registered \cap g.early
    <3>1. CASE e = d
      BY <1>1, <1>8, <1>9, <3>1 DEF new
    <3>2. CASE e # d
      <4>1. g.member[<<e, "ready">>] = h.member[<<e, "ready">>]
        BY <1>1, <1>9, <3>2 DEF MetaId
      <4>2. QED
        BY <1>8, <4>1 DEF HubFits, MembersAgree
    <3>3. QED
      BY <3>1, <3>2
  <2>2. ASSUME NEW e \in Conn
        PROVE  g.member[<<e, "pending">>] = NoOne
                 \/ \E s \in Scope : g.member[<<e, "pending">>] = <<"pending", s>>
    <3>1. g.member[<<e, "pending">>] = h.member[<<e, "pending">>]
      BY <1>1, <1>9 DEF MetaId
    <3>2. QED
      BY <3>1 DEF HubFits, MembersAgree
  <2>3. ASSUME NEW m \in Machine, g.slot[m] # NoOne, g.member[g.metaAt[m]] # NoOne
        PROVE  g.member[g.metaAt[m]] \in g.presence
    <3>1. h.metaAt[m] \in MetaId
      BY <1>2, <1>8, <2>3 DEF HubFits, SlotsAgree, Key
    <3>2. QED
      BY <1>8, <1>9, <2>3, <3>1 DEF HubFits, MembersAgree
  <2>4. QED
    BY <2>1, <2>2, <2>3 DEF MembersAgree
<1>14. QED
  BY <1>7, <1>10, <1>11, <1>12, <1>13 DEF HubFits

\* A close event frees the slot of the connection it is for, and the presence that went
\* with it; that of another connection it leaves alone.
LEMMA OnCloseKeeps ==
  ASSUME NEW h, HubFits(h), NEW c \in h.registered, h.sock[c] = "closed"
  PROVE  HubFits(OnClose(h, c))
<1> DEFINE key == h.keyOf[c]
           g == OnClose(h, c)
           freed == key # NoOne /\ h.slot[key] = c
           gone == h.member[h.metaAt[key]]
<1>1. /\ h \in HubType /\ c \in Conn /\ key \in Key \cup {NoOne}
      /\ h.slot \in [Key -> Conn \cup {NoOne}] /\ h.keyOf \in [Conn -> Key \cup {NoOne}]
      /\ h.metaAt \in [Key -> MetaId \cup {NoOne}] /\ h.machine \in [Conn -> Machine]
  BY DEF HubFits, HubType
<1>2. /\ g \in HubType
      /\ g.sock = h.sock /\ g.machine = h.machine /\ g.early = h.early
      /\ g.registered = h.registered /\ g.metaScope = h.metaScope
      /\ g.member = h.member /\ g.checking = h.checking
      /\ \A d \in Conn : g.keyOf[d] = IF d = c THEN NoOne ELSE h.keyOf[d]
      /\ \A k \in Key : g.slot[k] = IF freed /\ k = key THEN NoOne ELSE h.slot[k]
      /\ \A k \in Key : g.metaAt[k] = IF freed /\ k = key THEN NoOne ELSE h.metaAt[k]
      /\ g.presence = IF freed THEN h.presence \ {gone} ELSE h.presence
  <2>1. CASE ~ freed
    <3>1. g = [h EXCEPT !.keyOf[c] = NoOne]
      BY <2>1 DEF OnClose
    <3> HIDE DEF g, freed
    <3>2. g \in HubType
      BY <1>1, <3>1 DEF HubType
    <3>3. QED
      BY <1>1, <2>1, <3>1, <3>2 DEF HubType
  <2>2. CASE freed
    <3>1. g = [h EXCEPT !.keyOf[c] = NoOne, !.slot[key] = NoOne, !.metaAt[key] = NoOne,
                        !.presence = @ \ {gone}]
      BY <2>2 DEF OnClose
    <3>2. key \in Key
      BY <1>1, <2>2
    <3> HIDE DEF g, freed, key, gone
    <3>3. g \in HubType
      BY <1>1, <3>1, <3>2 DEF HubType
    <3>4. QED
      BY <1>1, <2>2, <3>1, <3>2, <3>3 DEF HubType
  <2>3. QED
    BY <2>1, <2>2
<1> HIDE DEF g
<1>3. NoOne \notin Conn /\ Conn \cap Machine = {} /\ NoOne \notin Machine /\ "pending" \notin Machine
  BY HubAssumption
<1>4. SlotsAgree(g)
  BY <1>1, <1>2, <1>3 DEF HubFits, SlotsAgree
<1>5. KeysAgree(g)
  <2>1. ASSUME NEW d \in Conn, d \in g.registered, g.sock[d] = "open"
        PROVE  g.slot[g.keyOf[d]] = d
    <3>1. /\ d # c /\ h.keyOf[d] \in Key /\ h.slot[h.keyOf[d]] = d
      BY <1>1, <1>2, <2>1 DEF HubFits, KeysAgree
    <3>2. QED
      BY <1>2, <3>1
  <2>2. QED
    BY <1>1, <1>2, <1>3, <2>1 DEF HubFits, KeysAgree
<1>6. MetasAgree(g)
  <2>1. MetasAgree(h)
    BY DEF HubFits
  <2>2. \A i, m : MadeBy(h, i, m) => MadeBy(g, i, m)
    BY <1>2, MadeByIsKept
  <2>3. \A k \in Key : g.metaAt[k] \in {h.metaAt[k], NoOne}
    BY <1>2
  <2>4. QED
    BY <1>2, <2>1, <2>2, <2>3 DEF MetasAgree, Key
<1>7. ASSUME freed, NEW m \in Machine, m # key, h.slot[m] # NoOne, h.member[h.metaAt[m]] # NoOne
      PROVE  h.member[h.metaAt[m]] # gone
  <2>1. h.metaAt[m] # NoOne /\ m \in Key
    BY <1>7 DEF HubFits, SlotsAgree, Key
  <2>2. PICK k \in Key : k = key /\ h.slot[k] = c
    BY <1>1, <1>7
  <2>3. h.metaAt[k] # NoOne /\ gone = h.member[h.metaAt[k]] /\ k # m
    BY <1>1, <1>3, <1>7, <2>2 DEF HubFits, SlotsAgree
  <2> HIDE DEF key, gone, freed
  <2>4. PICK d \in Conn : h.metaAt[m] = <<d, "ready">> /\ h.machine[d] = m
    BY <1>1, <2>1 DEF HubFits, MetasAgree, MadeBy, HubType
  <2>5. h.member[h.metaAt[m]][1] = m
    <3>1. h.member[<<d, "ready">>] \in {NoOne, <<h.machine[d], h.metaScope[<<d, "ready">>]>>}
      BY DEF HubFits, MembersAgree
    <3>2. QED
      BY <1>7, <2>4, <3>1
  <2>6. CASE k \in Conn
    <3>1. h.metaAt[k] = <<k, "pending">>
      BY <2>3, <2>6 DEF HubFits, MetasAgree
    <3>2. gone = NoOne \/ gone[1] = "pending"
      <4>1. h.member[<<k, "pending">>] = NoOne
              \/ \E s \in Scope : h.member[<<k, "pending">>] = <<"pending", s>>
        BY <2>6 DEF HubFits, MembersAgree
      <4>2. QED
        BY <2>3, <3>1, <4>1
    <3>3. QED
      BY <1>3, <1>7, <2>5, <3>2
  <2>7. CASE k \in Machine
    <3>1. PICK e \in Conn : h.metaAt[k] = <<e, "ready">> /\ h.machine[e] = k
      BY <1>1, <2>3, <2>7 DEF HubFits, MetasAgree, MadeBy, HubType
    <3>2. gone = NoOne \/ gone[1] = k
      <4>1. h.member[<<e, "ready">>] \in {NoOne, <<h.machine[e], h.metaScope[<<e, "ready">>]>>}
        BY DEF HubFits, MembersAgree
      <4>2. QED
        BY <2>3, <3>1, <4>1
    <3>3. QED
      BY <1>7, <2>3, <2>5, <3>2
  <2>8. QED
    BY <2>6, <2>7 DEF Key
<1>8. MembersAgree(g)
  <2>1. \A d \in Conn :
          /\ g.member[<<d, "ready">>] \in {NoOne, <<g.machine[d], g.metaScope[<<d, "ready">>]>>}
          /\ g.member[<<d, "ready">>] # NoOne => d \in g.registered \cap g.early
    BY <1>2 DEF HubFits, MembersAgree
  <2>4. \A d \in Conn : g.member[<<d, "pending">>] = NoOne
          \/ \E s \in Scope : g.member[<<d, "pending">>] = <<"pending", s>>
    <3>1. g.member = h.member
      BY <1>2
    <3>2. QED
      BY <3>1 DEF HubFits, MembersAgree
  <2>2. ASSUME NEW m \in Machine, g.slot[m] # NoOne, g.member[g.metaAt[m]] # NoOne
        PROVE  g.member[g.metaAt[m]] \in g.presence
    <3>1. /\ m \in Key /\ ~ (freed /\ m = key) /\ h.slot[m] # NoOne
          /\ g.metaAt[m] = h.metaAt[m] /\ h.member[h.metaAt[m]] # NoOne
      BY <1>2, <2>2 DEF Key
    <3> HIDE DEF freed, gone
    <3>2. h.member[h.metaAt[m]] \in h.presence
      BY <3>1 DEF HubFits, MembersAgree
    <3>3. QED
      BY <1>2, <1>7, <3>1, <3>2
  <2>3. QED
    BY <2>1, <2>2, <2>4 DEF MembersAgree
<1>9. QED
  BY <1>2, <1>4, <1>5, <1>6, <1>8 DEF HubFits, g

\* A daemon that dials says which machine it is and which server its token is for.
LEMMA DialKeeps ==
  ASSUME HubFits(hub), NEW c \in Conn, Dial(c)
  PROVE  HubFits(hub')
<1>1. PICK m \in Machine, s \in Scope :
        hub' = [hub EXCEPT !.sock[c] = "dialing", !.machine[c] = m, !.scope[c] = s]
  BY DEF Dial
<1> DEFINE g == [hub EXCEPT !.sock[c] = "dialing", !.machine[c] = m, !.scope[c] = s]
<1>2. hub \in HubType /\ hub.sock[c] = "none"
  BY DEF HubFits, Dial
<1>3. c \notin hub.registered /\ hub.registered \subseteq Conn
  BY <1>2 DEF HubFits, KeysAgree, HubType
<1>4. /\ g \in HubType
      /\ \A d \in Conn : g.sock[d] = IF d = c THEN "dialing" ELSE hub.sock[d]
      /\ \A d \in Conn : g.machine[d] = IF d = c THEN m ELSE hub.machine[d]
  BY <1>2 DEF HubType
<1>5. /\ g.early = hub.early /\ g.registered = hub.registered /\ g.slot = hub.slot
      /\ g.keyOf = hub.keyOf /\ g.metaAt = hub.metaAt /\ g.metaScope = hub.metaScope
      /\ g.member = hub.member /\ g.checking = hub.checking /\ g.presence = hub.presence
  BY <1>2 DEF HubType
<1>6. hub' = g
  BY <1>1
<1> HIDE DEF g
<1>7. SlotsAgree(g)
  BY <1>5 DEF HubFits, SlotsAgree
<1>8. KeysAgree(g)
  <2>1. NoOne \notin Machine
    BY HubAssumption
  <2>2. QED
    BY <1>3, <1>4, <1>5, <2>1 DEF HubFits, KeysAgree
<1>9. MetasAgree(g)
  <2>1. MetasAgree(hub)
    BY DEF HubFits
  <2>2. \A i, n : MadeBy(hub, i, n) => MadeBy(g, i, n)
    BY <1>3, <1>4, <1>5, MadeByIsKept
  <2>3. \A d \in hub.registered : g.machine[d] = hub.machine[d]
    BY <1>3, <1>4
  <2>4. QED
    BY <1>5, <2>1, <2>2, <2>3 DEF MetasAgree
<1>10. MembersAgree(g)
  BY <1>3, <1>4, <1>5 DEF HubFits, MembersAgree
<1>11. QED
  BY <1>4, <1>6, <1>7, <1>8, <1>9, <1>10 DEF HubFits

\* The identity of a connection is resolved, with or without a ready frame that waits.
LEMMA AuthenticatedKeeps ==
  ASSUME HubFits(hub), NEW c \in Conn, Authenticated(c)
  PROVE  HubFits(hub')
<1> DEFINE x == IF hub.sock[c] = "dialing" THEN "open" ELSE hub.sock[c]
           o == [hub EXCEPT !.sock[c] = x]
           h == Register(o, c)
<1>1. hub \in HubType /\ x \in {"open", "closed"} /\ c \notin hub.registered
  BY DEF HubFits, Authenticated
<1>2. o \in HubType /\ o.sock[c] = x /\ o.registered = hub.registered /\ o.early = hub.early
  BY <1>1 DEF HubType
<1>3. hub' = IF c \in hub.early THEN Ready(h, c) ELSE h
  <2>1. [hub EXCEPT !.sock[c] = IF @ = "dialing" THEN "open" ELSE @] = o
    BY <1>1 DEF HubType
  <2> HIDE DEF o
  <2>2. QED
    BY <2>1 DEF Authenticated
<1> HIDE DEF x
<1>4. HubFits(o)
  BY <1>1, SockKeeps
<1> HIDE DEF o
<1>5. /\ HubFits(h) /\ h.keyOf[c] = c /\ c \in h.registered /\ h.early = hub.early
      /\ h.member[<<c, "ready">>] = NoOne
  BY <1>1, <1>2, <1>4, RegisterKeeps
<1> HIDE DEF h
<1>6. QED
  BY <1>3, <1>5, ReadyKeeps

\* A ready frame is handled when the connection is registered and waits when it is not.
LEMMA ReadyArrivesKeeps ==
  ASSUME HubFits(hub), NEW c \in Conn, ReadyArrives(c)
  PROVE  HubFits(hub')
<1> DEFINE h == [hub EXCEPT !.early = @ \cup {c}]
<1>1. /\ hub \in HubType /\ c \notin hub.early /\ hub.sock[c] \notin {"none", "closed"}
      /\ hub' = IF c \in hub.registered THEN Ready(h, c) ELSE h
  BY DEF HubFits, ReadyArrives
<1>2. /\ h.early = hub.early \cup {c} /\ h.registered = hub.registered
      /\ h.keyOf = hub.keyOf /\ h.member = hub.member
  BY <1>1 DEF HubType
<1>3. HubFits(h)
  BY <1>1, EarlyKeeps
<1> HIDE DEF h
<1>4. c \in hub.registered => h.keyOf[c] = c
  BY <1>1, <1>2 DEF HubFits, KeysAgree
<1>5. h.member[<<c, "ready">>] = NoOne
  BY <1>1, <1>2 DEF HubFits, MembersAgree
<1>6. QED
  BY <1>1, <1>2, <1>3, <1>4, <1>5, ReadyKeeps

\* A connection closes.
LEMMA CloseEventKeeps ==
  ASSUME HubFits(hub), NEW c \in Conn, CloseEvent(c)
  PROVE  HubFits(hub')
<1> DEFINE h == [hub EXCEPT !.sock[c] = "closed"]
<1>1. hub \in HubType /\ hub' = IF c \in hub.registered THEN OnClose(h, c) ELSE h
  BY DEF HubFits, CloseEvent
<1>2. h.sock[c] = "closed" /\ h.registered = hub.registered
  BY <1>1 DEF HubType
<1>3. HubFits(h)
  BY SockKeeps
<1> HIDE DEF h
<1>4. QED
  BY <1>1, <1>2, <1>3, OnCloseKeeps

\* The declared name of a server is answered for, or a ping is not.
LEMMA AnswersKeep ==
  ASSUME HubFits(hub), NameAccepted \/ NameRejected \/ \E k \in Key : HeartbeatTimeout(k)
  PROVE  HubFits(hub')
<1>1. hub \in HubType
  BY DEF HubFits
<1>2. ASSUME NEW pair \in hub.checking
      PROVE  LET h == [hub EXCEPT !.checking = @ \ {pair}]
             IN  HubFits(Enlist(h, pair[1], pair[2])) /\ HubFits(Closing(h, pair[1]))
  <2> DEFINE h == [hub EXCEPT !.checking = @ \ {pair}]
  <2>1. HubFits(h)
    BY AnsweredKeeps
  <2>2. /\ h.registered = hub.registered /\ h.early = hub.early /\ h.machine = hub.machine
        /\ h.metaScope = hub.metaScope /\ hub.registered \subseteq Conn
    BY <1>1 DEF HubType
  <2>3. pair[1] \in hub.registered /\ MadeBy(hub, pair[2], hub.machine[pair[1]])
    BY DEF HubFits, MetasAgree
  <2> HIDE DEF h
  <2>4. MadeBy(h, pair[2], h.machine[pair[1]])
    BY <2>2, <2>3, MadeByIsKept
  <2>5. HubFits(Enlist(h, pair[1], pair[2])) /\ HubFits(Closing(h, pair[1]))
    BY <2>1, <2>2, <2>3, <2>4, EnlistKeeps, ClosingKeeps
  <2>6. QED
    BY <2>5 DEF h
<1>3. CASE NameAccepted
  BY <1>2, <1>3 DEF NameAccepted
<1>4. CASE NameRejected
  BY <1>2, <1>4 DEF NameRejected
<1>5. ASSUME NEW k \in Key, HeartbeatTimeout(k) PROVE HubFits(hub')
  <2>1. hub.slot[k] \in Conn /\ hub' = Closing(hub, hub.slot[k])
    BY <1>1, <1>5 DEF HeartbeatTimeout, HubType
  <2>2. QED
    BY <2>1, ClosingKeeps
<1>6. QED
  BY <1>3, <1>4, <1>5

\* The invariant of the table, and the invariant the run checks.
THEOREM HubInvariantHolds == HubSpec => []HubFits(hub)
<1>1. HubFits(hub) /\ [HubNext]_hub => HubFits(hub)'
  <2> SUFFICES ASSUME HubFits(hub), [HubNext]_hub PROVE HubFits(hub')
    OBVIOUS
  <2>1. CASE UNCHANGED hub
    BY <2>1
  <2>2. CASE HubNext
    BY <2>2, DialKeeps, ReadyArrivesKeeps, AuthenticatedKeeps, CloseEventKeeps, AnswersKeep
    DEF HubNext
  <2>3. QED
    BY <2>1, <2>2
<1>2. QED
  BY HubStart, <1>1, PTL DEF HubSpec

\* However frames, checks, close events and replacements are ordered, a daemon the server
\* keeps open is led to by its key, is present once it was found to be, and is the only
\* open one its machine's slot stands for.
THEOREM DaemonsStayReached == HubSpec => []DaemonsAreReached
<1>1. HubFits(hub) => DaemonsAreReached
  <2> SUFFICES ASSUME HubFits(hub) PROVE DaemonsAreReached
    OBVIOUS
  <2>1. hub.registered \subseteq Conn
    BY DEF HubFits, HubType
  <2>2. \A c \in hub.registered :
          hub.sock[c] = "open" => hub.keyOf[c] # NoOne /\ hub.slot[hub.keyOf[c]] = c
    BY <2>1 DEF HubFits, KeysAgree
  <2>3. OpenDaemonIsReachable
    BY <2>2 DEF HubFits, MembersAgree, OpenDaemonIsReachable
  <2>4. OneSlotPerMachine
    BY <2>2 DEF OneSlotPerMachine
  <2>5. QED
    BY <2>3, <2>4 DEF DaemonsAreReached
<1>2. QED
  BY HubInvariantHolds, <1>1, PTL
-----------------------------------------------------------------------------
(* Membership: the rest of its types                                          *)

OrgsRest ==
  /\ isPublic \in [Org -> BOOLEAN] /\ defaultOrg \in Org \cup {Nothing}
  /\ orgsAsked \in 0 .. MaxOrgRequests

LEMMA EarliestIsOne ==
  ASSUME NEW S \in SUBSET Nat, S # {} PROVE Earliest(S) \in S
<1> DEFINE before == OpToRel(<, Nat)
<1>1. \A k, l \in Nat : <<k, l>> \in before <=> k < l
  BY DEF OpToRel
<1>2. IsWellFoundedOn(before, Nat)
  BY NatLessThanWellFounded
<1> HIDE DEF before
<1>3. PICK m \in S : \A k \in S : ~ (<<k, m>> \in before)
  BY <1>2, WFMin, Zenon
<1>4. ASSUME NEW k \in S PROVE m <= k
  <2>1. k \in Nat /\ m \in Nat
    OBVIOUS
  <2>2. ~ (k < m)
    BY <1>1, <1>3, <2>1, Zenon
  <2> QED
    BY <2>1, <2>2
<1> QED
  BY <1>4 DEF Earliest

LEMMA CachedIsAnOrg ==
  ASSUME OrgsTyped, OrgsRest PROVE Cached \in Org \cup {Nothing}
<1>1. orgs \in SUBSET Nat /\ orgs \subseteq Org
  BY MembershipAssumption DEF OrgsTyped, Org
<1>2. DefaultServer \in Org \cup {Nothing}
  <2>1. PICK P : P = {o \in orgs : isPublic[o]}
    OBVIOUS
  <2>2. P \in SUBSET Nat /\ P \subseteq Org
    BY <1>1, <2>1
  <2>3. P # {} => Earliest(P) \in Org
    BY <2>2, EarliestIsOne
  <2>4. orgs # {} => Earliest(orgs) \in Org
    BY <1>1, EarliestIsOne
  <2>5. (\E o \in orgs : isPublic[o]) => P # {}
    BY <2>1
  <2> QED
    BY <2>1, <2>3, <2>4, <2>5, Zenon DEF DefaultServer
<1> QED
  BY <1>2 DEF Cached, OrgsRest

LEMMA RestStarts == MembershipInit => OrgsRest
<1> SUFFICES ASSUME MembershipInit PROVE OrgsRest
  OBVIOUS
<1>1. isPublic = [o \in Org |-> o = 1]
  BY Zenon DEF MembershipInit
<1>2. isPublic \in [Org -> BOOLEAN]
  BY <1>1, Zenon
<1> QED
  BY <1>2, MembershipAssumption DEF MembershipInit, OrgsRest

LEMMA RestIsKept ==
  ASSUME OrgsTyped, RequestsAreFit, OrgsRest, [MembershipNext]_orgVars PROVE OrgsRest'
<1>1. Cached \in Org \cup {Nothing}
  BY CachedIsAnOrg
<1>2. defaultOrg \in Org \cup {Nothing} /\ isPublic \in [Org -> BOOLEAN]
        /\ orgsAsked \in 0 .. MaxOrgRequests /\ MaxOrgRequests \in Nat
  BY MembershipAssumption DEF OrgsRest
<1>3. ASSUME isPublic' = isPublic, defaultOrg' \in {defaultOrg, Cached, Nothing},
             orgsAsked' = orgsAsked \/ (orgsAsked < MaxOrgRequests /\ orgsAsked' = orgsAsked + 1)
      PROVE  OrgsRest'
  BY <1>1, <1>2, <1>3 DEF OrgsRest
<1>4. CASE UNCHANGED orgVars \/ CreateOrg \/ CacheExpires \/ InviteExpires
  BY <1>3, <1>4, Zenon DEF orgVars, CreateOrg, CacheExpires, InviteExpires, tables
<1>5. ASSUME NEW q \in OrgSlot,
             \/ AskAsOwner(q) \/ AskDelete(q) \/ AskVisibility(q) \/ AskLeave(q) \/ AskJoin(q)
             \/ AskAccept(q) \/ AskForget(q)
      PROVE  OrgsRest'
  <2>1. orgsAsked < MaxOrgRequests /\ orgsAsked' = orgsAsked + 1
    BY <1>5, Zenon DEF AskAsOwner, AskDelete, AskVisibility, AskLeave, AskJoin, AskAccept, AskForget,
                       AskOrg
  <2>2. isPublic' = isPublic /\ (defaultOrg' = defaultOrg \/ defaultOrg' = Cached)
    BY <1>5, Zenon DEF AskAsOwner, AskDelete, AskVisibility, AskLeave, AskJoin, AskAccept, AskForget,
                       tables
  <2> QED
    BY <1>3, <2>1, <2>2
<1>6. ASSUME NEW q \in OrgSlot, RegisterAccount(q) PROVE OrgsRest'
  <2>1. /\ orgsAsked < MaxOrgRequests /\ orgsAsked' = orgsAsked + 1
        /\ isPublic' = isPublic /\ defaultOrg' = Cached
    BY <1>6, Zenon DEF RegisterAccount, AskOrg
  <2> QED
    BY <1>3, <2>1
<1>7. ASSUME NEW q \in OrgSlot, TurnVisibility(q) PROVE OrgsRest'
  <2>1. PICK r : r = orgReq[q]
    OBVIOUS
  <2>2. /\ isPublic' = [isPublic EXCEPT ![r.org] = r.public] /\ r.op = "visibility"
        /\ defaultOrg' = Nothing /\ orgsAsked' = orgsAsked
    BY <1>7, <2>1, Zenon DEF TurnVisibility, Ends, Reads
  <2>3. r.public \in BOOLEAN
    BY <2>1, <2>2 DEF RequestsAreFit, FitOrgRequest
  <2>4. isPublic' \in [Org -> BOOLEAN]
    BY <1>2, <2>2, <2>3, Zenon
  <2> QED
    BY <1>2, <2>2, <2>4 DEF OrgsRest
<1>8. ASSUME NEW q \in OrgSlot,
             \/ ReadTarget(q) \/ ReadHome(q) \/ ReadMachines(q) \/ Fails(q)
             \/ Promote(q) \/ ChangeMember(q) \/ ChangeInvite(q) \/ AcceptInvite(q)
             \/ ChangeComputer(q) \/ ChangeAgent(q) \/ DeleteOrg(q)
      PROVE  OrgsRest'
  <2>1. orgsAsked' = orgsAsked
    BY <1>8, Zenon DEF ReadTarget, ReadHome, ReadMachines, Fails, Promote, ChangeMember, ChangeInvite,
                       AcceptInvite, ChangeComputer, ChangeAgent, DeleteOrg, Ends, Reads
  <2>2. isPublic' = isPublic /\ defaultOrg' = defaultOrg
    BY <1>8, Zenon DEF ReadTarget, ReadHome, ReadMachines, Fails, Promote, ChangeMember, ChangeInvite,
                       AcceptInvite, ChangeComputer, ChangeAgent, DeleteOrg, tables, MembersOnly
  <2> QED
    BY <1>3, <2>1, <2>2
<1> QED
  BY <1>4, <1>5, <1>6, <1>7, <1>8, Zenon DEF MembershipNext

LEMMA OrgsTypes ==
  ASSUME OrgsInv, OrgsRest PROVE MembershipTypeOK
<1>1. /\ lastOrg \in Org /\ orgs \subseteq Org
      /\ ownerId \in [Org -> Account] /\ role \in [Account \X Org -> {"none", "member", "admin", "owner"}]
      /\ invites \in [Invite -> InviteRow \cup {Nothing}]
      /\ seated \in [Invite -> SUBSET Account]
      /\ orgAgents \in [OrgAgent -> OrgAgentRow \cup {Nothing}] /\ computers \subseteq Computer
  BY MembershipAssumption DEF OrgsInv, OrgsTyped, Org, Roles
<1> QED
  BY <1>1, Zenon DEF OrgsRest, MembershipTypeOK
-----------------------------------------------------------------------------
(* The parts of the server and its client together                            *)

LEMMA OutboxTypes == ASSUME OutboxInv PROVE OutboxTypeOK
<1>1. OutboxShape /\ saved = Persisted(pend)
  BY DEF OutboxInv, DraftsAreKept
<1>2. saved \in [Draft -> {"none", "queued", "failed"}]
  BY <1>1 DEF OutboxShape, Status, Persisted
<1> QED
  BY <1>1, <1>2 DEF OutboxShape, Status, OutboxTypeOK

\* In the part a behaviour is about the server goes as that part goes alone, and the others
\* rest: what is proved of each part holds of the composition.
THEOREM ServerPartsAreWhole ==
  ServerSpec => /\ RemindersSpec /\ TaskBoardSpec /\ HubSpec /\ RosterSpec
                /\ FilesSpec /\ OutboxSpec /\ FeedSpec /\ MembershipSpec
<1>1. ServerInit => /\ RemindersInit /\ TaskBoardInit /\ HubInit /\ RosterInit
                    /\ FilesInit /\ OutboxInit /\ FeedInit /\ MembershipInit
  BY DEF ServerInit
<1>2. [ServerNext]_serverParts => [RemindersNext]_reminderVars
  BY DEF ServerNext, serverParts
<1>3. [ServerNext]_serverParts => [TaskBoardNext]_boardVars
  BY DEF ServerNext, serverParts
<1>4. [ServerNext]_serverParts => [HubNext]_hub
  BY DEF ServerNext, serverParts
<1>5. [ServerNext]_serverParts => [RosterNext]_rosterVars
  BY DEF ServerNext, serverParts
<1>6. [ServerNext]_serverParts => [FilesNext]_filesVars
  BY DEF ServerNext, serverParts
<1>7. [ServerNext]_serverParts => [OutboxNext]_outboxVars
  BY DEF ServerNext, serverParts
<1>8. [ServerNext]_serverParts => [FeedNext]_feedVars
  BY DEF ServerNext, serverParts
<1>9. [ServerNext]_serverParts => [MembershipNext]_orgVars
  BY DEF ServerNext, serverParts
<1> QED
  BY <1>1, <1>2, <1>3, <1>4, <1>5, <1>6, <1>7, <1>8, <1>9, PTL
     DEF ServerSpec, RemindersSpec, TaskBoardSpec, HubSpec, RosterSpec, FilesSpec, OutboxSpec,
         FeedSpec, MembershipSpec

\* Every variable of the eight parts has its type, for all members, agents, daemons, files,
\* drafts and messages.
THEOREM ServerTypesHold == ServerSpec => []ServerTypeOK
<1>1. RemindersInv /\ [RemindersNext]_reminderVars => RemindersInv'
  BY RemindersSteps
<1>2. OutboxInv /\ [OutboxNext]_outboxVars => OutboxInv'
  BY OutboxSteps
<1>3. FeedInv /\ [FeedNext]_feedVars => FeedInv'
  BY FeedSteps
<1>4. OrgsInv /\ OrgsRest /\ [MembershipNext]_orgVars => OrgsRest'
  BY RestIsKept DEF OrgsInv
<1>5. RemindersInit => RemindersInv
  BY RemindersStart
<1>6. OutboxInit => OutboxInv
  BY OutboxStarts
<1>7. /\ RemindersInv /\ BoardInv /\ HubFits(hub) /\ RosterInv /\ FilesInv
      /\ OutboxInv /\ FeedInv /\ OrgsInv /\ OrgsRest
      => ServerTypeOK
  BY RemindersFollow, OutboxTypes, FeedTypes, OrgsTypes
     DEF ServerTypeOK, BoardInv, BoardTyped, HubFits, HubTypeOK, RosterInv, RosterTyped, FilesInv
<1> QED
  BY <1>1, <1>2, <1>3, <1>4, <1>5, <1>6, <1>7, ServerPartsAreWhole, BoardInvariantHolds,
     HubInvariantHolds, RosterInvariantHolds, FilesInvariantHolds, OrgsInvariantHolds, FeedStarts,
     RestStarts, PTL
     DEF RemindersSpec, OutboxSpec, FeedSpec, MembershipSpec
=============================================================================
