-------------------------------- MODULE Outbox --------------------------------
(* The browser's queue of unsent messages for one target, and the server's insert  *)
(* that makes a repeated send harmless.  A call may fail at the client before, while *)
(* or after the server handles it; the page may be reloaded or the account changed   *)
(* with a call open; the broadcast of the stored message may overtake the answer.    *)
EXTENDS Integers, FiniteSets

CONSTANTS MaxDrafts, MaxTries, MaxLogouts   \* bounds: drafts, calls per draft, logouts

ASSUME OutboxAssumption == MaxDrafts \in Nat /\ MaxTries \in Nat /\ MaxLogouts \in Nat

Draft == 1 .. MaxDrafts                 \* a draft stands for its clientNonce
SendCall == Draft \X (1 .. MaxTries)

VARIABLES
  pend,       \* pendingByTarget: draft -> status
  saved,      \* the same in localStorage
  flushing,   \* the draft flushPending waits for; 0: no flush runs
  awaited,    \* draft -> the call whose answer somebody awaits, or 0
  tries,      \* draft -> calls made so far
  wire,       \* calls the server has not handled
  answered,   \* calls it has handled with success
  stored,     \* draft -> rows of messages with its nonce
  written,    \* drafts made so far
  account,    \* logouts so far: who is logged in
  writer,     \* history: draft -> the account it was written under
  discarded, everFailed   \* history

outboxVars == <<pend, saved, flushing, awaited, tries, wire, answered, stored,
                written, account, writer, discarded, everFailed>>

\* a plausible fault: a draft in mid-call is saved as it is
PersistedAsIs(p) == [n \in Draft |-> p[n]]

\* persistPending: what is being sent is saved as still to be sent
Persisted(p) == [n \in Draft |-> IF p[n] = "sending" THEN "queued" ELSE p[n]]
Queued(p) == {n \in Draft : p[n] = "queued"}
NoDrafts == [n \in Draft |-> "none"]

OutboxInit ==
  /\ pend = NoDrafts /\ saved = NoDrafts
  /\ flushing = 0 /\ awaited = [n \in Draft |-> 0] /\ tries = [n \in Draft |-> 0]
  /\ wire = {} /\ answered = {} /\ stored = [n \in Draft |-> 0]
  /\ written = 0 /\ account = 0 /\ writer = [n \in Draft |-> 0]
  /\ discarded = {} /\ everFailed = {}
-----------------------------------------------------------------------------
(* Helpers of several handlers                                               *)

Set(p) == pend' = p /\ saved' = Persisted(p)

Call(n, aw) == /\ tries' = [tries EXCEPT ![n] = @ + 1]
               /\ awaited' = [aw EXCEPT ![n] = tries[n] + 1]
               /\ wire' = wire \cup {<<n, tries[n] + 1>>}

\* the loop of flushPending: the first queued draft is sent, or the loop ends
FlushFrom(p, aw) ==
  IF Queued(p) = {}
  THEN /\ Set(p) /\ flushing' = 0 /\ awaited' = aw /\ UNCHANGED <<tries, wire>>
  ELSE \E n \in Queued(p) :
         /\ \A k \in Queued(p) : n <= k
         /\ tries[n] < MaxTries
         /\ Set([p EXCEPT ![n] = "sending"]) /\ flushing' = n /\ Call(n, aw)

\* a plausible fault: nothing keeps a second flush from running
StartFlushAlways(p) == FlushFrom(p, awaited)

StartFlush(p) ==
  IF flushing # 0 THEN Set(p) /\ UNCHANGED <<flushing, awaited, tries, wire>>
  ELSE FlushFrom(p, awaited)

Server == <<answered, stored>>
Accounts == <<account, writer>>
Marks == <<discarded, everFailed>>
-----------------------------------------------------------------------------
(* The page                                                                  *)

\* the composer queues the message and, unless the browser is offline, flushes
Compose ==
  /\ written < MaxDrafts /\ written' = written + 1
  /\ LET p == [pend EXCEPT ![written + 1] = "queued"]
     IN  \/ Set(p) /\ UNCHANGED <<flushing, awaited, tries, wire>>
         \/ StartFlush(p)
  /\ writer' = [writer EXCEPT ![written + 1] = account]
  /\ UNCHANGED <<Server, account, Marks>>

\* the socket connects, the browser is online again, a view opens
Flush == /\ Queued(pend) # {} /\ StartFlush(pend)
         /\ UNCHANGED <<Server, written, Accounts, Marks>>

Retry(n) ==
  /\ pend[n] = "failed" /\ tries[n] < MaxTries
  /\ Set([pend EXCEPT ![n] = "sending"]) /\ Call(n, awaited)
  /\ UNCHANGED <<flushing, Server, written, Accounts, Marks>>

Discard(n) ==
  /\ pend[n] \in {"queued", "failed"} /\ Set([pend EXCEPT ![n] = "none"])
  /\ discarded' = discarded \cup {n}
  /\ UNCHANGED <<flushing, awaited, tries, wire, Server, written, Accounts, everFailed>>

\* the call is answered with success
CallSucceeds(n) ==
  /\ awaited[n] # 0 /\ <<n, awaited[n]>> \in answered
  /\ LET p == [pend EXCEPT ![n] = "none"]
         aw == [awaited EXCEPT ![n] = 0]
     IN  IF flushing = n THEN FlushFrom(p, aw)
         ELSE Set(p) /\ awaited' = aw /\ UNCHANGED <<flushing, tries, wire>>
  /\ UNCHANGED <<Server, written, Accounts, Marks>>

\* the call is rejected, or the network fails before or after the server handled it
CallFails(n) ==
  /\ awaited[n] # 0 /\ awaited' = [awaited EXCEPT ![n] = 0]
  /\ IF pend[n] = "none" THEN UNCHANGED <<pend, saved, everFailed>>
     ELSE Set([pend EXCEPT ![n] = "failed"]) /\ everFailed' = everFailed \cup {n}
  /\ flushing' = IF flushing = n THEN 0 ELSE flushing
  /\ UNCHANGED <<tries, wire, Server, written, Accounts, discarded>>

\* agent:deliver brings the nonce of a stored message
AckByNonce(n) ==
  /\ stored[n] > 0 /\ pend[n] # "none" /\ Set([pend EXCEPT ![n] = "none"])
  /\ UNCHANGED <<flushing, awaited, tries, wire, Server, written, Accounts, Marks>>

Reload ==
  /\ pend' = Persisted(saved) /\ saved' = saved
  /\ flushing' = 0 /\ awaited' = [n \in Draft |-> 0]
  /\ UNCHANGED <<tries, wire, Server, written, Accounts, Marks>>

\* clearMessageCaches; the page is not reloaded, so open calls go on
Logout ==
  /\ account < MaxLogouts /\ account' = account + 1
  /\ pend' = NoDrafts /\ saved' = NoDrafts
  /\ UNCHANGED <<flushing, awaited, tries, wire, Server, written, writer, Marks>>
-----------------------------------------------------------------------------
(* The server and the network                                                *)

Insert(c) == stored' = IF stored[c[1]] > 0 THEN stored ELSE [stored EXCEPT ![c[1]] = @ + 1]

HandleSend(c) ==
  /\ c \in wire /\ wire' = wire \ {c} /\ Insert(c) /\ answered' = answered \cup {c}
  /\ UNCHANGED <<pend, saved, flushing, awaited, tries, written, Accounts, Marks>>

LoseRequest(c) ==
  /\ c \in wire /\ wire' = wire \ {c}
  /\ UNCHANGED <<pend, saved, flushing, awaited, tries, Server, written, Accounts, Marks>>

OutboxNext ==
  \/ Compose \/ Flush \/ Reload \/ Logout
  \/ \E n \in Draft : Retry(n) \/ Discard(n) \/ CallSucceeds(n) \/ CallFails(n)
                        \/ AckByNonce(n)
  \/ \E c \in SendCall : HandleSend(c) \/ LoseRequest(c)

OutboxSpec == OutboxInit /\ [][OutboxNext]_outboxVars
-----------------------------------------------------------------------------
(* Properties                                                                *)

\* Types of the queue, its saved copy, the calls and the stored messages.
OutboxTypeOK ==
  /\ pend \in [Draft -> {"none", "queued", "sending", "failed"}]
  /\ saved \in [Draft -> {"none", "queued", "failed"}]
  /\ flushing \in 0 .. MaxDrafts
  /\ awaited \in [Draft -> 0 .. MaxTries] /\ tries \in [Draft -> 0 .. MaxTries]
  /\ wire \subseteq SendCall /\ answered \subseteq SendCall
  /\ stored \in [Draft -> Nat] /\ written \in 0 .. MaxDrafts
  /\ account \in 0 .. MaxLogouts /\ writer \in [Draft -> 0 .. MaxLogouts]
  /\ discarded \subseteq Draft /\ everFailed \subseteq Draft

\* However often a draft is sent - again after a lost answer, by a retry beside a
\* flush, after a reload - the channel has one message for it.
StoredOnce == \A n \in Draft : stored[n] <= 1

\* Whatever the user has written is on the server, in the queue that survives a
\* reload, or was given up by the user; and none is shown as being sent for ever:
\* somebody awaits its answer.
NoDraftIsLost ==
  \A n \in 1 .. written :
    /\ (writer[n] = account /\ n \notin discarded /\ stored[n] = 0)
         => pend[n] # "none" /\ saved[n] # "none"
    /\ pend[n] = "sending" => awaited[n] # 0

\* Drafts are stored in the order they were written, those excepted that failed or
\* were given up on the way.
SentInOrder ==
  \A i, j \in 1 .. written :
    (i < j /\ writer[i] = writer[j] /\ writer[i] = account
       /\ i \notin discarded \cup everFailed /\ stored[j] > 0) => stored[i] > 0

\* A draft is never sent by another account than the one that wrote it.
SentByItsWriter == \A n \in Draft : tries'[n] > tries[n] => writer'[n] = account

\* The queue of drafts loses nothing, doubles nothing, mixes nothing up, and hands nothing
\* to the account that logs in next.
DraftsAreDelivered ==
  [][StoredOnce' /\ NoDraftIsLost' /\ SentInOrder' /\ SentByItsWriter]_outboxVars
=============================================================================
