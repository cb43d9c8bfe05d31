--------------------------- MODULE DispatchQueue ---------------------------
(***************************************************************************)
(* The per-agent dispatch queue of the daemon                              *)
(* (packages/daemon/src/agent-dispatch-queue.ts).                          *)
(*                                                                         *)
(* The queue keeps one AgentQueueState per agent and the entries share     *)
(* nothing, so this module is one entry.  A submitted message goes to the  *)
(* bucket of its (channel, thread, kind); one batch at a time is handed to *)
(* the deliver callback, whose promise settles later, in another task.     *)
(* JavaScript runs a task to its end, so an action is one task: an enqueue *)
(* with the drain it calls, the then/catch handler of a delivery, its      *)
(* finally handler (a later microtask), a timer, a clear.                  *)
(*                                                                         *)
(* Left out: the in-flight timer (it only logs), the notification callbacks*)
(* (their order is recorded in fate), message texts and envelopes.         *)
(***************************************************************************)
EXTENDS Naturals, Sequences

CONSTANTS
  Bucket,      \* the (channel, thread, kind) keys
  Content,     \* message texts, compared by dedup
  MaxRetries,  \* options.maxRetries: deliveries of one message
  MaxItems,    \* bound: messages submitted in a behaviour
  MaxHalts     \* bound: clears of the queue in a behaviour

ASSUME ConstantsAssumption ==
  /\ MaxRetries \in Nat \ {0}
  /\ MaxItems \in Nat
  /\ MaxHalts \in Nat

VARIABLES
  pending,     \* bucket -> the messages that wait, in order
  inflight,    \* bucket -> contents of the batch being delivered (dedup)
  recent,      \* bucket -> contents delivered within the dedup window
  draining,    \* a delivery has not run its finally handler yet
  flights,     \* the deliveries whose promise handlers are still to run
  retryTimer,  \* the back-off timer is armed
  epoch,       \* bumped by clear and dispose
  waiting,     \* doneResolvers: ids whose done promise is unresolved
  clock,       \* now(), in ticks that matter to the order
  blocked,     \* the cost gate: deliveryGate(agent).blocked
  deliverable, \* isDeliverable(agent)
  disposed,    \* the daemon shut the queue down
  fate,        \* history: how each submission ended; its index is the id
  runs,        \* history: how often each message was handed to deliver
  haltMark     \* history: ids up to here were submitted before the last clear

queueVars == <<pending, inflight, recent, draining, flights, retryTimer, epoch, waiting>>
envVars == <<blocked, deliverable, disposed>>
vars == <<queueVars, envVars, clock, fate, runs, haltMark>>

Item == [id : Nat, content : Content, resolve : BOOLEAN, at : Nat, attempts : Nat]
Flight == [bucket : Bucket, items : Seq(Item), epoch : Nat, settled : BOOLEAN]
Fate == {"open", "delivered", "dead", "blocked", "void", "deduped"}

Ids(q) == {q[k].id : k \in DOMAIN q}
Contents(q) == {q[k].content : k \in DOMAIN q}
DedupContents(q) == {q[k].content : k \in {j \in DOMAIN q : ~q[j].resolve}}
AllPendingIds(p) == UNION {Ids(p[b]) : b \in Bucket}
PendingIds == AllPendingIds(pending)
Airborne == {f \in flights : ~f.settled}
AirborneIds == UNION {Ids(f.items) : f \in Airborne}

(* Every id of S gets the fate w. *)
Ended(ft, S, w) == [i \in DOMAIN ft |-> IF i \in S THEN w ELSE ft[i]]

-----------------------------------------------------------------------------
Init ==
  /\ pending = [b \in Bucket |-> <<>>]
  /\ inflight = [b \in Bucket |-> {}]
  /\ recent = [b \in Bucket |-> {}]
  /\ draining = FALSE
  /\ flights = {}
  /\ retryTimer = FALSE
  /\ epoch = 0
  /\ waiting = {}
  /\ clock = 0
  /\ blocked = FALSE
  /\ deliverable = TRUE
  /\ disposed = FALSE
  /\ fate = <<>>
  /\ runs = <<>>
  /\ haltMark = 0

(* hasPending *)
HasPending(p) == \E b \in Bucket : p[b] # <<>>

(* pickBucket: the bucket whose head arrived first.  Heads with the same   *)
(* timestamp are told apart by Map order in the code, by nothing here.     *)
IsOldest(p, b) ==
  /\ p[b] # <<>>
  /\ \A a \in Bucket : p[a] # <<>> => p[b][1].at <= p[a][1].at

(* Variants of a definition with a fault, named for the fault, stand in    *)
(* front of it; no action uses them.                                       *)
IsTakeLooksAtHeadOnly(q, n) == n = IF q[1].resolve THEN 1 ELSE Len(q)

(* The batch: a resolve item alone, otherwise the messages in front of the *)
(* first resolve item.                                                     *)
IsTake(q, n) ==
  IF q[1].resolve
    THEN n = 1
    ELSE /\ \A k \in 1..n : ~q[k].resolve
         /\ n < Len(q) => q[n + 1].resolve

(* drain once the guards are passed: hand the batch to deliver. *)
Launch(p, fs, infl, w, ft, rn) ==
  \E b \in Bucket : \E n \in 1..Len(p[b]) :
    LET batch == SubSeq(p[b], 1, n) IN
    /\ IsOldest(p, b)
    /\ IsTake(p[b], n)
    /\ pending' = [p EXCEPT ![b] = SubSeq(@, n + 1, Len(@))]
    /\ inflight' = [infl EXCEPT ![b] = @ \cup DedupContents(batch)]
    /\ flights' = fs \cup {[bucket |-> b, items |-> batch, epoch |-> epoch, settled |-> FALSE]}
    /\ draining' = TRUE
    /\ runs' = [i \in DOMAIN rn |-> IF i \in Ids(batch) THEN rn[i] + 1 ELSE rn[i]]
    /\ waiting' = w
    /\ fate' = ft

(* drain when the gate is closed: everything that waits is dropped. *)
GateDrop(p, fs, infl, busy, w, ft, rn) ==
  /\ pending' = [b \in Bucket |-> <<>>]
  /\ waiting' = w \ AllPendingIds(p)
  /\ fate' = Ended(ft, AllPendingIds(p), "blocked")
  /\ draining' = busy
  /\ flights' = fs
  /\ inflight' = infl
  /\ runs' = rn

(* drain, called with the state its caller has reached. *)
Drain(p, fs, infl, busy, timer, w, ft, rn) ==
  IF busy \/ timer \/ ~HasPending(p)
    THEN /\ pending' = p
         /\ flights' = fs
         /\ inflight' = infl
         /\ draining' = busy
         /\ waiting' = w
         /\ fate' = ft
         /\ runs' = rn
    ELSE IF blocked
      THEN GateDrop(p, fs, infl, busy, w, ft, rn)
      ELSE Launch(p, fs, infl, w, ft, rn)

-----------------------------------------------------------------------------
(* enqueue: three outcomes.  The caller (dispatchToAgent) has just checked *)
(* the cost gate in the same task.                                         *)

SeenIgnoresInflight(b, c) == c \in recent[b] \/ c \in DedupContents(pending[b])

Seen(b, c) ==
  \/ c \in recent[b]
  \/ c \in inflight[b]
  \/ c \in DedupContents(pending[b])

NewId == Len(fate) + 1

EnqueueDead ==
  /\ NewId <= MaxItems
  /\ ~blocked
  /\ ~deliverable
  /\ fate' = Append(fate, "dead")
  /\ runs' = Append(runs, 0)
  /\ UNCHANGED <<queueVars, envVars, clock, haltMark>>

EnqueueDeduped(b, c) ==
  /\ NewId <= MaxItems
  /\ ~blocked
  /\ deliverable
  /\ Seen(b, c)
  /\ fate' = Append(fate, "deduped")
  /\ runs' = Append(runs, 0)
  /\ UNCHANGED <<queueVars, envVars, clock, haltMark>>

EnqueueQueued(b, c, r) ==
  /\ NewId <= MaxItems
  /\ ~blocked
  /\ deliverable
  /\ r \/ ~Seen(b, c)
  /\ \E now \in {clock, clock + 1} :
       LET item == [id |-> NewId, content |-> c, resolve |-> r, at |-> now, attempts |-> 0] IN
       /\ clock' = now
       /\ Drain([pending EXCEPT ![b] = Append(@, item)], flights, inflight, draining, retryTimer,
                waiting \cup {NewId}, Append(fate, "open"), Append(runs, 0))
  /\ UNCHANGED <<recent, retryTimer, epoch, envVars, haltMark>>

(* pruneRecent: an entry older than the window is forgotten. *)
WindowCloses(b, c) ==
  /\ c \in recent[b]
  /\ recent' = [recent EXCEPT ![b] = @ \ {c}]
  /\ UNCHANGED <<pending, inflight, draining, flights, retryTimer, epoch, waiting,
                 envVars, clock, fate, runs, haltMark>>

-----------------------------------------------------------------------------
(* The handlers of a delivery. *)

Settled(f) == (flights \ {f}) \cup {[f EXCEPT !.settled = TRUE]}

FinishInflightLeavesEntry(f) == inflight
FinishInflightDeletesBucket(f) == [b \in Bucket \ {f.bucket} |-> inflight[b]]

(* finishInflight *)
FinishInflight(f) == [inflight EXCEPT ![f.bucket] = @ \ Contents(f.items)]

(* A batch that ends here: its done promises resolve, its fate is known. *)
Conclude(f, w) ==
  /\ waiting' = waiting \ Ids(f.items)
  /\ fate' = Ended(fate, Ids(f.items), w)

DeliverResolvedIgnoresEpoch(f) ==
  /\ ~f.settled
  /\ flights' = Settled(f)
  /\ inflight' = FinishInflight(f)
  /\ Conclude(f, IF f.epoch # epoch THEN "void" ELSE "delivered")
  /\ recent' = [recent EXCEPT ![f.bucket] = @ \cup DedupContents(f.items)]
  /\ UNCHANGED <<pending, draining, retryTimer, epoch, envVars, clock, runs, haltMark>>

(* .then *)
DeliverResolved(f) ==
  /\ ~f.settled
  /\ flights' = Settled(f)
  /\ inflight' = FinishInflight(f)
  /\ IF f.epoch # epoch
       THEN /\ Conclude(f, "void")
            /\ recent' = recent
       ELSE /\ Conclude(f, "delivered")
            /\ recent' = [recent EXCEPT ![f.bucket] = @ \cup DedupContents(f.items)]
  /\ UNCHANGED <<pending, draining, retryTimer, epoch, envVars, clock, runs, haltMark>>

(* .catch, when the failure ends the batch: the queue was cleared while it *)
(* ran, the agent is gone, or the error says that a retry is useless.      *)
DeliverRejectedFinally(f, retriable) ==
  /\ ~f.settled
  /\ f.epoch # epoch \/ ~deliverable \/ ~retriable
  /\ flights' = Settled(f)
  /\ inflight' = FinishInflight(f)
  /\ Conclude(f, IF f.epoch # epoch THEN "void" ELSE "dead")
  /\ UNCHANGED <<pending, recent, draining, retryTimer, epoch, envVars, clock, runs, haltMark>>

(* .catch, when a retry may help: attempts go up, the exhausted messages   *)
(* are dead, the others return to the front of their bucket and the        *)
(* back-off timer is armed.                                                *)
SurvivorsOneTooMany(q) == {k \in DOMAIN q : q[k].attempts + 1 <= MaxRetries}

Survivors(q) == {k \in DOMAIN q : q[k].attempts + 1 < MaxRetries}
Exhausted(q) == {q[k].id : k \in DOMAIN q \ Survivors(q)}

Requeued(q) == SelectSeq([k \in DOMAIN q |-> [q[k] EXCEPT !.attempts = @ + 1]],
                         LAMBDA x : x.attempts < MaxRetries)

RejectedRequeuedAtBack(f) ==
  /\ ~f.settled
  /\ f.epoch = epoch
  /\ deliverable
  /\ flights' = Settled(f)
  /\ inflight' = FinishInflight(f)
  /\ waiting' = waiting \ Exhausted(f.items)
  /\ fate' = Ended(fate, Exhausted(f.items), "dead")
  /\ pending' = [pending EXCEPT ![f.bucket] = @ \o Requeued(f.items)]
  /\ retryTimer' = (retryTimer \/ Requeued(f.items) # <<>>)
  /\ UNCHANGED <<recent, draining, epoch, envVars, clock, runs, haltMark>>

RejectedIgnoresEpoch(f) ==
  /\ ~f.settled
  /\ deliverable
  /\ flights' = Settled(f)
  /\ inflight' = FinishInflight(f)
  /\ waiting' = waiting \ Exhausted(f.items)
  /\ fate' = Ended(fate, Exhausted(f.items), "dead")
  /\ pending' = [pending EXCEPT ![f.bucket] = Requeued(f.items) \o @]
  /\ retryTimer' = (retryTimer \/ Requeued(f.items) # <<>>)
  /\ UNCHANGED <<recent, draining, epoch, envVars, clock, runs, haltMark>>

DeliverRejectedRetriable(f) ==
  /\ ~f.settled
  /\ f.epoch = epoch
  /\ deliverable
  /\ flights' = Settled(f)
  /\ inflight' = FinishInflight(f)
  /\ waiting' = waiting \ Exhausted(f.items)
  /\ fate' = Ended(fate, Exhausted(f.items), "dead")
  /\ \E m \in 0..Len(f.items) : \E pos \in [1..m -> Survivors(f.items)] :
       /\ \A j, k \in 1..m : j < k => pos[j] < pos[k]
       /\ \A k \in Survivors(f.items) : \E j \in 1..m : pos[j] = k
       /\ pending' = [pending EXCEPT ![f.bucket] =
                        [j \in 1..m |-> [f.items[pos[j]] EXCEPT !.attempts = @ + 1]] \o @]
       /\ retryTimer' = (retryTimer \/ m > 0)
  /\ UNCHANGED <<recent, draining, epoch, envVars, clock, runs, haltMark>>

FinallyWithoutDrain(f) ==
  /\ f.settled
  /\ flights' = flights \ {f}
  /\ draining' = FALSE
  /\ UNCHANGED <<pending, inflight, recent, retryTimer, epoch, waiting, envVars, clock, fate, runs, haltMark>>

(* .finally: drain again when something waits and no timer will do it. *)
DeliverFinally(f) ==
  /\ f.settled
  /\ Drain(pending, flights \ {f}, inflight, FALSE, retryTimer, waiting, fate, runs)
  /\ UNCHANGED <<recent, retryTimer, epoch, envVars, clock, haltMark>>

RetryFiresWithoutDrain ==
  /\ retryTimer
  /\ retryTimer' = FALSE
  /\ UNCHANGED <<pending, inflight, recent, draining, flights, epoch, waiting, envVars, clock, fate, runs, haltMark>>

RetryFires ==
  /\ retryTimer
  /\ retryTimer' = FALSE
  /\ Drain(pending, flights, inflight, draining, FALSE, waiting, fate, runs)
  /\ UNCHANGED <<recent, epoch, envVars, clock, haltMark>>

-----------------------------------------------------------------------------
ClearFreesTheSlot ==
  /\ epoch < MaxHalts
  /\ epoch' = epoch + 1
  /\ waiting' = waiting \ PendingIds
  /\ fate' = Ended(fate, PendingIds, "dead")
  /\ pending' = [b \in Bucket |-> <<>>]
  /\ inflight' = [b \in Bucket |-> {}]
  /\ recent' = [b \in Bucket |-> {}]
  /\ retryTimer' = FALSE
  /\ haltMark' = Len(fate)
  /\ draining' = FALSE
  /\ UNCHANGED <<flights, clock, runs, blocked>>

ClearForgetsCallers ==
  /\ epoch < MaxHalts
  /\ epoch' = epoch + 1
  /\ fate' = Ended(fate, PendingIds, "dead")
  /\ pending' = [b \in Bucket |-> <<>>]
  /\ inflight' = [b \in Bucket |-> {}]
  /\ recent' = [b \in Bucket |-> {}]
  /\ retryTimer' = FALSE
  /\ haltMark' = Len(fate)
  /\ UNCHANGED <<waiting, draining, flights, clock, runs, blocked>>

ClearEndsTheFlight ==
  /\ epoch < MaxHalts
  /\ epoch' = epoch + 1
  /\ waiting' = {}
  /\ fate' = Ended(fate, waiting, "dead")
  /\ pending' = [b \in Bucket |-> <<>>]
  /\ inflight' = [b \in Bucket |-> {}]
  /\ recent' = [b \in Bucket |-> {}]
  /\ retryTimer' = FALSE
  /\ haltMark' = Len(fate)
  /\ UNCHANGED <<draining, flights, clock, runs, blocked>>

(* clear: what waits is dead, the batch in flight is cut off by the epoch. *)
ClearQueue ==
  /\ epoch < MaxHalts
  /\ epoch' = epoch + 1
  /\ waiting' = waiting \ PendingIds
  /\ fate' = Ended(fate, PendingIds, "dead")
  /\ pending' = [b \in Bucket |-> <<>>]
  /\ inflight' = [b \in Bucket |-> {}]
  /\ recent' = [b \in Bucket |-> {}]
  /\ retryTimer' = FALSE
  /\ haltMark' = Len(fate)
  /\ UNCHANGED <<draining, flights, clock, runs, blocked>>

(* haltAgent(name, "idle"): the agent is interrupted and stays registered. *)
StopAgent ==
  /\ ~disposed
  /\ ClearQueue
  /\ UNCHANGED <<deliverable, disposed>>

(* haltAgent(name, "stopped") by unregisterAgent *)
UnregisterAgent ==
  /\ ~disposed
  /\ ClearQueue
  /\ deliverable' = FALSE
  /\ UNCHANGED disposed

(* registerAgent of an agent that is not registered: idle, a clean queue. *)
RegisterAgent ==
  /\ ~disposed
  /\ ~deliverable
  /\ ClearQueue
  /\ deliverable' = TRUE
  /\ UNCHANGED disposed

(* loadExistingAgents finds it on duty again: no clear. *)
LoadAgent ==
  /\ ~disposed
  /\ ~deliverable
  /\ deliverable' = TRUE
  /\ UNCHANGED <<queueVars, blocked, disposed, clock, fate, runs, haltMark>>

(* stopAll: every agent is stopped, then the queue is disposed and its     *)
(* states dropped; the deliveries in flight settle against the old state.  *)
StopAll ==
  /\ ~disposed
  /\ ClearQueue
  /\ deliverable' = FALSE
  /\ disposed' = TRUE

(* The cost ledger passes a limit, a new day or a new limit reopens it. *)
GateMoves ==
  /\ blocked' = ~blocked
  /\ UNCHANGED <<queueVars, deliverable, disposed, clock, fate, runs, haltMark>>

-----------------------------------------------------------------------------
Enqueue ==
  \/ EnqueueDead
  \/ \E b \in Bucket, c \in Content : EnqueueDeduped(b, c)
  \/ \E b \in Bucket, c \in Content, r \in BOOLEAN : EnqueueQueued(b, c, r)

Settle(f) ==
  \/ DeliverResolved(f)
  \/ \E retriable \in BOOLEAN : DeliverRejectedFinally(f, retriable)
  \/ DeliverRejectedRetriable(f)

SettleAny == \E f \in flights : Settle(f)
FinallyAny == \E f \in flights : DeliverFinally(f)

Next ==
  \/ Enqueue
  \/ \E b \in Bucket, c \in Content : WindowCloses(b, c)
  \/ SettleAny
  \/ FinallyAny
  \/ RetryFires
  \/ StopAgent
  \/ UnregisterAgent
  \/ RegisterAgent
  \/ LoadAgent
  \/ StopAll
  \/ GateMoves

Spec == Init /\ [][Next]_vars

(* A delivery settles (the drivers kill a silent runtime), microtasks and  *)
(* timers run.  Nothing is assumed of callers, stops or the cost gate.     *)
Fairness ==
  /\ WF_vars(SettleAny)
  /\ WF_vars(FinallyAny)
  /\ WF_vars(RetryFires)

FairSpec == Spec /\ Fairness

-----------------------------------------------------------------------------
(* Properties. *)

(* Every variable has its type; a bucket never leaves the maps. *)
TypeOK ==
  /\ pending \in [Bucket -> Seq(Item)]
  /\ inflight \in [Bucket -> SUBSET Content]
  /\ recent \in [Bucket -> SUBSET Content]
  /\ draining \in BOOLEAN
  /\ flights \subseteq Flight
  /\ retryTimer \in BOOLEAN
  /\ epoch \in Nat
  /\ waiting \subseteq Nat
  /\ clock \in Nat
  /\ blocked \in BOOLEAN
  /\ deliverable \in BOOLEAN
  /\ disposed \in BOOLEAN
  /\ fate \in Seq(Fate)
  /\ runs \in Seq(Nat)
  /\ haltMark \in Nat

(* No lost wake-up: whatever waits in a bucket, the finally handler of a   *)
(* delivery or the armed back-off timer will drain it.  drain returns      *)
(* early in both cases and relies on this (agent-dispatch-queue.ts:333).   *)
NoStrandedBacklog == HasPending(pending) => draining \/ retryTimer

(* One delivery per agent at a time, also across a clear: the turn of an   *)
(* agent shares its session and its reply guard, two would mix.            *)
SerialDelivery ==
  /\ \A f, g \in flights : f = g
  /\ draining <=> flights # {}
  /\ retryTimer => Airborne = {}

(* A caller that awaits a done promise is never forgotten and never        *)
(* released early: it waits exactly while its message is in a bucket or in *)
(* an unsettled delivery, in one of them only, with no end reported.       *)
SettledExactlyOnce ==
  /\ waiting = PendingIds \cup AirborneIds
  /\ PendingIds \cap AirborneIds = {}
  /\ \A a, b \in Bucket : a # b => Ids(pending[a]) \cap Ids(pending[b]) = {}
  /\ waiting = {i \in DOMAIN fate : fate[i] = "open"}

(* Messages keep their order in a bucket, through retries too: a batch is  *)
(* in arrival order and older than everything left in its bucket.          *)
ArrivalOrder ==
  /\ \A b \in Bucket : \A j, k \in DOMAIN pending[b] :
       j < k => pending[b][j].id < pending[b][k].id
  /\ \A f \in Airborne : \A j, k \in DOMAIN f.items :
       j < k => f.items[j].id < f.items[k].id
  /\ \A f \in Airborne : \A i \in Ids(f.items), j \in Ids(pending[f.bucket]) : i < j

(* A clear is a cut: nothing submitted before it waits or is being         *)
(* delivered under the current epoch, so a delivery that fails after the   *)
(* agent was stopped brings nothing back.                                  *)
HaltIsACut ==
  /\ \A i \in PendingIds : haltMark < i
  /\ \A f \in Airborne : f.epoch = epoch => \A i \in Ids(f.items) : haltMark < i

(* Dedup holds one copy: in a bucket no two live messages (waiting or      *)
(* being delivered since the last clear) have the same content, resolve    *)
(* items apart.                                                            *)
LiveFlights(b) == {f \in Airborne : f.bucket = b /\ f.epoch = epoch}
OneLiveCopy ==
  \A b \in Bucket :
    /\ \A j, k \in DOMAIN pending[b] :
         j # k /\ ~pending[b][j].resolve /\ ~pending[b][k].resolve
           => pending[b][j].content # pending[b][k].content
    /\ \A f \in LiveFlights(b) : DedupContents(f.items) \cap DedupContents(pending[b]) = {}

(* A content is swallowed for being in flight only while it is: a failed   *)
(* or cut-off delivery frees it, so that it can be sent again.             *)
InflightIsLive ==
  \A b \in Bucket : \A c \in inflight[b] : \E f \in LiveFlights(b) : c \in DedupContents(f.items)

(* A message is handed to deliver at most MaxRetries times, whatever       *)
(* batches it is merged into on the way.                                   *)
RetryBudget == \A i \in DOMAIN runs : runs[i] <= MaxRetries

(* A resolve item is a hard boundary: it is never merged with anything.    *)
ResolveTravelsAlone ==
  \A f \in flights : (\E k \in DOMAIN f.items : f.items[k].resolve) => Len(f.items) = 1

(* What the queue keeps about its messages is true of them: the copies,    *)
(* the contents in flight, the attempts, the lone resolves.                *)
ItemsAreAccounted == OneLiveCopy /\ InflightIsLive /\ RetryBudget /\ ResolveTravelsAlone

(* The queue keeps its promise: the ids of the batch whose deliver promise *)
(* is unsettled are the group in the air.                                  *)
Promise == INSTANCE DispatchPromise WITH fate <- fate, air <- AirborneIds
KeepsPromise == Promise!Spec

(* Every caller is released, whatever fails, is stopped or is blocked.     *)
EverySubmissionSettles ==
  \A i \in 1..MaxItems : (i \in waiting) ~> (i \notin waiting)
=============================================================================
