------------------------ MODULE DispatchQueueProofs ------------------------
(***************************************************************************)
(* Proofs about DispatchQueue for every value of its constants.            *)
(*                                                                         *)
(* In order: types; no lost wake-up and serial delivery; sequences; a clear*)
(* as a cut; order of arrival; the balance of callers and messages; the    *)
(* copies and attempts of messages; the promise to the callers.            *)
(***************************************************************************)
EXTENDS DispatchQueue, TLAPS

(* A function on 1..n is a sequence. *)
LEMMA FunIsSeq ==
  ASSUME NEW S, NEW n \in Nat, NEW f \in [1..n -> S]
  PROVE  f \in Seq(S) /\ Len(f) = n /\ DOMAIN f = 1..n
OBVIOUS

(* Ending submissions keeps the fates a sequence, of the same length. *)
LEMMA EndedType ==
  ASSUME NEW ft \in Seq(Fate), NEW S, NEW w \in Fate
  PROVE  Ended(ft, S, w) \in Seq(Fate) /\ Len(Ended(ft, S, w)) = Len(ft)
<1>1. Len(ft) \in Nat /\ DOMAIN ft = 1..Len(ft)
  OBVIOUS
<1>2. Ended(ft, S, w) \in [1..Len(ft) -> Fate]
  BY <1>1 DEF Ended
<1>3. QED
  BY <1>1, <1>2, FunIsSeq

(* A message with one more failed attempt is a message. *)
LEMMA FailedOnceMore ==
  ASSUME NEW x \in Item
  PROVE  [x EXCEPT !.attempts = @ + 1] \in Item
BY DEF Item

(* What drain changes keeps its type. *)
LEMMA DrainType ==
  ASSUME TypeOK,
         NEW p \in [Bucket -> Seq(Item)],
         NEW fs \in SUBSET Flight,
         NEW infl \in [Bucket -> SUBSET Content],
         NEW busy \in BOOLEAN,
         NEW timer \in BOOLEAN,
         NEW w \in SUBSET Nat,
         NEW ft \in Seq(Fate),
         NEW rn \in Seq(Nat),
         Drain(p, fs, infl, busy, timer, w, ft, rn)
  PROVE  /\ pending' \in [Bucket -> Seq(Item)]
         /\ inflight' \in [Bucket -> SUBSET Content]
         /\ flights' \subseteq Flight
         /\ draining' \in BOOLEAN
         /\ waiting' \subseteq Nat
         /\ fate' \in Seq(Fate)
         /\ runs' \in Seq(Nat)
<1>1. CASE busy \/ timer \/ ~HasPending(p)
  BY <1>1 DEF Drain
<1>2. CASE ~(busy \/ timer \/ ~HasPending(p)) /\ blocked
  <2>1. GateDrop(p, fs, infl, busy, w, ft, rn)
    BY <1>2 DEF Drain
  <2>2. pending' \in [Bucket -> Seq(Item)]
    BY <2>1 DEF GateDrop
  <2>3. fate' \in Seq(Fate)
    BY <2>1, EndedType DEF GateDrop, Fate
  <2>4. QED
    BY <2>1, <2>2, <2>3 DEF GateDrop
<1>3. CASE ~(busy \/ timer \/ ~HasPending(p)) /\ ~blocked
  <2>1. Launch(p, fs, infl, w, ft, rn)
    BY <1>3 DEF Drain
  <2>2. PICK b \in Bucket : \E n \in 1..Len(p[b]) :
          LET batch == SubSeq(p[b], 1, n) IN
          /\ pending' = [p EXCEPT ![b] = SubSeq(@, n + 1, Len(@))]
          /\ inflight' = [infl EXCEPT ![b] = @ \cup DedupContents(batch)]
          /\ flights' = fs \cup {[bucket |-> b, items |-> batch, epoch |-> epoch, settled |-> FALSE]}
          /\ draining' = TRUE
          /\ runs' = [i \in DOMAIN rn |-> IF i \in Ids(batch) THEN rn[i] + 1 ELSE rn[i]]
          /\ waiting' = w
          /\ fate' = ft
    BY <2>1 DEF Launch
  <2>3. PICK n \in 1..Len(p[b]) :
          LET batch == SubSeq(p[b], 1, n) IN
          /\ pending' = [p EXCEPT ![b] = SubSeq(@, n + 1, Len(@))]
          /\ inflight' = [infl EXCEPT ![b] = @ \cup DedupContents(batch)]
          /\ flights' = fs \cup {[bucket |-> b, items |-> batch, epoch |-> epoch, settled |-> FALSE]}
          /\ draining' = TRUE
          /\ runs' = [i \in DOMAIN rn |-> IF i \in Ids(batch) THEN rn[i] + 1 ELSE rn[i]]
          /\ waiting' = w
          /\ fate' = ft
    BY <2>2
  <2> DEFINE batch == SubSeq(p[b], 1, n)
  <2>4. /\ batch \in Seq(Item)
        /\ SubSeq(p[b], n + 1, Len(p[b])) \in Seq(Item)
    OBVIOUS
  <2>5. pending' \in [Bucket -> Seq(Item)]
    BY <2>3, <2>4
  <2>6. DedupContents(batch) \subseteq Content
    BY <2>4 DEF DedupContents, Item
  <2>7. inflight' \in [Bucket -> SUBSET Content]
    BY <2>3, <2>6
  <2>8. flights' \subseteq Flight
    <3>1. [bucket |-> b, items |-> batch, epoch |-> epoch, settled |-> FALSE] \in Flight
      BY <2>4 DEF Flight, TypeOK
    <3>2. QED
      BY <2>3, <3>1
  <2>9. runs' \in Seq(Nat)
    <3>1. Len(rn) \in Nat /\ DOMAIN rn = 1..Len(rn)
      OBVIOUS
    <3>2. runs' \in [1..Len(rn) -> Nat]
      BY <2>3, <3>1
    <3>3. QED
      BY <3>1, <3>2, FunIsSeq
  <2>10. QED
    BY <2>3, <2>5, <2>7, <2>8, <2>9
<1>4. QED
  BY <1>1, <1>2, <1>3

(* Settling a delivery keeps the deliveries typed. *)
LEMMA SettledType ==
  ASSUME TypeOK, NEW f \in flights
  PROVE  /\ f \in Flight
         /\ [f EXCEPT !.settled = TRUE] \in Flight
         /\ Settled(f) \subseteq Flight
         /\ FinishInflight(f) \in [Bucket -> SUBSET Content]
<1>1. f \in Flight
  BY DEF TypeOK
<1>2. [f EXCEPT !.settled = TRUE] \in Flight
  BY <1>1 DEF Flight
<1>3. FinishInflight(f) \in [Bucket -> SUBSET Content]
  BY <1>1 DEF FinishInflight, TypeOK, Flight
<1>4. QED
  BY <1>1, <1>2, <1>3 DEF Settled, TypeOK

(* A clear keeps the types. *)
LEMMA ClearType ==
  ASSUME TypeOK, ClearQueue, deliverable' \in BOOLEAN, disposed' \in BOOLEAN
  PROVE  TypeOK'
<1>1. fate' \in Seq(Fate) /\ Len(fate) \in Nat
  BY EndedType DEF ClearQueue, TypeOK, Fate
<1>2. pending' \in [Bucket -> Seq(Item)]
  BY DEF ClearQueue
<1>3. inflight' \in [Bucket -> SUBSET Content] /\ recent' \in [Bucket -> SUBSET Content]
  BY DEF ClearQueue
<1>4. /\ waiting' \subseteq Nat
      /\ epoch' \in Nat
      /\ retryTimer' \in BOOLEAN
      /\ haltMark' \in Nat
  <2>1. waiting' \subseteq Nat
    BY DEF ClearQueue, TypeOK
  <2>2. epoch' \in Nat /\ haltMark' \in Nat
    BY <1>1 DEF ClearQueue, TypeOK
  <2>3. retryTimer' \in BOOLEAN
    BY DEF ClearQueue
  <2>4. QED
    BY <2>1, <2>2, <2>3
<1>5. /\ draining' = draining /\ flights' = flights /\ clock' = clock
      /\ runs' = runs /\ blocked' = blocked
  BY DEF ClearQueue
<1>6. QED
  BY <1>1, <1>2, <1>3, <1>4, <1>5 DEF TypeOK

-----------------------------------------------------------------------------
(* The types hold at the start ... *)
LEMMA TypeInit == Init => TypeOK
<1> SUFFICES ASSUME Init PROVE TypeOK
  OBVIOUS
<1>1. pending \in [Bucket -> Seq(Item)]
  BY DEF Init
<1>2. inflight \in [Bucket -> SUBSET Content] /\ recent \in [Bucket -> SUBSET Content]
  BY DEF Init
<1>3. fate \in Seq(Fate) /\ runs \in Seq(Nat)
  BY DEF Init
<1>4. QED
  BY <1>1, <1>2, <1>3 DEF Init, TypeOK

(* ... and no task of the queue breaks them. *)
LEMMA TypeNext == TypeOK /\ [Next]_vars => TypeOK'
<1> SUFFICES ASSUME TypeOK, [Next]_vars
             PROVE  TypeOK'
  OBVIOUS
<1>1. CASE EnqueueDead
  <2>1. fate' \in Seq(Fate) /\ runs' \in Seq(Nat)
    BY <1>1 DEF EnqueueDead, TypeOK, Fate
  <2>2. QED
    BY <1>1, <2>1 DEF EnqueueDead, TypeOK, queueVars, envVars
<1>2. ASSUME NEW b \in Bucket, NEW c \in Content, EnqueueDeduped(b, c)
      PROVE  TypeOK'
  <2>1. fate' \in Seq(Fate) /\ runs' \in Seq(Nat)
    BY <1>2 DEF EnqueueDeduped, TypeOK, Fate
  <2>2. QED
    BY <1>2, <2>1 DEF EnqueueDeduped, TypeOK, queueVars, envVars
<1>3. ASSUME NEW b \in Bucket, NEW c \in Content, NEW r \in BOOLEAN, EnqueueQueued(b, c, r)
      PROVE  TypeOK'
  <2> PICK now \in {clock, clock + 1} :
        /\ clock' = now
        /\ Drain([pending EXCEPT ![b] =
                    Append(@, [id |-> NewId, content |-> c, resolve |-> r, at |-> now, attempts |-> 0])],
                 flights, inflight, draining, retryTimer,
                 waiting \cup {NewId}, Append(fate, "open"), Append(runs, 0))
    BY <1>3 DEF EnqueueQueued
  <2> DEFINE item == [id |-> NewId, content |-> c, resolve |-> r, at |-> now, attempts |-> 0]
             p == [pending EXCEPT ![b] = Append(@, item)]
  <2>1. NewId \in Nat /\ now \in Nat
    BY DEF TypeOK, NewId
  <2>2. item \in Item
    BY <2>1 DEF Item
  <2>3. p \in [Bucket -> Seq(Item)]
    BY <2>2 DEF TypeOK
  <2>4. waiting \cup {NewId} \in SUBSET Nat
    BY <2>1 DEF TypeOK
  <2>5. Append(fate, "open") \in Seq(Fate) /\ Append(runs, 0) \in Seq(Nat)
    BY DEF TypeOK, Fate
  <2>6. /\ flights \in SUBSET Flight
        /\ inflight \in [Bucket -> SUBSET Content]
        /\ draining \in BOOLEAN
        /\ retryTimer \in BOOLEAN
    BY DEF TypeOK
  <2>7. Drain(p, flights, inflight, draining, retryTimer,
              waiting \cup {NewId}, Append(fate, "open"), Append(runs, 0))
    OBVIOUS
  <2> HIDE DEF p, item
  <2>8. /\ pending' \in [Bucket -> Seq(Item)]
        /\ inflight' \in [Bucket -> SUBSET Content]
        /\ flights' \subseteq Flight
        /\ draining' \in BOOLEAN
        /\ waiting' \subseteq Nat
        /\ fate' \in Seq(Fate)
        /\ runs' \in Seq(Nat)
    BY <2>3, <2>4, <2>5, <2>6, <2>7, DrainType
  <2>9. /\ clock' \in Nat
        /\ UNCHANGED <<recent, retryTimer, epoch, envVars, haltMark>>
    BY <1>3, <2>1 DEF EnqueueQueued
  <2>10. QED
    BY <2>8, <2>9 DEF TypeOK, envVars
<1>4. ASSUME NEW b \in Bucket, NEW c \in Content, WindowCloses(b, c)
      PROVE  TypeOK'
  BY <1>4 DEF WindowCloses, TypeOK, envVars
<1>5. ASSUME NEW f \in flights, DeliverResolved(f)
      PROVE  TypeOK'
  <2>1. \A w \in Fate : Conclude(f, w) => fate' \in Seq(Fate) /\ waiting' \subseteq Nat
    BY EndedType DEF Conclude, TypeOK
  <2>2. Conclude(f, "void") \/ Conclude(f, "delivered")
    BY <1>5 DEF DeliverResolved
  <2>3. fate' \in Seq(Fate) /\ waiting' \subseteq Nat
    BY <2>1, <2>2 DEF Fate
  <2>4. f.items \in Seq(Item) /\ f.bucket \in Bucket
    BY SettledType DEF Flight
  <2>5. \A k \in DOMAIN f.items : f.items[k] \in Item
    BY <2>4
  <2>6. DedupContents(f.items) \subseteq Content
    BY <2>5 DEF DedupContents, Item
  <2>7. recent' \in [Bucket -> SUBSET Content]
    <3>1. recent' = recent \/ recent' = [recent EXCEPT ![f.bucket] = @ \cup DedupContents(f.items)]
      BY <1>5 DEF DeliverResolved
    <3>2. QED
      BY <2>4, <2>6, <3>1 DEF TypeOK
  <2>8. QED
    BY <1>5, <2>3, <2>7, SettledType DEF DeliverResolved, TypeOK, envVars
<1>6. ASSUME NEW f \in flights, NEW retriable \in BOOLEAN, DeliverRejectedFinally(f, retriable)
      PROVE  TypeOK'
  <2>1. /\ fate' \in Seq(Fate)
        /\ waiting' \subseteq Nat
    BY <1>6, EndedType DEF DeliverRejectedFinally, Conclude, TypeOK, Fate
  <2>2. QED
    BY <1>6, <2>1, SettledType DEF DeliverRejectedFinally, TypeOK, envVars
<1>7. ASSUME NEW f \in flights, DeliverRejectedRetriable(f)
      PROVE  TypeOK'
  <2>1. /\ fate' \in Seq(Fate)
        /\ waiting' \subseteq Nat
    BY <1>7, EndedType DEF DeliverRejectedRetriable, TypeOK, Fate
  <2>2. PICK m \in 0..Len(f.items) : \E pos \in [1..m -> Survivors(f.items)] :
          /\ pending' = [pending EXCEPT ![f.bucket] =
                           [j \in 1..m |-> [f.items[pos[j]] EXCEPT !.attempts = @ + 1]] \o @]
          /\ retryTimer' = (retryTimer \/ m > 0)
    BY <1>7 DEF DeliverRejectedRetriable
  <2>3. PICK pos \in [1..m -> Survivors(f.items)] :
          /\ pending' = [pending EXCEPT ![f.bucket] =
                           [j \in 1..m |-> [f.items[pos[j]] EXCEPT !.attempts = @ + 1]] \o @]
          /\ retryTimer' = (retryTimer \/ m > 0)
    BY <2>2
  <2> DEFINE back == [j \in 1..m |-> [f.items[pos[j]] EXCEPT !.attempts = @ + 1]]
  <2>4. f \in Flight /\ f.items \in Seq(Item) /\ f.bucket \in Bucket
    BY SettledType DEF Flight
  <2>5. \A j \in 1..m : [f.items[pos[j]] EXCEPT !.attempts = @ + 1] \in Item
    <3> TAKE j \in 1..m
    <3>1. f.items[pos[j]] \in Item
      BY <2>4 DEF Survivors
    <3>2. QED
      BY <3>1, FailedOnceMore
  <2>6. m \in Nat /\ back \in [1..m -> Item]
    BY <2>4, <2>5
  <2>7. back \in Seq(Item)
    BY <2>6, FunIsSeq
  <2> HIDE DEF back
  <2>8. pending' \in [Bucket -> Seq(Item)]
    BY <2>3, <2>4, <2>7 DEF back, TypeOK
  <2>9. retryTimer' \in BOOLEAN
    BY <2>3
  <2>10. QED
    BY <1>7, <2>1, <2>8, <2>9, SettledType DEF DeliverRejectedRetriable, TypeOK, envVars
<1>8. ASSUME NEW f \in flights, DeliverFinally(f)
      PROVE  TypeOK'
  <2>1. /\ flights \ {f} \in SUBSET Flight
        /\ pending \in [Bucket -> Seq(Item)]
        /\ inflight \in [Bucket -> SUBSET Content]
        /\ retryTimer \in BOOLEAN
        /\ waiting \in SUBSET Nat
        /\ fate \in Seq(Fate)
        /\ runs \in Seq(Nat)
    BY DEF TypeOK
  <2>2. Drain(pending, flights \ {f}, inflight, FALSE, retryTimer, waiting, fate, runs)
    BY <1>8 DEF DeliverFinally
  <2>3. /\ pending' \in [Bucket -> Seq(Item)]
        /\ inflight' \in [Bucket -> SUBSET Content]
        /\ flights' \subseteq Flight
        /\ draining' \in BOOLEAN
        /\ waiting' \subseteq Nat
        /\ fate' \in Seq(Fate)
        /\ runs' \in Seq(Nat)
    BY <2>1, <2>2, DrainType
  <2>4. QED
    BY <1>8, <2>3 DEF DeliverFinally, TypeOK, envVars
<1>9. CASE RetryFires
  BY <1>9, DrainType DEF RetryFires, TypeOK, envVars
<1>10. CASE StopAgent
  BY <1>10, ClearType DEF StopAgent, TypeOK
<1>11. CASE UnregisterAgent
  BY <1>11, ClearType DEF UnregisterAgent, TypeOK
<1>12. CASE RegisterAgent
  BY <1>12, ClearType DEF RegisterAgent, TypeOK
<1>13. CASE StopAll
  BY <1>13, ClearType DEF StopAll, TypeOK
<1>14. CASE GateMoves
  BY <1>14 DEF GateMoves, TypeOK, queueVars
<1>15. CASE LoadAgent
  BY <1>15 DEF LoadAgent, TypeOK, queueVars
<1>16. CASE UNCHANGED vars
  BY <1>16 DEF vars, queueVars, envVars, TypeOK
<1>17. QED
  BY <1>1, <1>2, <1>3, <1>4, <1>5, <1>6, <1>7, <1>8, <1>9, <1>10, <1>11, <1>12, <1>13, <1>14, <1>15, <1>16
     DEF Next, Enqueue, SettleAny, Settle, FinallyAny

(* Every reachable state is well typed. *)
THEOREM QueueTypeOK == Spec => []TypeOK
<1>1. QED
  BY TypeInit, TypeNext, PTL DEF Spec

-----------------------------------------------------------------------------
(* No lost wake-up and serial delivery. *)

(* Serial delivery, of the state drain starts from or of a caller's part.  *)
Serial(fs, busy, timer) ==
  /\ \A f, g \in fs : f = g
  /\ busy <=> fs # {}
  /\ timer => \A f \in fs : f.settled

(* SerialDelivery, as a condition on the values a task has reached. *)
LEMMA SerialForm == SerialDelivery <=> Serial(flights, draining, retryTimer)
BY DEF SerialDelivery, Serial, Airborne

(* drain launches only when nothing flies, and leaves something behind     *)
(* only when a later drain is certain.                                     *)
LEMMA DrainWakes ==
  ASSUME NEW p, NEW fs, NEW infl, NEW busy \in BOOLEAN, NEW timer \in BOOLEAN,
         NEW w, NEW ft, NEW rn,
         Serial(fs, busy, timer),
         retryTimer' = timer,
         Drain(p, fs, infl, busy, timer, w, ft, rn)
  PROVE  NoStrandedBacklog' /\ SerialDelivery'
<1>1. CASE busy \/ timer \/ ~HasPending(p)
  <2>1. pending' = p /\ flights' = fs /\ draining' = busy
    BY <1>1 DEF Drain
  <2>2. HasPending(pending)' <=> HasPending(p)
    BY <2>1 DEF HasPending
  <2>3. QED
    BY <1>1, <2>1, <2>2 DEF NoStrandedBacklog, SerialDelivery, Serial, Airborne
<1>2. CASE ~(busy \/ timer \/ ~HasPending(p)) /\ blocked
  <2>1. pending' = [b \in Bucket |-> <<>>] /\ flights' = fs /\ draining' = busy
    BY <1>2 DEF Drain, GateDrop
  <2>2. ~HasPending(pending)'
    BY <2>1 DEF HasPending
  <2>3. QED
    BY <1>2, <2>1, <2>2 DEF NoStrandedBacklog, SerialDelivery, Serial, Airborne
<1>3. CASE ~(busy \/ timer \/ ~HasPending(p)) /\ ~blocked
  <2>1. draining' = TRUE /\ \E x : flights' = fs \cup {x}
    BY <1>3 DEF Drain, Launch
  <2>2. fs = {} /\ retryTimer' = FALSE
    BY <1>3 DEF Serial
  <2>3. QED
    BY <2>1, <2>2 DEF NoStrandedBacklog, SerialDelivery, Airborne
<1>4. QED
  BY <1>1, <1>2, <1>3

(* A clear leaves nothing behind and does not touch the delivery.          *)
LEMMA ClearWakes ==
  ASSUME SerialDelivery, ClearQueue
  PROVE  NoStrandedBacklog' /\ SerialDelivery'
BY DEF ClearQueue, NoStrandedBacklog, HasPending, SerialDelivery, Airborne

(* The wake-up invariant holds at the start ... *)
LEMMA WakeInit == Init => NoStrandedBacklog /\ SerialDelivery
BY DEF Init, NoStrandedBacklog, HasPending, SerialDelivery, Airborne

(* ... and every task keeps it: no lost wake-up, no second delivery. *)
LEMMA WakeNext ==
  TypeOK /\ NoStrandedBacklog /\ SerialDelivery /\ [Next]_vars
    => NoStrandedBacklog' /\ SerialDelivery'
<1> SUFFICES ASSUME TypeOK, NoStrandedBacklog, SerialDelivery, [Next]_vars
             PROVE  NoStrandedBacklog' /\ SerialDelivery'
  OBVIOUS
<1> USE DEF Airborne
<1>1. CASE UNCHANGED queueVars
  BY <1>1 DEF queueVars, NoStrandedBacklog, HasPending, SerialDelivery
<1>2. ASSUME NEW b \in Bucket, NEW c \in Content, NEW r \in BOOLEAN, EnqueueQueued(b, c, r)
      PROVE  NoStrandedBacklog' /\ SerialDelivery'
  <2>1. PICK now \in {clock, clock + 1} :
        Drain([pending EXCEPT ![b] =
                    Append(@, [id |-> NewId, content |-> c, resolve |-> r, at |-> now, attempts |-> 0])],
                 flights, inflight, draining, retryTimer,
                 waiting \cup {NewId}, Append(fate, "open"), Append(runs, 0))
    BY <1>2 DEF EnqueueQueued
  <2>2. retryTimer' = retryTimer
    BY <1>2 DEF EnqueueQueued
  <2>3. QED
    BY <2>1, <2>2, SerialForm, DrainWakes DEF TypeOK
<1>3. ASSUME NEW b \in Bucket, NEW c \in Content, WindowCloses(b, c)
      PROVE  NoStrandedBacklog' /\ SerialDelivery'
  BY <1>3 DEF WindowCloses, NoStrandedBacklog, HasPending, SerialDelivery
<1>4. ASSUME NEW f \in flights, Settle(f)
      PROVE  NoStrandedBacklog' /\ SerialDelivery'
  <2>1. ~f.settled /\ flights' = Settled(f) /\ draining' = draining
    BY <1>4 DEF Settle, DeliverResolved, DeliverRejectedFinally, DeliverRejectedRetriable
  <2>2. /\ draining
        /\ \A g, h \in flights' : g = h
        /\ draining' <=> flights' # {}
        /\ {g \in flights' : ~g.settled} = {}
    <3>1. flights = {f} /\ draining
      BY <2>1 DEF SerialDelivery
    <3>2. flights' = {[f EXCEPT !.settled = TRUE]}
      BY <2>1, <3>1 DEF Settled
    <3>3. [f EXCEPT !.settled = TRUE].settled = TRUE
      BY SettledType DEF Flight
    <3>4. QED
      BY <2>1, <3>1, <3>2, <3>3
  <2>3. QED
    BY <2>1, <2>2 DEF NoStrandedBacklog, SerialDelivery
<1>5. ASSUME NEW f \in flights, DeliverFinally(f)
      PROVE  NoStrandedBacklog' /\ SerialDelivery'
  <2>1. flights \ {f} = {}
    BY DEF SerialDelivery
  <2>2. Serial(flights \ {f}, FALSE, retryTimer)
    BY <2>1 DEF Serial
  <2>3. /\ Drain(pending, flights \ {f}, inflight, FALSE, retryTimer, waiting, fate, runs)
        /\ retryTimer' = retryTimer
    BY <1>5 DEF DeliverFinally
  <2>4. QED
    BY <2>2, <2>3, DrainWakes DEF TypeOK
<1>6. CASE RetryFires
  <2>1. Serial(flights, draining, FALSE)
    BY SerialForm DEF Serial
  <2>2. /\ Drain(pending, flights, inflight, draining, FALSE, waiting, fate, runs)
        /\ retryTimer' = FALSE
    BY <1>6 DEF RetryFires
  <2>3. QED
    BY <2>1, <2>2, DrainWakes DEF TypeOK
<1>7. CASE StopAgent \/ UnregisterAgent \/ RegisterAgent \/ StopAll
  BY <1>7, ClearWakes DEF StopAgent, UnregisterAgent, RegisterAgent, StopAll
<1>8. QED
  <2>1. CASE Enqueue
    BY <2>1, <1>1, <1>2 DEF Enqueue, EnqueueDead, EnqueueDeduped
  <2>2. CASE GateMoves \/ LoadAgent \/ UNCHANGED vars
    BY <2>2, <1>1 DEF GateMoves, LoadAgent, vars
  <2>3. QED
    BY <2>1, <2>2, <1>3, <1>4, <1>5, <1>6, <1>7 DEF Next, SettleAny, FinallyAny

(* Whatever waits is drained by a handler or a timer that is still to run, *)
(* for any number of buckets, messages, retries and clears.                *)
THEOREM QueueNeverStrands == Spec => []NoStrandedBacklog
<1>1. QED
  BY TypeInit, TypeNext, WakeInit, WakeNext, PTL DEF Spec

(* An agent never runs two turns at a time, a clear included. *)
THEOREM QueueDeliversSerially == Spec => []SerialDelivery
<1>1. QED
  BY TypeInit, TypeNext, WakeInit, WakeNext, PTL DEF Spec

-----------------------------------------------------------------------------
(* Sequences of messages: their order, and what a retry puts back.         *)

Sorted(q) == \A j, k \in DOMAIN q : j < k => q[j].id < q[k].id
Before(q, r) == \A j \in DOMAIN q, k \in DOMAIN r : q[j].id < r[k].id
UpTo(q, n) == \A k \in DOMAIN q : q[k].id <= n

(* The ids of a sequence of messages are numbers.                          *)
LEMMA NumberedItems ==
  ASSUME NEW q \in Seq(Item)
  PROVE  /\ Len(q) \in Nat
         /\ DOMAIN q = 1..Len(q)
         /\ \A k \in DOMAIN q : q[k] \in Item /\ q[k].id \in Nat
<1>1. Len(q) \in Nat /\ DOMAIN q = 1..Len(q) /\ \A k \in DOMAIN q : q[k] \in Item
  OBVIOUS
<1>2. QED
  BY <1>1 DEF Item

(* A batch and what is left of its bucket are in order, one before the     *)
(* other.                                                                  *)
LEMMA SortedSplit ==
  ASSUME NEW q \in Seq(Item), NEW m \in Nat, Sorted(q), UpTo(q, m), NEW n \in 1..Len(q)
  PROVE  LET front == SubSeq(q, 1, n)
             rest == SubSeq(q, n + 1, Len(q)) IN
         /\ Sorted(front) /\ UpTo(front, m)
         /\ Sorted(rest) /\ UpTo(rest, m)
         /\ Before(front, rest)
<1> DEFINE front == SubSeq(q, 1, n)
           rest == SubSeq(q, n + 1, Len(q))
<1>1. /\ DOMAIN front = 1..n
      /\ \A k \in 1..n : front[k] = q[k] /\ k \in DOMAIN q
  OBVIOUS
<1>2. /\ DOMAIN rest = 1..(Len(q) - n)
      /\ \A k \in 1..(Len(q) - n) : rest[k] = q[n + k] /\ n + k \in DOMAIN q
  OBVIOUS
<1> HIDE DEF front, rest
<1>3. Sorted(front) /\ UpTo(front, m)
  BY <1>1 DEF Sorted, UpTo
<1>4. Sorted(rest) /\ UpTo(rest, m)
  <2>1. \A j, k \in DOMAIN rest : j < k => n + j < n + k
    BY <1>2, NumberedItems
  <2>2. QED
    BY <1>2, <2>1 DEF Sorted, UpTo
<1>5. Before(front, rest)
  <2>1. \A j \in DOMAIN front, k \in DOMAIN rest : j < n + k
    BY <1>1, <1>2, NumberedItems
  <2>2. QED
    BY <1>1, <1>2, <2>1 DEF Sorted, Before
<1>6. QED
  BY <1>3, <1>4, <1>5 DEF front, rest

(* Older messages put back in front of a bucket keep it in order.          *)
LEMMA SortedConcat ==
  ASSUME NEW q \in Seq(Item), NEW r \in Seq(Item), NEW n \in Nat,
         Sorted(q), Sorted(r), Before(q, r), UpTo(q, n), UpTo(r, n)
  PROVE  Sorted(q \o r) /\ UpTo(q \o r, n)
<1>1. /\ DOMAIN (q \o r) = 1..(Len(q) + Len(r))
      /\ \A k \in 1..(Len(q) + Len(r)) :
           \/ k \in DOMAIN q /\ (q \o r)[k] = q[k]
           \/ k - Len(q) \in DOMAIN r /\ k > Len(q) /\ (q \o r)[k] = r[k - Len(q)]
  OBVIOUS
<1>2. DOMAIN q = 1..Len(q) /\ DOMAIN r = 1..Len(r) /\ Len(q) \in Nat /\ Len(r) \in Nat
  OBVIOUS
<1> DEFINE s == q \o r
<1>3. /\ DOMAIN s = 1..(Len(q) + Len(r))
      /\ \A k \in DOMAIN s :
           \/ k \in DOMAIN q /\ s[k] = q[k]
           \/ k - Len(q) \in DOMAIN r /\ k > Len(q) /\ s[k] = r[k - Len(q)]
  BY <1>1
<1> HIDE DEF s
<1>4. UpTo(s, n)
  BY <1>3 DEF UpTo
<1>5. Sorted(s)
  <2> SUFFICES ASSUME NEW j \in DOMAIN s, NEW k \in DOMAIN s, j < k
               PROVE  s[j].id < s[k].id
    BY DEF Sorted
  <2>1. CASE k \in DOMAIN q /\ s[k] = q[k]
    <3>1. j \in DOMAIN q /\ s[j] = q[j]
      BY <1>2, <1>3, <2>1
    <3>2. QED
      BY <2>1, <3>1 DEF Sorted
  <2>2. CASE k - Len(q) \in DOMAIN r /\ s[k] = r[k - Len(q)]
    <3>1. CASE j \in DOMAIN q /\ s[j] = q[j]
      BY <2>2, <3>1 DEF Before
    <3>2. CASE j - Len(q) \in DOMAIN r /\ s[j] = r[j - Len(q)]
      <4>1. j - Len(q) < k - Len(q)
        BY <1>2, <1>3
      <4>2. QED
        BY <2>2, <3>2, <4>1 DEF Sorted
    <3>3. QED
      BY <1>3, <3>1, <3>2
  <2>3. QED
    BY <1>3, <2>1, <2>2
<1>6. QED
  BY <1>4, <1>5 DEF s

(* A new submission is the youngest of its bucket.                         *)
LEMMA SortedAppend ==
  ASSUME NEW q \in Seq(Item), NEW n \in Nat, NEW x \in Item, x.id = n + 1, Sorted(q), UpTo(q, n)
  PROVE  /\ Sorted(Append(q, x)) /\ UpTo(Append(q, x), n + 1)
         /\ \A s \in Seq(Item) : UpTo(s, n) /\ Before(s, q) => UpTo(s, n + 1) /\ Before(s, Append(q, x))
<1>1. /\ DOMAIN Append(q, x) = 1..(Len(q) + 1)
      /\ \A k \in 1..(Len(q) + 1) : \/ k \in DOMAIN q /\ Append(q, x)[k] = q[k]
                                    \/ k = Len(q) + 1 /\ Append(q, x)[k] = x
      /\ DOMAIN q = 1..Len(q) /\ Len(q) \in Nat
  OBVIOUS
<1> DEFINE s == Append(q, x)
<1>2. /\ DOMAIN s = 1..(Len(q) + 1)
      /\ \A k \in DOMAIN s : (k \in DOMAIN q /\ s[k] = q[k]) \/ (k = Len(q) + 1 /\ s[k] = x)
      /\ \A k \in DOMAIN q : q[k].id \in Nat
  BY <1>1, NumberedItems
<1> HIDE DEF s
<1>3. UpTo(s, n + 1)
  BY <1>2 DEF UpTo
<1>4. Sorted(s)
  BY <1>1, <1>2 DEF Sorted, UpTo
<1>5. ASSUME NEW r \in Seq(Item), UpTo(r, n), Before(r, q)
      PROVE  UpTo(r, n + 1) /\ Before(r, s)
  <2>1. \A k \in DOMAIN r : r[k].id \in Nat
    BY NumberedItems
  <2>2. UpTo(r, n + 1)
    BY <1>5, <2>1 DEF UpTo
  <2>3. Before(r, s)
    BY <1>2, <1>5, <2>1 DEF UpTo, Before
  <2>4. QED
    BY <2>2, <2>3
<1>6. QED
  BY <1>3, <1>4, <1>5 DEF s

(* What a retriable failure puts back: the messages that have an attempt   *)
(* left, in the order they had in the batch.                               *)
LEMMA PutBack ==
  ASSUME TypeOK, NEW f \in flights, DeliverRejectedRetriable(f)
  PROVE  \E back \in Seq(Item) :
           /\ pending' = [pending EXCEPT ![f.bucket] = back \o @]
           /\ Sorted(f.items) => Sorted(back)
           /\ Ids(back) = {f.items[k].id : k \in Survivors(f.items)}
<1>1. PICK m \in 0..Len(f.items) : \E pos \in [1..m -> Survivors(f.items)] :
        /\ \A j, k \in 1..m : j < k => pos[j] < pos[k]
        /\ \A k \in Survivors(f.items) : \E j \in 1..m : pos[j] = k
        /\ pending' = [pending EXCEPT ![f.bucket] =
                         [j \in 1..m |-> [f.items[pos[j]] EXCEPT !.attempts = @ + 1]] \o @]
  BY DEF DeliverRejectedRetriable
<1>2. PICK pos \in [1..m -> Survivors(f.items)] :
        /\ \A j, k \in 1..m : j < k => pos[j] < pos[k]
        /\ \A k \in Survivors(f.items) : \E j \in 1..m : pos[j] = k
        /\ pending' = [pending EXCEPT ![f.bucket] =
                         [j \in 1..m |-> [f.items[pos[j]] EXCEPT !.attempts = @ + 1]] \o @]
  BY <1>1
<1> DEFINE back == [j \in 1..m |-> [f.items[pos[j]] EXCEPT !.attempts = @ + 1]]
<1>3. f.items \in Seq(Item)
  BY SettledType DEF Flight
<1>4. \A j \in 1..m : /\ pos[j] \in DOMAIN f.items
                      /\ [f.items[pos[j]] EXCEPT !.attempts = @ + 1] \in Item
                      /\ [f.items[pos[j]] EXCEPT !.attempts = @ + 1].id = f.items[pos[j]].id
  <2> TAKE j \in 1..m
  <2>1. pos[j] \in DOMAIN f.items
    BY DEF Survivors
  <2>2. f.items[pos[j]] \in Item
    BY <1>3, <2>1, NumberedItems
  <2>3. QED
    BY <2>1, <2>2, FailedOnceMore DEF Item
<1>5. m \in Nat
  BY <1>3, NumberedItems
<1>6. back \in [1..m -> Item]
  BY <1>4
<1>7. back \in Seq(Item) /\ DOMAIN back = 1..m
  BY <1>5, <1>6, FunIsSeq
<1>8. \A j \in 1..m : back[j].id = f.items[pos[j]].id
  BY <1>4
<1>9. pending' = [pending EXCEPT ![f.bucket] = back \o @]
  BY <1>2
<1> HIDE DEF back
<1>10. Sorted(f.items) => Sorted(back)
  <2> SUFFICES ASSUME Sorted(f.items), NEW j \in 1..m, NEW k \in 1..m, j < k
               PROVE  back[j].id < back[k].id
    BY <1>7 DEF Sorted
  <2>1. pos[j] < pos[k] /\ pos[j] \in DOMAIN f.items /\ pos[k] \in DOMAIN f.items
    BY <1>2, <1>4
  <2>2. f.items[pos[j]].id < f.items[pos[k]].id
    BY <2>1 DEF Sorted
  <2>3. QED
    BY <1>8, <2>2
<1>11. Ids(back) = {f.items[k].id : k \in Survivors(f.items)}
  BY <1>2, <1>7, <1>8 DEF Ids
<1>12. QED
  BY <1>7, <1>9, <1>10, <1>11

-----------------------------------------------------------------------------
(* A clear is a cut. *)

(* Every message of q was submitted after the mark.  The deliveries that   *)
(* wait for their finally handler are included: they are as young as they  *)
(* were when they were launched.                                           *)
Young(q, mark) == \A k \in DOMAIN q : mark < q[k].id
Cut(p, fs, ep, mark) ==
  /\ \A b \in Bucket : Young(p[b], mark)
  /\ \A f \in fs : f.epoch <= ep /\ (f.epoch = ep => Young(f.items, mark))

CutInv == Cut(pending, flights, epoch, haltMark)

(* The mark is the id of a submission, or 0.                               *)
MarkInv == haltMark <= Len(fate)

(* The inductive form implies the property of the runs.                    *)
LEMMA CutForm == CutInv => HaltIsACut
BY DEF CutInv, Cut, Young, HaltIsACut, PendingIds, AllPendingIds, Ids, Airborne

(* A part of a bucket is as young as the bucket.                           *)
LEMMA YoungPart ==
  ASSUME NEW q \in Seq(Item), NEW mark \in Nat, Young(q, mark), NEW n \in 1..Len(q)
  PROVE  Young(SubSeq(q, 1, n), mark) /\ Young(SubSeq(q, n + 1, Len(q)), mark)
BY DEF Young

(* Two young sequences, one behind the other, are young.                   *)
LEMMA YoungConcat ==
  ASSUME NEW q \in Seq(Item), NEW r \in Seq(Item), NEW mark, Young(q, mark), Young(r, mark)
  PROVE  Young(q \o r, mark)
BY DEF Young

(* What drain hands to deliver was in a bucket.                            *)
LEMMA DrainCuts ==
  ASSUME TypeOK,
         NEW p \in [Bucket -> Seq(Item)], NEW fs \in SUBSET Flight, NEW infl,
         NEW busy, NEW timer, NEW w, NEW ft, NEW rn,
         Cut(p, fs, epoch, haltMark),
         Drain(p, fs, infl, busy, timer, w, ft, rn),
         UNCHANGED <<epoch, haltMark>>
  PROVE  CutInv'
<1>1. CASE busy \/ timer \/ ~HasPending(p)
  BY <1>1 DEF Drain, CutInv
<1>2. CASE ~(busy \/ timer \/ ~HasPending(p)) /\ blocked
  BY <1>2 DEF Drain, GateDrop, CutInv, Cut, Young
<1>3. CASE ~(busy \/ timer \/ ~HasPending(p)) /\ ~blocked
  <2>1. PICK b \in Bucket : \E n \in 1..Len(p[b]) :
          /\ pending' = [p EXCEPT ![b] = SubSeq(@, n + 1, Len(@))]
          /\ flights' = fs \cup {[bucket |-> b, items |-> SubSeq(p[b], 1, n), epoch |-> epoch, settled |-> FALSE]}
    BY <1>3 DEF Drain, Launch
  <2>2. PICK n \in 1..Len(p[b]) :
          /\ pending' = [p EXCEPT ![b] = SubSeq(@, n + 1, Len(@))]
          /\ flights' = fs \cup {[bucket |-> b, items |-> SubSeq(p[b], 1, n), epoch |-> epoch, settled |-> FALSE]}
    BY <2>1
  <2>3. Young(SubSeq(p[b], 1, n), haltMark) /\ Young(SubSeq(p[b], n + 1, Len(p[b])), haltMark)
    BY YoungPart DEF Cut, TypeOK
  <2>4. \A a \in Bucket : Young(pending'[a], haltMark)
    BY <2>2, <2>3 DEF Cut
  <2>5. \A f \in flights' : f.epoch <= epoch /\ (f.epoch = epoch => Young(f.items, haltMark))
    <3> DEFINE new == [bucket |-> b, items |-> SubSeq(p[b], 1, n), epoch |-> epoch, settled |-> FALSE]
    <3>1. new.epoch <= epoch /\ new.items = SubSeq(p[b], 1, n)
      BY DEF TypeOK
    <3>2. flights' = fs \cup {new}
      BY <2>2
    <3> HIDE DEF new
    <3>3. QED
      BY <2>3, <3>1, <3>2 DEF Cut
  <2>6. QED
    BY <2>4, <2>5 DEF CutInv, Cut
<1>4. QED
  BY <1>1, <1>2, <1>3

(* A clear moves the mark, empties the buckets and leaves every delivery   *)
(* in an older epoch.                                                      *)
LEMMA ClearCuts == ASSUME TypeOK, CutInv, ClearQueue PROVE CutInv'
<1>1. \A b \in Bucket : Young(pending'[b], haltMark')
  BY DEF ClearQueue, Young
<1>2. \A f \in flights' : f.epoch <= epoch' /\ f.epoch # epoch'
  <2> TAKE f \in flights'
  <2>1. f \in flights /\ f.epoch \in Nat /\ f.epoch <= epoch /\ epoch \in Nat /\ epoch' = epoch + 1
    BY DEF ClearQueue, CutInv, Cut, TypeOK, Flight
  <2>2. QED
    BY <2>1
<1>3. QED
  BY <1>1, <1>2 DEF CutInv, Cut

(* Settling a delivery does not change what it carries.                    *)
LEMMA SettleCuts ==
  ASSUME TypeOK, CutInv, NEW f \in flights, flights' = Settled(f), UNCHANGED epoch
  PROVE  \A g \in flights' : g.epoch <= epoch' /\ (g.epoch = epoch' => Young(g.items, haltMark))
<1>1. LET g == [f EXCEPT !.settled = TRUE] IN g.epoch = f.epoch /\ g.items = f.items
  BY SettledType DEF Flight
<1>2. QED
  BY <1>1 DEF Settled, CutInv, Cut

(* drain records fates, it submits nothing.                                *)
LEMMA DrainLog ==
  ASSUME NEW p, NEW fs, NEW infl, NEW busy, NEW timer, NEW w, NEW ft \in Seq(Fate), NEW rn,
         Drain(p, fs, infl, busy, timer, w, ft, rn)
  PROVE  Len(fate') = Len(ft)
<1>1. fate' = ft \/ fate' = Ended(ft, AllPendingIds(p), "blocked")
  BY DEF Drain, GateDrop, Launch
<1>2. QED
  BY <1>1, EndedType DEF Fate

(* Submissions are never taken back, and only a clear moves the mark.      *)
LEMMA MarkNext == TypeOK /\ MarkInv /\ [Next]_vars => MarkInv'
<1> SUFFICES ASSUME TypeOK, MarkInv, [Next]_vars
             PROVE  MarkInv'
  OBVIOUS
<1>1. fate \in Seq(Fate) /\ Len(fate) \in Nat /\ haltMark \in Nat
  BY DEF TypeOK
<1>2. ASSUME Len(fate') \in {Len(fate), Len(fate) + 1}, haltMark' \in {haltMark, Len(fate)}
      PROVE  MarkInv'
  BY <1>1, <1>2 DEF MarkInv
<1>3. CASE UNCHANGED <<fate, haltMark>>
  BY <1>2, <1>3
<1>4. CASE Enqueue
  <2>1. haltMark' = haltMark
    BY <1>4 DEF Enqueue, EnqueueDead, EnqueueDeduped, EnqueueQueued
  <2>2. CASE EnqueueDead \/ \E b \in Bucket, c \in Content : EnqueueDeduped(b, c)
    <3>1. fate' = Append(fate, "dead") \/ fate' = Append(fate, "deduped")
      BY <2>2 DEF EnqueueDead, EnqueueDeduped
    <3>2. QED
      BY <1>1, <1>2, <2>1, <3>1
  <2>3. ASSUME NEW b \in Bucket, NEW c \in Content, NEW r \in BOOLEAN, EnqueueQueued(b, c, r)
        PROVE  MarkInv'
    <3>1. Append(fate, "open") \in Seq(Fate) /\ Len(Append(fate, "open")) = Len(fate) + 1
      BY <1>1 DEF Fate
    <3>2. Len(fate') = Len(Append(fate, "open"))
      BY <2>3, <3>1, DrainLog DEF EnqueueQueued
    <3>3. QED
      BY <1>2, <2>1, <3>1, <3>2
  <2>4. QED
    BY <1>4, <2>2, <2>3 DEF Enqueue
<1>5. ASSUME NEW f \in flights, Settle(f)
      PROVE  MarkInv'
  <2>1. /\ haltMark' = haltMark
        /\ \E S, w : w \in Fate /\ fate' = Ended(fate, S, w)
    BY <1>5 DEF Settle, DeliverResolved, DeliverRejectedFinally, DeliverRejectedRetriable, Conclude, Fate
  <2>2. QED
    BY <1>1, <1>2, <2>1, EndedType
<1>6. ASSUME NEW f \in flights, DeliverFinally(f)
      PROVE  MarkInv'
  BY <1>1, <1>2, <1>6, DrainLog DEF DeliverFinally
<1>7. CASE RetryFires
  BY <1>1, <1>2, <1>7, DrainLog DEF RetryFires
<1>8. CASE StopAgent \/ UnregisterAgent \/ RegisterAgent \/ StopAll
  <2>1. haltMark' = Len(fate) /\ fate' = Ended(fate, PendingIds, "dead")
    BY <1>8 DEF StopAgent, UnregisterAgent, RegisterAgent, StopAll, ClearQueue
  <2>2. QED
    BY <1>1, <1>2, <2>1, EndedType DEF Fate
<1>9. QED
  <2>1. CASE GateMoves \/ LoadAgent \/ (\E b \in Bucket, c \in Content : WindowCloses(b, c)) \/ UNCHANGED vars
    BY <2>1, <1>3 DEF GateMoves, LoadAgent, WindowCloses, vars
  <2>2. QED
    BY <2>1, <1>4, <1>5, <1>6, <1>7, <1>8 DEF Next, SettleAny, FinallyAny

(* The cut holds at the start ...                                          *)
LEMMA CutInit == Init => CutInv /\ MarkInv
BY DEF Init, CutInv, Cut, Young, MarkInv

(* ... and every task keeps it.                                            *)
LEMMA CutNext == TypeOK /\ MarkInv /\ CutInv /\ [Next]_vars => CutInv'
<1> SUFFICES ASSUME TypeOK, MarkInv, CutInv, [Next]_vars
             PROVE  CutInv'
  OBVIOUS
<1>1. CASE UNCHANGED <<pending, flights, epoch, haltMark>>
  BY <1>1 DEF CutInv
<1>2. ASSUME NEW b \in Bucket, NEW c \in Content, NEW r \in BOOLEAN, EnqueueQueued(b, c, r)
      PROVE  CutInv'
  <2>1. PICK now \in {clock, clock + 1} :
        Drain([pending EXCEPT ![b] =
                    Append(@, [id |-> NewId, content |-> c, resolve |-> r, at |-> now, attempts |-> 0])],
                 flights, inflight, draining, retryTimer,
                 waiting \cup {NewId}, Append(fate, "open"), Append(runs, 0))
    BY <1>2 DEF EnqueueQueued
  <2> DEFINE item == [id |-> NewId, content |-> c, resolve |-> r, at |-> now, attempts |-> 0]
             p == [pending EXCEPT ![b] = Append(@, item)]
  <2>2. item \in Item /\ haltMark < item.id
    BY DEF TypeOK, NewId, Item, MarkInv
  <2> HIDE DEF item
  <2>3. p \in [Bucket -> Seq(Item)]
    BY <2>2 DEF TypeOK
  <2>4. Cut(p, flights, epoch, haltMark)
    BY <2>2 DEF Cut, CutInv, Young, TypeOK
  <2> HIDE DEF p
  <2>5. Drain(p, flights, inflight, draining, retryTimer, waiting \cup {NewId}, Append(fate, "open"), Append(runs, 0))
    BY <2>1 DEF p, item
  <2>6. flights \in SUBSET Flight /\ UNCHANGED <<epoch, haltMark>>
    BY <1>2 DEF EnqueueQueued, TypeOK
  <2>7. QED
    BY <2>3, <2>4, <2>5, <2>6, DrainCuts
<1>3. ASSUME NEW f \in flights, DeliverResolved(f) \/ \E retriable \in BOOLEAN : DeliverRejectedFinally(f, retriable)
      PROVE  CutInv'
  <2>1. flights' = Settled(f) /\ UNCHANGED <<pending, epoch, haltMark>>
    BY <1>3 DEF DeliverResolved, DeliverRejectedFinally
  <2>2. QED
    BY <2>1, SettleCuts DEF CutInv, Cut
<1>4. ASSUME NEW f \in flights, DeliverRejectedRetriable(f)
      PROVE  CutInv'
  <2>1. /\ flights' = Settled(f)
        /\ f.epoch = epoch
        /\ UNCHANGED <<epoch, haltMark>>
    BY <1>4 DEF DeliverRejectedRetriable
  <2>2. PICK back \in Seq(Item) :
          /\ pending' = [pending EXCEPT ![f.bucket] = back \o @]
          /\ Ids(back) = {f.items[k].id : k \in Survivors(f.items)}
    BY <1>4, PutBack
  <2>3. /\ f.bucket \in Bucket
        /\ pending[f.bucket] \in Seq(Item)
        /\ Young(f.items, haltMark)
        /\ Young(pending[f.bucket], haltMark)
    BY <2>1, SettledType DEF CutInv, Cut, TypeOK, Flight
  <2>4. Young(back, haltMark)
    <3>1. \A j \in DOMAIN back : back[j].id \in {f.items[k].id : k \in Survivors(f.items)}
      BY <2>2 DEF Ids
    <3>2. QED
      BY <2>3, <3>1 DEF Young, Survivors
  <2>5. \A b \in Bucket : Young(pending'[b], haltMark)
    <3>1. Young(back \o pending[f.bucket], haltMark)
      BY <2>3, <2>4, YoungConcat
    <3>2. QED
      BY <2>2, <2>3, <3>1 DEF TypeOK, CutInv, Cut
  <2>6. QED
    BY <2>1, <2>5, SettleCuts DEF CutInv, Cut
<1>5. ASSUME NEW f \in flights, DeliverFinally(f)
      PROVE  CutInv'
  <2>1. Cut(pending, flights \ {f}, epoch, haltMark)
    BY DEF CutInv, Cut
  <2>2. pending \in [Bucket -> Seq(Item)] /\ flights \ {f} \in SUBSET Flight
    BY DEF TypeOK
  <2>3. /\ Drain(pending, flights \ {f}, inflight, FALSE, retryTimer, waiting, fate, runs)
        /\ UNCHANGED <<epoch, haltMark>>
    BY <1>5 DEF DeliverFinally
  <2>4. QED
    BY <2>1, <2>2, <2>3, DrainCuts
<1>6. CASE RetryFires
  <2>1. pending \in [Bucket -> Seq(Item)] /\ flights \in SUBSET Flight
    BY DEF TypeOK
  <2>2. /\ Drain(pending, flights, inflight, draining, FALSE, waiting, fate, runs)
        /\ UNCHANGED <<epoch, haltMark>>
    BY <1>6 DEF RetryFires
  <2>3. QED
    BY <2>1, <2>2, DrainCuts DEF CutInv
<1>7. CASE StopAgent \/ UnregisterAgent \/ RegisterAgent \/ StopAll
  BY <1>7, ClearCuts DEF StopAgent, UnregisterAgent, RegisterAgent, StopAll
<1>8. QED
  <2>1. CASE Enqueue
    BY <2>1, <1>1, <1>2 DEF Enqueue, EnqueueDead, EnqueueDeduped, queueVars
  <2>2. CASE GateMoves \/ LoadAgent \/ (\E b \in Bucket, c \in Content : WindowCloses(b, c)) \/ UNCHANGED vars
    BY <2>2, <1>1 DEF GateMoves, LoadAgent, WindowCloses, vars, queueVars
  <2>3. QED
    BY <2>1, <2>2, <1>3, <1>4, <1>5, <1>6, <1>7 DEF Next, SettleAny, Settle, FinallyAny

(* Whatever fails after an agent was stopped brings nothing back: no       *)
(* message from before a clear waits or is delivered after it.             *)
THEOREM QueueHaltsAreCuts == Spec => []HaltIsACut
<1>1. QED
  BY TypeInit, TypeNext, CutInit, MarkNext, CutNext, CutForm, PTL DEF Spec

-----------------------------------------------------------------------------
(* Arrival order. *)

(* Buckets and deliveries are in order, of submissions that were made; what*)
(* is being delivered is older than what is left in its bucket.            *)
Order(p, fs, n) ==
  /\ \A b \in Bucket : Sorted(p[b]) /\ UpTo(p[b], n)
  /\ \A f \in fs : ~f.settled => Sorted(f.items) /\ UpTo(f.items, n) /\ Before(f.items, p[f.bucket])

OrderInv == Order(pending, flights, Len(fate))

(* The inductive form implies the property of the runs.                    *)
LEMMA OrderForm == OrderInv => ArrivalOrder
BY DEF OrderInv, Order, Sorted, Before, ArrivalOrder, Airborne, Ids

(* drain keeps the order.                                                  *)
LEMMA DrainOrders ==
  ASSUME NEW p \in [Bucket -> Seq(Item)], NEW fs \in SUBSET Flight, NEW infl,
         NEW busy, NEW timer, NEW w, NEW ft \in Seq(Fate), NEW rn,
         Serial(fs, busy, timer), Order(p, fs, Len(ft)),
         Drain(p, fs, infl, busy, timer, w, ft, rn)
  PROVE  OrderInv'
<1>1. Len(fate') = Len(ft) /\ Len(ft) \in Nat
  BY DrainLog
<1>2. CASE busy \/ timer \/ ~HasPending(p)
  BY <1>1, <1>2 DEF Drain, OrderInv
<1>3. CASE ~(busy \/ timer \/ ~HasPending(p)) /\ blocked
  <2>1. pending' = [b \in Bucket |-> <<>>] /\ flights' = {}
    BY <1>3 DEF Drain, GateDrop, Serial
  <2>2. QED
    BY <2>1 DEF OrderInv, Order, Sorted, UpTo
<1>4. CASE ~(busy \/ timer \/ ~HasPending(p)) /\ ~blocked
  <2>1. PICK b \in Bucket : \E n \in 1..Len(p[b]) :
          /\ pending' = [p EXCEPT ![b] = SubSeq(@, n + 1, Len(@))]
          /\ flights' = fs \cup {[bucket |-> b, items |-> SubSeq(p[b], 1, n), epoch |-> epoch, settled |-> FALSE]}
    BY <1>4 DEF Drain, Launch
  <2>2. PICK n \in 1..Len(p[b]) :
          /\ pending' = [p EXCEPT ![b] = SubSeq(@, n + 1, Len(@))]
          /\ flights' = fs \cup {[bucket |-> b, items |-> SubSeq(p[b], 1, n), epoch |-> epoch, settled |-> FALSE]}
    BY <2>1
  <2> DEFINE front == SubSeq(p[b], 1, n)
             rest == SubSeq(p[b], n + 1, Len(p[b]))
  <2>3. /\ Sorted(front) /\ UpTo(front, Len(ft))
        /\ Sorted(rest) /\ UpTo(rest, Len(ft))
        /\ Before(front, rest)
    BY <1>1, SortedSplit DEF Order
  <2>4. fs = {}
    BY <1>4 DEF Serial
  <2>5. pending' = [p EXCEPT ![b] = rest]
    BY <2>2
  <2>6. \A f \in flights' : f.bucket = b /\ f.items = front
    BY <2>2, <2>4
  <2> HIDE DEF front, rest
  <2>7. \A a \in Bucket : Sorted(pending'[a]) /\ UpTo(pending'[a], Len(ft))
    BY <2>3, <2>5 DEF Order
  <2>8. pending'[b] = rest
    BY <2>5
  <2>9. QED
    BY <1>1, <2>3, <2>6, <2>7, <2>8 DEF OrderInv, Order
<1>5. QED
  BY <1>2, <1>3, <1>4

(* The only delivery, once settled, leaves none in the air.                *)
LEMMA SettleLands ==
  ASSUME TypeOK, SerialDelivery, NEW f \in flights, flights' = Settled(f)
  PROVE  flights = {f} /\ \A g \in flights' : g.settled
<1>1. flights = {f}
  BY DEF SerialDelivery
<1>2. [f EXCEPT !.settled = TRUE].settled = TRUE
  BY SettledType DEF Flight
<1>3. QED
  BY <1>1, <1>2 DEF Settled

(* A new submission keeps the order: it is the youngest of all.            *)
LEMMA NewestIsLast ==
  ASSUME TypeOK, Order(pending, flights, Len(fate)), NEW b \in Bucket, NEW x \in Item, x.id = Len(fate) + 1
  PROVE  Order([pending EXCEPT ![b] = Append(@, x)], flights, Len(fate) + 1)
<1> DEFINE p == [pending EXCEPT ![b] = Append(@, x)]
           n == Len(fate) + 1
<1>1. /\ Len(fate) \in Nat
      /\ pending \in [Bucket -> Seq(Item)]
      /\ flights \in SUBSET Flight
  BY DEF TypeOK
<1>2. p[b] = Append(pending[b], x) /\ \A a \in Bucket \ {b} : p[a] = pending[a]
  BY <1>1
<1> HIDE DEF p
<1>3. /\ Sorted(p[b]) /\ UpTo(p[b], n)
      /\ \A s \in Seq(Item) : UpTo(s, Len(fate)) /\ Before(s, pending[b]) => UpTo(s, n) /\ Before(s, p[b])
  <2>1. pending[b] \in Seq(Item) /\ Sorted(pending[b]) /\ UpTo(pending[b], Len(fate))
    BY <1>1 DEF Order
  <2>2. QED
    BY <1>1, <1>2, <2>1, SortedAppend
<1>4. \A a \in Bucket : Sorted(p[a]) /\ UpTo(p[a], n)
  <2> TAKE a \in Bucket
  <2>1. CASE a = b
    BY <1>3, <2>1
  <2>2. CASE a # b
    BY <1>1, <1>2, <2>2, NumberedItems DEF Order, UpTo
  <2>3. QED
    BY <2>1, <2>2
<1>5. \A f \in flights : ~f.settled => Sorted(f.items) /\ UpTo(f.items, n) /\ Before(f.items, p[f.bucket])
  <2> SUFFICES ASSUME NEW f \in flights, ~f.settled
               PROVE  Sorted(f.items) /\ UpTo(f.items, n) /\ Before(f.items, p[f.bucket])
    OBVIOUS
  <2>1. /\ f.items \in Seq(Item) /\ f.bucket \in Bucket
        /\ Sorted(f.items) /\ UpTo(f.items, Len(fate)) /\ Before(f.items, pending[f.bucket])
    BY <1>1 DEF Flight, Order
  <2>2. UpTo(f.items, n)
    BY <1>1, <2>1, NumberedItems DEF UpTo
  <2>3. CASE f.bucket = b
    BY <1>3, <2>1, <2>3
  <2>4. CASE f.bucket # b
    BY <1>2, <2>1, <2>2, <2>4
  <2>5. QED
    BY <2>3, <2>4
<1>6. QED
  BY <1>4, <1>5 DEF Order, p

(* The order holds at the start ...                                        *)
LEMMA OrderInit == Init => OrderInv
BY DEF Init, OrderInv, Order, Sorted, UpTo

(* ... and every task keeps it.                                            *)
LEMMA OrderNext == TypeOK /\ SerialDelivery /\ OrderInv /\ [Next]_vars => OrderInv'
<1> SUFFICES ASSUME TypeOK, SerialDelivery, OrderInv, [Next]_vars
             PROVE  OrderInv'
  OBVIOUS
<1>1. /\ fate \in Seq(Fate) /\ Len(fate) \in Nat
      /\ pending \in [Bucket -> Seq(Item)]
      /\ flights \in SUBSET Flight
      /\ Serial(flights, draining, retryTimer)
      /\ Order(pending, flights, Len(fate))
  BY SerialForm DEF TypeOK, OrderInv
<1>2. ASSUME UNCHANGED <<pending, flights>>, Len(fate') \in {Len(fate), Len(fate) + 1}
      PROVE  OrderInv'
  <2>1. \A q \in Seq(Item) : UpTo(q, Len(fate)) => UpTo(q, Len(fate'))
    BY <1>1, <1>2, NumberedItems DEF UpTo
  <2>2. \A f \in flights : f.items \in Seq(Item)
    BY <1>1 DEF Flight
  <2>3. QED
    BY <1>1, <1>2, <2>1, <2>2 DEF OrderInv, Order
<1>3. CASE EnqueueDead \/ \E b \in Bucket, c \in Content : EnqueueDeduped(b, c)
  <2>1. /\ UNCHANGED <<pending, flights>>
        /\ fate' = Append(fate, "dead") \/ fate' = Append(fate, "deduped")
    BY <1>3 DEF EnqueueDead, EnqueueDeduped, queueVars
  <2>2. QED
    BY <1>1, <1>2, <2>1
<1>4. ASSUME NEW b \in Bucket, NEW c \in Content, NEW r \in BOOLEAN, EnqueueQueued(b, c, r)
      PROVE  OrderInv'
  <2>1. PICK now \in {clock, clock + 1} :
        Drain([pending EXCEPT ![b] =
                    Append(@, [id |-> NewId, content |-> c, resolve |-> r, at |-> now, attempts |-> 0])],
                 flights, inflight, draining, retryTimer,
                 waiting \cup {NewId}, Append(fate, "open"), Append(runs, 0))
    BY <1>4 DEF EnqueueQueued
  <2> DEFINE item == [id |-> NewId, content |-> c, resolve |-> r, at |-> now, attempts |-> 0]
             p == [pending EXCEPT ![b] = Append(@, item)]
             ft == Append(fate, "open")
  <2>2. item \in Item /\ item.id = Len(fate) + 1
    BY DEF TypeOK, NewId, Item
  <2>3. Drain(p, flights, inflight, draining, retryTimer, waiting \cup {NewId}, ft, Append(runs, 0))
    BY <2>1
  <2>4. ft \in Seq(Fate) /\ Len(ft) = Len(fate) + 1
    BY <1>1 DEF Fate
  <2> HIDE DEF item, ft
  <2>5. p \in [Bucket -> Seq(Item)]
    BY <1>1, <2>2
  <2>6. Order(p, flights, Len(ft))
    BY <1>1, <2>2, <2>4, NewestIsLast
  <2> HIDE DEF p
  <2>7. QED
    BY <1>1, <2>3, <2>4, <2>5, <2>6, DrainOrders
<1>5. ASSUME NEW f \in flights, DeliverResolved(f) \/ \E retriable \in BOOLEAN : DeliverRejectedFinally(f, retriable)
      PROVE  OrderInv'
  <2>1. /\ flights' = Settled(f) /\ pending' = pending
        /\ \E S, w : w \in Fate /\ fate' = Ended(fate, S, w)
    BY <1>5 DEF DeliverResolved, DeliverRejectedFinally, Conclude, Fate
  <2>2. Len(fate') = Len(fate)
    BY <1>1, <2>1, EndedType
  <2>3. QED
    BY <1>1, <2>1, <2>2, SettleLands DEF OrderInv, Order
<1>6. ASSUME NEW f \in flights, DeliverRejectedRetriable(f)
      PROVE  OrderInv'
  <2>1. flights' = Settled(f) /\ ~f.settled /\ fate' = Ended(fate, Exhausted(f.items), "dead")
    BY <1>6 DEF DeliverRejectedRetriable
  <2>2. Len(fate') = Len(fate)
    BY <1>1, <2>1, EndedType DEF Fate
  <2>3. PICK back \in Seq(Item) :
          /\ pending' = [pending EXCEPT ![f.bucket] = back \o @]
          /\ Sorted(f.items) => Sorted(back)
          /\ Ids(back) = {f.items[k].id : k \in Survivors(f.items)}
    BY <1>6, PutBack
  <2>4. /\ f.items \in Seq(Item) /\ f.bucket \in Bucket
        /\ Sorted(f.items) /\ UpTo(f.items, Len(fate)) /\ Before(f.items, pending[f.bucket])
    BY <1>1, <2>1 DEF Flight, Order
  <2>5. \A j \in DOMAIN back : \E k \in DOMAIN f.items : back[j].id = f.items[k].id
    <3>1. \A j \in DOMAIN back : back[j].id \in {f.items[k].id : k \in Survivors(f.items)}
      BY <2>3 DEF Ids
    <3>2. QED
      BY <3>1 DEF Survivors
  <2>6. UpTo(back, Len(fate)) /\ Before(back, pending[f.bucket])
    BY <2>4, <2>5 DEF UpTo, Before
  <2>7. Sorted(back \o pending[f.bucket]) /\ UpTo(back \o pending[f.bucket], Len(fate))
    BY <1>1, <2>3, <2>4, <2>6, SortedConcat DEF Order
  <2>8. \A a \in Bucket : Sorted(pending'[a]) /\ UpTo(pending'[a], Len(fate))
    BY <1>1, <2>3, <2>7 DEF Order
  <2>9. QED
    BY <2>1, <2>2, <2>8, SettleLands DEF OrderInv, Order
<1>7. ASSUME NEW f \in flights, DeliverFinally(f)
      PROVE  OrderInv'
  <2>1. Serial(flights \ {f}, FALSE, retryTimer)
    BY DEF SerialDelivery, Serial
  <2>2. Order(pending, flights \ {f}, Len(fate))
    BY <1>1 DEF Order
  <2>3. Drain(pending, flights \ {f}, inflight, FALSE, retryTimer, waiting, fate, runs)
    BY <1>7 DEF DeliverFinally
  <2>4. flights \ {f} \in SUBSET Flight
    BY <1>1
  <2>5. QED
    BY <1>1, <2>1, <2>2, <2>3, <2>4, DrainOrders
<1>8. CASE RetryFires
  <2>1. Serial(flights, draining, FALSE)
    BY <1>1 DEF Serial
  <2>2. Drain(pending, flights, inflight, draining, FALSE, waiting, fate, runs)
    BY <1>8 DEF RetryFires
  <2>3. QED
    BY <1>1, <2>1, <2>2, DrainOrders
<1>9. CASE StopAgent \/ UnregisterAgent \/ RegisterAgent \/ StopAll
  <2>1. /\ pending' = [b \in Bucket |-> <<>>]
        /\ flights' = flights
        /\ fate' = Ended(fate, PendingIds, "dead")
    BY <1>9 DEF StopAgent, UnregisterAgent, RegisterAgent, StopAll, ClearQueue
  <2>2. Len(fate') = Len(fate)
    BY <1>1, <2>1, EndedType DEF Fate
  <2>3. \A f \in flights : f.bucket \in Bucket
    BY <1>1 DEF Flight
  <2>4. QED
    BY <1>1, <2>1, <2>2, <2>3 DEF OrderInv, Order, Sorted, UpTo, Before
<1>10. CASE GateMoves \/ LoadAgent \/ (\E b \in Bucket, c \in Content : WindowCloses(b, c)) \/ UNCHANGED vars
  BY <1>10 DEF GateMoves, LoadAgent, WindowCloses, vars, queueVars, OrderInv
<1>11. QED
  BY <1>3, <1>4, <1>5, <1>6, <1>7, <1>8, <1>9, <1>10 DEF Next, Enqueue, SettleAny, Settle, FinallyAny

(* Retries, merges and clears never change the order of a bucket.          *)
THEOREM QueueKeepsOrder == Spec => []ArrivalOrder
<1>1. QED
  BY TypeInit, TypeNext, WakeInit, WakeNext, OrderInit, OrderNext, OrderForm, PTL DEF Spec

-----------------------------------------------------------------------------
(* Every caller is released exactly once. *)

Open(ft) == {i \in DOMAIN ft : ft[i] = "open"}
Carried(fs) == UNION {Ids(f.items) : f \in {g \in fs : ~g.settled}}
Apart(p) == \A a, b \in Bucket : a # b => Ids(p[a]) \cap Ids(p[b]) = {}
OnlyAt(b, p, p2) == \A a \in Bucket \ {b} : p2[a] = p[a]

(* SettledExactlyOnce, as a condition on the values a task has reached.    *)
Accounts(p, fs, w, ft) ==
  /\ w = AllPendingIds(p) \cup Carried(fs)
  /\ AllPendingIds(p) \cap Carried(fs) = {}
  /\ Apart(p)
  /\ w = Open(ft)

AccountsInv == Accounts(pending, flights, waiting, fate)

(* The two say the same.                                                   *)
LEMMA AccountsForm == AccountsInv <=> SettledExactlyOnce
BY DEF AccountsInv, Accounts, SettledExactlyOnce, PendingIds, AirborneIds, Airborne, Carried, Apart, Open

(* A fate that is not open closes the submissions it is given to.          *)
LEMMA EndedOpen ==
  ASSUME NEW ft \in Seq(Fate), NEW S, NEW w \in Fate \ {"open"}
  PROVE  Open(Ended(ft, S, w)) = Open(ft) \ S
BY DEF Open, Ended

(* A submission is open unless it ended in enqueue.                        *)
LEMMA AppendOpen ==
  ASSUME NEW ft \in Seq(Fate), NEW w \in Fate
  PROVE  Open(Append(ft, w)) = IF w = "open" THEN Open(ft) \cup {Len(ft) + 1} ELSE Open(ft)
<1> DEFINE s == Append(ft, w)
<1>1. /\ DOMAIN ft = 1..Len(ft) /\ Len(ft) \in Nat
      /\ DOMAIN s = 1..(Len(ft) + 1)
      /\ \A i \in 1..Len(ft) : s[i] = ft[i]
      /\ s[Len(ft) + 1] = w
  OBVIOUS
<1> HIDE DEF s
<1>2. \A i : i \in DOMAIN s <=> i \in DOMAIN ft \/ i = Len(ft) + 1
  BY <1>1
<1>3. \A i : i \in Open(s) <=> i \in Open(ft) \/ (i = Len(ft) + 1 /\ w = "open")
  BY <1>1, <1>2 DEF Open
<1>4. QED
  BY <1>3 DEF s

(* Taking messages out of a bucket takes their ids out of what waits.      *)
LEMMA BucketShrinks ==
  ASSUME NEW p, NEW p2, NEW b \in Bucket, NEW S, Apart(p),
         OnlyAt(b, p, p2),
         S \subseteq Ids(p[b]), Ids(p2[b]) = Ids(p[b]) \ S
  PROVE  Apart(p2) /\ AllPendingIds(p2) = AllPendingIds(p) \ S
<1>1. \A a \in Bucket : Ids(p2[a]) = Ids(p[a]) \ S
  BY DEF Apart, OnlyAt
<1>2. Apart(p2)
  BY <1>1 DEF Apart
<1>3. AllPendingIds(p2) = AllPendingIds(p) \ S
  <2>1. \A i : i \in AllPendingIds(p2) <=> \E a \in Bucket : i \in Ids(p2[a])
    BY DEF AllPendingIds
  <2>2. \A i : i \in AllPendingIds(p) <=> \E a \in Bucket : i \in Ids(p[a])
    BY DEF AllPendingIds
  <2>3. QED
    BY <1>1, <2>1, <2>2
<1>4. QED
  BY <1>2, <1>3

(* Putting messages into a bucket that wait nowhere adds their ids.        *)
LEMMA BucketGrows ==
  ASSUME NEW p, NEW p2, NEW b \in Bucket, NEW S, Apart(p),
         OnlyAt(b, p, p2),
         S \cap AllPendingIds(p) = {}, Ids(p2[b]) = Ids(p[b]) \cup S
  PROVE  Apart(p2) /\ AllPendingIds(p2) = AllPendingIds(p) \cup S
<1>1. \A i : i \in AllPendingIds(p2) <=> \E a \in Bucket : i \in Ids(p2[a])
  BY DEF AllPendingIds
<1>2. \A i : i \in AllPendingIds(p) <=> \E a \in Bucket : i \in Ids(p[a])
  BY DEF AllPendingIds
<1>3. Apart(p2)
  <2>1. \A a \in Bucket : Ids(p[a]) \cap S = {}
    BY <1>2
  <2>2. QED
    BY <2>1 DEF Apart, OnlyAt
<1>4. AllPendingIds(p2) = AllPendingIds(p) \cup S
  BY <1>1, <1>2 DEF OnlyAt
<1>5. QED
  BY <1>3, <1>4

(* A bucket in order shares no id between a batch and what is left.        *)
LEMMA IdsSplit ==
  ASSUME NEW q \in Seq(Item), Sorted(q), NEW n \in 1..Len(q)
  PROVE  LET front == SubSeq(q, 1, n)
             rest == SubSeq(q, n + 1, Len(q)) IN
         Ids(front) \subseteq Ids(q) /\ Ids(rest) = Ids(q) \ Ids(front)
<1> DEFINE front == SubSeq(q, 1, n)
           rest == SubSeq(q, n + 1, Len(q))
<1>1. Ids(front) = {q[k].id : k \in 1..n}
  <2>1. DOMAIN front = 1..n /\ \A k \in 1..n : front[k] = q[k]
    OBVIOUS
  <2> HIDE DEF front
  <2>2. QED
    BY <2>1 DEF Ids
<1>2. Ids(rest) = {q[k].id : k \in (n + 1)..Len(q)}
  <2>1. DOMAIN rest = 1..(Len(q) - n) /\ \A k \in 1..(Len(q) - n) : rest[k] = q[n + k]
    OBVIOUS
  <2>2. \A k \in (n + 1)..Len(q) : k - n \in 1..(Len(q) - n) /\ n + (k - n) = k
    BY NumberedItems
  <2>3. \A k \in 1..(Len(q) - n) : n + k \in (n + 1)..Len(q)
    BY NumberedItems
  <2> HIDE DEF rest
  <2>4. \A i \in Ids(rest) : \E k \in (n + 1)..Len(q) : i = q[k].id
    BY <2>1, <2>3 DEF Ids
  <2>5. \A k \in (n + 1)..Len(q) : rest[k - n] = q[k] /\ k - n \in DOMAIN rest
    BY <2>1, <2>2
  <2>6. \A k \in (n + 1)..Len(q) : q[k].id \in Ids(rest)
    BY <2>5 DEF Ids
  <2>7. QED
    BY <2>4, <2>6
<1>3. \A j \in 1..n, k \in (n + 1)..Len(q) : q[j].id # q[k].id
  <2> TAKE j \in 1..n, k \in (n + 1)..Len(q)
  <2>1. j < k /\ j \in DOMAIN q /\ k \in DOMAIN q
    BY NumberedItems
  <2>2. q[j].id < q[k].id /\ q[j].id \in Nat /\ q[k].id \in Nat
    BY <2>1, NumberedItems DEF Sorted
  <2>3. QED
    BY <2>2
<1>4. Ids(q) = {q[k].id : k \in 1..Len(q)}
  BY NumberedItems DEF Ids
<1>5. \A k \in 1..Len(q) : k \in 1..n \/ k \in (n + 1)..Len(q)
  BY NumberedItems
<1>6. 1..n \subseteq 1..Len(q) /\ (n + 1)..Len(q) \subseteq 1..Len(q)
  BY NumberedItems
<1> HIDE DEF front, rest
<1>7. Ids(front) \subseteq Ids(q)
  BY <1>1, <1>4, <1>6
<1>8. Ids(rest) = Ids(q) \ Ids(front)
  BY <1>1, <1>2, <1>3, <1>4, <1>5, <1>6
<1>9. QED
  BY <1>7, <1>8 DEF front, rest

(* The ids of two sequences one behind the other.                          *)
LEMMA IdsConcat ==
  ASSUME NEW q \in Seq(Item), NEW r \in Seq(Item)
  PROVE  Ids(q \o r) = Ids(q) \cup Ids(r)
<1> DEFINE s == q \o r
<1>1. /\ DOMAIN s = 1..(Len(q) + Len(r))
      /\ \A k \in DOMAIN q : k \in DOMAIN s /\ s[k] = q[k]
      /\ \A k \in DOMAIN r : Len(q) + k \in DOMAIN s /\ s[Len(q) + k] = r[k]
      /\ \A k \in DOMAIN s : \/ k \in DOMAIN q /\ s[k] = q[k]
                             \/ k - Len(q) \in DOMAIN r /\ s[k] = r[k - Len(q)]
  OBVIOUS
<1> HIDE DEF s
<1>2. Ids(s) \subseteq Ids(q) \cup Ids(r)
  BY <1>1 DEF Ids
<1>3. Ids(q) \cup Ids(r) \subseteq Ids(s)
  BY <1>1 DEF Ids
<1>4. QED
  BY <1>2, <1>3 DEF s

(* The ids of a bucket with one more message.                              *)
LEMMA IdsAppend ==
  ASSUME NEW q \in Seq(Item), NEW x \in Item
  PROVE  Ids(Append(q, x)) = Ids(q) \cup {x.id}
<1> DEFINE s == Append(q, x)
<1>1. /\ \A k \in DOMAIN q : k \in DOMAIN s /\ s[k] = q[k]
      /\ Len(q) + 1 \in DOMAIN s /\ s[Len(q) + 1] = x
      /\ \A k \in DOMAIN s : (k \in DOMAIN q /\ s[k] = q[k]) \/ s[k] = x
  OBVIOUS
<1> HIDE DEF s
<1>2. QED
  BY <1>1 DEF Ids, s

(* drain moves messages from a bucket to a delivery, or drops them and     *)
(* releases their callers; it never loses one.                             *)
LEMMA DrainAccounts ==
  ASSUME NEW p \in [Bucket -> Seq(Item)], NEW fs \in SUBSET Flight, NEW infl,
         NEW busy, NEW timer, NEW w, NEW ft \in Seq(Fate), NEW rn,
         Serial(fs, busy, timer), Order(p, fs, Len(ft)), Accounts(p, fs, w, ft),
         Drain(p, fs, infl, busy, timer, w, ft, rn)
  PROVE  AccountsInv'
<1>1. CASE busy \/ timer \/ ~HasPending(p)
  BY <1>1 DEF Drain, AccountsInv
<1>2. CASE ~(busy \/ timer \/ ~HasPending(p)) /\ blocked
  <2>1. /\ pending' = [b \in Bucket |-> <<>>]
        /\ flights' = {} /\ fs = {}
        /\ waiting' = w \ AllPendingIds(p)
        /\ fate' = Ended(ft, AllPendingIds(p), "blocked")
    BY <1>2 DEF Drain, GateDrop, Serial
  <2>2. AllPendingIds(pending') = {} /\ Apart(pending')
    BY <2>1 DEF AllPendingIds, Apart, Ids
  <2>3. Carried(flights') = {} /\ Carried(fs) = {}
    BY <2>1 DEF Carried
  <2>4. Open(fate') = Open(ft) \ AllPendingIds(p)
    BY <2>1, EndedOpen DEF Fate
  <2>5. QED
    BY <2>1, <2>2, <2>3, <2>4 DEF AccountsInv, Accounts
<1>3. CASE ~(busy \/ timer \/ ~HasPending(p)) /\ ~blocked
  <2>1. PICK b \in Bucket : \E n \in 1..Len(p[b]) :
          /\ pending' = [p EXCEPT ![b] = SubSeq(@, n + 1, Len(@))]
          /\ flights' = fs \cup {[bucket |-> b, items |-> SubSeq(p[b], 1, n), epoch |-> epoch, settled |-> FALSE]}
          /\ waiting' = w
          /\ fate' = ft
    BY <1>3 DEF Drain, Launch
  <2>2. PICK n \in 1..Len(p[b]) :
          /\ pending' = [p EXCEPT ![b] = SubSeq(@, n + 1, Len(@))]
          /\ flights' = fs \cup {[bucket |-> b, items |-> SubSeq(p[b], 1, n), epoch |-> epoch, settled |-> FALSE]}
          /\ waiting' = w
          /\ fate' = ft
    BY <2>1
  <2> DEFINE front == SubSeq(p[b], 1, n)
             rest == SubSeq(p[b], n + 1, Len(p[b]))
             new == [bucket |-> b, items |-> front, epoch |-> epoch, settled |-> FALSE]
  <2>3. Ids(front) \subseteq Ids(p[b]) /\ Ids(rest) = Ids(p[b]) \ Ids(front)
    BY IdsSplit DEF Order
  <2>4. new.items = front /\ new.settled = FALSE
    OBVIOUS
  <2>5. fs = {}
    BY <1>3 DEF Serial
  <2>6. pending' = [p EXCEPT ![b] = rest] /\ flights' = {new}
    BY <2>2, <2>5
  <2> HIDE DEF front, rest, new
  <2>7. Carried(flights') = Ids(front) /\ Carried(fs) = {}
    BY <2>4, <2>5, <2>6 DEF Carried
  <2>8. Apart(pending') /\ AllPendingIds(pending') = AllPendingIds(p) \ Ids(front)
    <3>1. Apart(p)
      BY DEF Accounts
    <3>2. pending'[b] = rest /\ \A a \in Bucket \ {b} : pending'[a] = p[a]
      BY <2>6
    <3> DEFINE S == Ids(front)
               p1 == p
               p2 == pending'
    <3>3. Apart(p1) /\ OnlyAt(b, p1, p2)
      BY <3>1, <3>2 DEF OnlyAt
    <3>4. S \subseteq Ids(p1[b]) /\ Ids(p2[b]) = Ids(p1[b]) \ S
      BY <2>3, <3>2
    <3> HIDE DEF S, p1, p2
    <3>5. Apart(p2) /\ AllPendingIds(p2) = AllPendingIds(p1) \ S
      BY <3>3, <3>4, BucketShrinks
    <3>6. QED
      BY <3>5 DEF S, p1, p2
  <2>9. Ids(front) \subseteq AllPendingIds(p)
    BY <2>3 DEF AllPendingIds
  <2>10. QED
    BY <2>2, <2>7, <2>8, <2>9 DEF AccountsInv, Accounts
<1>4. QED
  BY <1>1, <1>2, <1>3

(* The accounts balance at the start ...                                   *)
LEMMA AccountsInit == Init => AccountsInv
<1> SUFFICES ASSUME Init PROVE AccountsInv
  OBVIOUS
<1>1. AllPendingIds(pending) = {} /\ Apart(pending)
  BY DEF Init, AllPendingIds, Apart, Ids
<1>2. Carried(flights) = {} /\ Open(fate) = {} /\ waiting = {}
  BY DEF Init, Carried, Open
<1>3. QED
  BY <1>1, <1>2 DEF AccountsInv, Accounts

(* ... and every task keeps them so.                                       *)
LEMMA AccountsNext == TypeOK /\ SerialDelivery /\ OrderInv /\ AccountsInv /\ [Next]_vars => AccountsInv'
<1> SUFFICES ASSUME TypeOK, SerialDelivery, OrderInv, AccountsInv, [Next]_vars
             PROVE  AccountsInv'
  OBVIOUS
<1>1. /\ fate \in Seq(Fate) /\ Len(fate) \in Nat
      /\ pending \in [Bucket -> Seq(Item)]
      /\ flights \in SUBSET Flight
      /\ Serial(flights, draining, retryTimer)
      /\ Order(pending, flights, Len(fate))
      /\ Accounts(pending, flights, waiting, fate)
  BY SerialForm DEF TypeOK, OrderInv, AccountsInv
<1>2. ASSUME NEW f \in flights, ~f.settled, flights' = Settled(f)
      PROVE  Carried(flights) = Ids(f.items) /\ Carried(flights') = {}
  <2>1. flights = {f} /\ \A g \in flights' : g.settled
    BY <1>2, SettleLands
  <2>2. QED
    BY <1>2, <2>1 DEF Carried
<1>3. CASE EnqueueDead \/ \E b \in Bucket, c \in Content : EnqueueDeduped(b, c)
  <2>1. /\ UNCHANGED <<pending, flights, waiting>>
        /\ fate' = Append(fate, "dead") \/ fate' = Append(fate, "deduped")
    BY <1>3 DEF EnqueueDead, EnqueueDeduped, queueVars
  <2>2. Open(fate') = Open(fate)
    BY <1>1, <2>1, AppendOpen DEF Fate
  <2>3. QED
    BY <1>1, <2>1, <2>2 DEF AccountsInv, Accounts
<1>4. ASSUME NEW b \in Bucket, NEW c \in Content, NEW r \in BOOLEAN, EnqueueQueued(b, c, r)
      PROVE  AccountsInv'
  <2>1. PICK now \in {clock, clock + 1} :
        Drain([pending EXCEPT ![b] =
                    Append(@, [id |-> NewId, content |-> c, resolve |-> r, at |-> now, attempts |-> 0])],
                 flights, inflight, draining, retryTimer,
                 waiting \cup {NewId}, Append(fate, "open"), Append(runs, 0))
    BY <1>4 DEF EnqueueQueued
  <2> DEFINE item == [id |-> NewId, content |-> c, resolve |-> r, at |-> now, attempts |-> 0]
             p == [pending EXCEPT ![b] = Append(@, item)]
             ft == Append(fate, "open")
             w == waiting \cup {NewId}
  <2>2. item \in Item /\ item.id = NewId /\ NewId = Len(fate) + 1
    BY DEF TypeOK, NewId, Item
  <2>3. Drain(p, flights, inflight, draining, retryTimer, w, ft, Append(runs, 0))
    BY <2>1
  <2>4. ft \in Seq(Fate) /\ Len(ft) = Len(fate) + 1 /\ Open(ft) = Open(fate) \cup {NewId}
    BY <1>1, AppendOpen DEF Fate, NewId
  <2> HIDE DEF item, ft
  <2>5. p \in [Bucket -> Seq(Item)] /\ p = [pending EXCEPT ![b] = Append(pending[b], item)]
    BY <1>1, <2>2
  <2>6. Order(p, flights, Len(ft))
    BY <1>1, <2>2, <2>4, NewestIsLast
  <2> HIDE DEF p
  <2>7. NewId \notin AllPendingIds(pending) /\ NewId \notin Carried(flights)
    <3>1. ASSUME NEW q \in Seq(Item), UpTo(q, Len(fate))
          PROVE  NewId \notin Ids(q)
      BY <1>1, <2>2, <3>1, NumberedItems DEF UpTo, Ids
    <3>2. \A a \in Bucket : NewId \notin Ids(pending[a])
      BY <1>1, <3>1 DEF Order
    <3>3. \A f \in flights : ~f.settled => NewId \notin Ids(f.items)
      BY <1>1, <3>1 DEF Order, Flight
    <3>4. QED
      BY <3>2, <3>3 DEF AllPendingIds, Carried
  <2>8. Apart(p) /\ AllPendingIds(p) = AllPendingIds(pending) \cup {NewId}
    <3>1. Ids(Append(pending[b], item)) = Ids(pending[b]) \cup {NewId}
      BY <1>1, <2>2, IdsAppend
    <3>2. Apart(pending) /\ {NewId} \cap AllPendingIds(pending) = {}
      BY <1>1, <2>7 DEF Accounts
    <3>3. p[b] = Append(pending[b], item) /\ \A a \in Bucket \ {b} : p[a] = pending[a]
      BY <1>1, <2>5
    <3>4. Ids(p[b]) = Ids(pending[b]) \cup {NewId}
      BY <3>1, <3>3
    <3> DEFINE S == {NewId}
               p1 == pending
    <3>5. Apart(p1) /\ OnlyAt(b, p1, p)
      BY <3>2, <3>3 DEF OnlyAt
    <3>6. S \cap AllPendingIds(p1) = {} /\ Ids(p[b]) = Ids(p1[b]) \cup S
      BY <3>2, <3>4
    <3> HIDE DEF S, p1
    <3>7. Apart(p) /\ AllPendingIds(p) = AllPendingIds(p1) \cup S
      BY <3>5, <3>6, BucketGrows
    <3>8. QED
      BY <3>7 DEF S, p1
  <2>9. Accounts(p, flights, w, ft)
    BY <1>1, <2>4, <2>7, <2>8 DEF Accounts
  <2> HIDE DEF w
  <2>10. QED
    BY <1>1, <2>3, <2>4, <2>5, <2>6, <2>9, DrainAccounts
<1>5. ASSUME NEW f \in flights, DeliverResolved(f) \/ \E retriable \in BOOLEAN : DeliverRejectedFinally(f, retriable)
      PROVE  AccountsInv'
  <2>1. /\ flights' = Settled(f) /\ pending' = pending /\ ~f.settled
        /\ waiting' = waiting \ Ids(f.items)
        /\ \E w \in Fate \ {"open"} : fate' = Ended(fate, Ids(f.items), w)
    BY <1>5 DEF DeliverResolved, DeliverRejectedFinally, Conclude, Fate
  <2>2. Open(fate') = Open(fate) \ Ids(f.items)
    BY <1>1, <2>1, EndedOpen
  <2>3. Carried(flights) = Ids(f.items) /\ Carried(flights') = {}
    BY <1>2, <2>1
  <2>4. waiting' = AllPendingIds(pending)
    BY <1>1, <2>1, <2>3 DEF Accounts
  <2>5. Open(fate') = AllPendingIds(pending)
    BY <1>1, <2>1, <2>2, <2>4 DEF Accounts
  <2>6. QED
    BY <1>1, <2>1, <2>3, <2>4, <2>5 DEF AccountsInv, Accounts
<1>6. ASSUME NEW f \in flights, DeliverRejectedRetriable(f)
      PROVE  AccountsInv'
  <2>1. /\ flights' = Settled(f) /\ ~f.settled
        /\ waiting' = waiting \ Exhausted(f.items)
        /\ fate' = Ended(fate, Exhausted(f.items), "dead")
    BY <1>6 DEF DeliverRejectedRetriable
  <2>2. Carried(flights) = Ids(f.items) /\ Carried(flights') = {}
    BY <1>2, <2>1
  <2>3. Open(fate') = Open(fate) \ Exhausted(f.items)
    BY <1>1, <2>1, EndedOpen DEF Fate
  <2>4. PICK back \in Seq(Item) :
          /\ pending' = [pending EXCEPT ![f.bucket] = back \o pending[f.bucket]]
          /\ Ids(back) = {f.items[k].id : k \in Survivors(f.items)}
    BY <1>6, PutBack
  <2>5. /\ f.items \in Seq(Item) /\ f.bucket \in Bucket /\ pending[f.bucket] \in Seq(Item)
        /\ Sorted(f.items)
    BY <1>1, <2>1 DEF Flight, Order
  <2>6. Ids(back) = Ids(f.items) \ Exhausted(f.items)
    <3>1. \A j, k \in DOMAIN f.items : f.items[j].id = f.items[k].id => j = k
      <4> TAKE j, k \in DOMAIN f.items
      <4>1. /\ j \in Nat /\ k \in Nat
            /\ f.items[j].id \in Nat /\ f.items[k].id \in Nat
            /\ j < k => f.items[j].id < f.items[k].id
            /\ k < j => f.items[k].id < f.items[j].id
        BY <2>5, NumberedItems DEF Sorted
      <4>2. QED
        BY <4>1
    <3>2. Survivors(f.items) \subseteq DOMAIN f.items
      BY DEF Survivors
    <3>3. QED
      BY <2>4, <3>1, <3>2 DEF Ids, Exhausted
  <2>7. Apart(pending') /\ AllPendingIds(pending') = AllPendingIds(pending) \cup Ids(back)
    <3>1. Ids(back \o pending[f.bucket]) = Ids(pending[f.bucket]) \cup Ids(back)
      BY <2>5, IdsConcat
    <3>2. Apart(pending) /\ Ids(back) \cap AllPendingIds(pending) = {}
      BY <1>1, <2>2, <2>6 DEF Accounts
    <3>3. /\ pending'[f.bucket] = back \o pending[f.bucket]
          /\ \A a \in Bucket \ {f.bucket} : pending'[a] = pending[a]
      BY <1>1, <2>4, <2>5
    <3>4. Ids(pending'[f.bucket]) = Ids(pending[f.bucket]) \cup Ids(back)
      BY <3>1, <3>3
    <3> DEFINE S == Ids(back)
               p1 == pending
               p2 == pending'
               c == f.bucket
    <3>5. Apart(p1) /\ OnlyAt(c, p1, p2)
      BY <3>2, <3>3 DEF OnlyAt
    <3>6. c \in Bucket
      BY <2>5
    <3>7. S \cap AllPendingIds(p1) = {} /\ Ids(p2[c]) = Ids(p1[c]) \cup S
      BY <3>2, <3>4
    <3> HIDE DEF S, p1, p2, c
    <3>8. Apart(p2) /\ AllPendingIds(p2) = AllPendingIds(p1) \cup S
      BY <3>5, <3>6, <3>7, BucketGrows
    <3>9. QED
      BY <3>8 DEF S, p1, p2, c
  <2>8. Exhausted(f.items) \subseteq Ids(f.items)
    BY DEF Exhausted, Ids
  <2>9. QED
    BY <1>1, <2>1, <2>2, <2>3, <2>6, <2>7, <2>8 DEF AccountsInv, Accounts
<1>7. ASSUME NEW f \in flights, DeliverFinally(f)
      PROVE  AccountsInv'
  <2>1. f.settled /\ Drain(pending, flights \ {f}, inflight, FALSE, retryTimer, waiting, fate, runs)
    BY <1>7 DEF DeliverFinally
  <2>2. Serial(flights \ {f}, FALSE, retryTimer)
    BY DEF SerialDelivery, Serial
  <2>3. Order(pending, flights \ {f}, Len(fate))
    BY <1>1 DEF Order
  <2>4. Carried(flights \ {f}) = Carried(flights)
    BY <2>1 DEF Carried
  <2>5. Accounts(pending, flights \ {f}, waiting, fate)
    BY <1>1, <2>4 DEF Accounts
  <2>6. flights \ {f} \in SUBSET Flight
    BY <1>1
  <2>7. QED
    BY <1>1, <2>1, <2>2, <2>3, <2>5, <2>6, DrainAccounts
<1>8. CASE RetryFires
  <2>1. Serial(flights, draining, FALSE)
    BY <1>1 DEF Serial
  <2>2. Drain(pending, flights, inflight, draining, FALSE, waiting, fate, runs)
    BY <1>8 DEF RetryFires
  <2>3. QED
    BY <1>1, <2>1, <2>2, DrainAccounts
<1>9. CASE StopAgent \/ UnregisterAgent \/ RegisterAgent \/ StopAll
  <2>1. /\ pending' = [b \in Bucket |-> <<>>]
        /\ flights' = flights
        /\ waiting' = waiting \ AllPendingIds(pending)
        /\ fate' = Ended(fate, AllPendingIds(pending), "dead")
    BY <1>9 DEF StopAgent, UnregisterAgent, RegisterAgent, StopAll, ClearQueue, PendingIds
  <2>2. Open(fate') = Open(fate) \ AllPendingIds(pending)
    BY <1>1, <2>1, EndedOpen DEF Fate
  <2>3. AllPendingIds(pending') = {} /\ Apart(pending')
    BY <2>1 DEF AllPendingIds, Apart, Ids
  <2>4. QED
    BY <1>1, <2>1, <2>2, <2>3 DEF AccountsInv, Accounts
<1>10. CASE GateMoves \/ LoadAgent \/ (\E b \in Bucket, c \in Content : WindowCloses(b, c)) \/ UNCHANGED vars
  BY <1>10 DEF GateMoves, LoadAgent, WindowCloses, vars, queueVars, AccountsInv
<1>11. QED
  BY <1>3, <1>4, <1>5, <1>6, <1>7, <1>8, <1>9, <1>10 DEF Next, Enqueue, SettleAny, Settle, FinallyAny

(* Whatever fails, is stopped or is dropped, every caller is released once *)
(* and none before its message has ended.                                  *)
THEOREM QueueSettlesOnce == Spec => []SettledExactlyOnce
<1>1. QED
  BY TypeInit, TypeNext, WakeInit, WakeNext, OrderInit, OrderNext, AccountsInit, AccountsNext, AccountsForm, PTL DEF Spec

-----------------------------------------------------------------------------
(* Copies, attempts and lone resolves. *)

(* No two messages of q that dedup compares have the same content.         *)
Distinct(q) ==
  \A j, k \in DOMAIN q : j # k /\ ~q[j].resolve /\ ~q[k].resolve => q[j].content # q[k].content

(* The contents kept as in flight are those of the delivery that runs in   *)
(* this epoch, and no copy of them waits.                                  *)
Copies(p, fs, infl, ep) ==
  /\ \A b \in Bucket : Distinct(p[b]) /\ infl[b] \cap DedupContents(p[b]) = {}
  /\ \A f \in fs : /\ ~f.settled /\ f.epoch = ep => DedupContents(f.items) \subseteq infl[f.bucket]
                   /\ Distinct(f.items)
  /\ \A b \in Bucket : \A c \in infl[b] :
       \E f \in fs : ~f.settled /\ f.bucket = b /\ f.epoch = ep /\ c \in DedupContents(f.items)

CopiesInv == Copies(pending, flights, inflight, epoch)

(* The attempts of a message count its deliveries, but for the n that have *)
(* not failed yet, and one attempt is left to it.                          *)
Tried(q, rn, n) ==
  \A k \in DOMAIN q : /\ q[k].id \in DOMAIN rn
                      /\ rn[q[k].id] <= q[k].attempts + n
                      /\ q[k].attempts < MaxRetries

Tries(p, fs, rn, n) ==
  /\ \A b \in Bucket : Tried(p[b], rn, 0)
  /\ \A f \in fs : ~f.settled => Tried(f.items, rn, 1)
  /\ \A i \in DOMAIN rn : rn[i] <= MaxRetries
  /\ Len(rn) = n

TriesInv == Tries(pending, flights, runs, Len(fate))

(* The inductive forms imply the property of the runs.                     *)
LEMMA ItemsForm == CopiesInv /\ TriesInv /\ ResolveTravelsAlone => ItemsAreAccounted
<1> SUFFICES ASSUME CopiesInv, TriesInv, ResolveTravelsAlone
             PROVE  OneLiveCopy /\ InflightIsLive /\ RetryBudget
  BY DEF ItemsAreAccounted
<1>1. OneLiveCopy
  BY DEF OneLiveCopy, CopiesInv, Copies, Distinct, LiveFlights, Airborne
<1>2. InflightIsLive
  BY DEF InflightIsLive, CopiesInv, Copies, LiveFlights, Airborne
<1>3. RetryBudget
  BY DEF RetryBudget, TriesInv, Tries
<1>4. QED
  BY <1>1, <1>2, <1>3

(* A batch and what is left of its bucket share no content.                *)
LEMMA DistinctSplit ==
  ASSUME NEW q \in Seq(Item), Distinct(q), NEW n \in 1..Len(q)
  PROVE  LET front == SubSeq(q, 1, n)
             rest == SubSeq(q, n + 1, Len(q)) IN
         /\ Distinct(front) /\ Distinct(rest)
         /\ DedupContents(front) \cap DedupContents(rest) = {}
         /\ DedupContents(rest) \subseteq DedupContents(q)
<1> DEFINE front == SubSeq(q, 1, n)
           rest == SubSeq(q, n + 1, Len(q))
<1>1. /\ DOMAIN front = 1..n
      /\ \A k \in 1..n : front[k] = q[k] /\ k \in DOMAIN q
  OBVIOUS
<1>2. /\ DOMAIN rest = 1..(Len(q) - n)
      /\ \A k \in 1..(Len(q) - n) : rest[k] = q[n + k] /\ n + k \in DOMAIN q
  OBVIOUS
<1>3. n \in Nat /\ Len(q) \in Nat
  OBVIOUS
<1> HIDE DEF front, rest
<1>4. Distinct(front)
  BY <1>1 DEF Distinct
<1>5. Distinct(rest)
  <2> SUFFICES ASSUME NEW j \in DOMAIN rest, NEW k \in DOMAIN rest, j # k, ~rest[j].resolve, ~rest[k].resolve
               PROVE  rest[j].content # rest[k].content
    BY DEF Distinct
  <2>1. n + j # n + k /\ n + j \in DOMAIN q /\ n + k \in DOMAIN q
    BY <1>2, <1>3
  <2>2. QED
    BY <1>2, <2>1 DEF Distinct
<1>6. ASSUME NEW c \in DedupContents(front), c \in DedupContents(rest)
      PROVE  FALSE
  <2>1. PICK j \in DOMAIN front : ~front[j].resolve /\ front[j].content = c
    BY DEF DedupContents
  <2>2. PICK k \in DOMAIN rest : ~rest[k].resolve /\ rest[k].content = c
    BY <1>6 DEF DedupContents
  <2>3. j \in DOMAIN q /\ n + k \in DOMAIN q /\ j # n + k
    BY <1>1, <1>2, <1>3
  <2>4. QED
    BY <1>1, <1>2, <2>1, <2>2, <2>3 DEF Distinct
<1>7. DedupContents(rest) \subseteq DedupContents(q)
  BY <1>2 DEF DedupContents
<1>8. QED
  BY <1>4, <1>5, <1>6, <1>7 DEF front, rest

(* Two sequences without a common content, one behind the other.           *)
LEMMA DistinctConcat ==
  ASSUME NEW q \in Seq(Item), NEW r \in Seq(Item), Distinct(q), Distinct(r),
         DedupContents(q) \cap DedupContents(r) = {}
  PROVE  Distinct(q \o r)
<1> DEFINE s == q \o r
<1>1. /\ DOMAIN s = 1..(Len(q) + Len(r))
      /\ \A k \in DOMAIN s : \/ k \in DOMAIN q /\ s[k] = q[k]
                             \/ k - Len(q) \in DOMAIN r /\ s[k] = r[k - Len(q)]
      /\ Len(q) \in Nat /\ Len(r) \in Nat
  OBVIOUS
<1> HIDE DEF s
<1> SUFFICES ASSUME NEW j \in DOMAIN s, NEW k \in DOMAIN s, j # k, ~s[j].resolve, ~s[k].resolve,
                    s[j].content = s[k].content
             PROVE  FALSE
  BY DEF Distinct, s
<1>2. \A i \in DOMAIN q : ~q[i].resolve => q[i].content \in DedupContents(q)
  BY DEF DedupContents
<1>3. \A i \in DOMAIN r : ~r[i].resolve => r[i].content \in DedupContents(r)
  BY DEF DedupContents
<1>4. CASE j \in DOMAIN q /\ s[j] = q[j]
  <2>1. CASE k \in DOMAIN q /\ s[k] = q[k]
    BY <1>4, <2>1 DEF Distinct
  <2>2. CASE k - Len(q) \in DOMAIN r /\ s[k] = r[k - Len(q)]
    BY <1>2, <1>3, <1>4, <2>2
  <2>3. QED
    BY <1>1, <2>1, <2>2
<1>5. CASE j - Len(q) \in DOMAIN r /\ s[j] = r[j - Len(q)]
  <2>1. CASE k \in DOMAIN q /\ s[k] = q[k]
    BY <1>2, <1>3, <1>5, <2>1
  <2>2. CASE k - Len(q) \in DOMAIN r /\ s[k] = r[k - Len(q)]
    <3>1. j - Len(q) # k - Len(q)
      BY <1>1
    <3>2. QED
      BY <1>5, <2>2, <3>1 DEF Distinct
  <2>3. QED
    BY <1>1, <2>1, <2>2
<1>6. QED
  BY <1>1, <1>4, <1>5

(* What dedup sees of two sequences, one behind the other.                 *)
LEMMA DedupConcat ==
  ASSUME NEW q \in Seq(Item), NEW r \in Seq(Item)
  PROVE  DedupContents(q \o r) \subseteq DedupContents(q) \cup DedupContents(r)
<1> DEFINE s == q \o r
<1>1. \A k \in DOMAIN s : \/ k \in DOMAIN q /\ s[k] = q[k]
                          \/ k - Len(q) \in DOMAIN r /\ s[k] = r[k - Len(q)]
  OBVIOUS
<1> HIDE DEF s
<1>2. DedupContents(s) \subseteq DedupContents(q) \cup DedupContents(r)
  BY <1>1 DEF DedupContents
<1>3. QED
  BY <1>2 DEF s

(* A message dedup let through leaves its bucket without copies.           *)
LEMMA DistinctAppend ==
  ASSUME NEW q \in Seq(Item), NEW x \in Item, Distinct(q),
         x.resolve \/ x.content \notin DedupContents(q)
  PROVE  /\ Distinct(Append(q, x))
         /\ DedupContents(Append(q, x)) \subseteq
              DedupContents(q) \cup (IF x.resolve THEN {} ELSE {x.content})
<1> DEFINE s == Append(q, x)
<1>1. /\ DOMAIN s = 1..(Len(q) + 1)
      /\ \A k \in DOMAIN s : (k \in DOMAIN q /\ s[k] = q[k]) \/ (k = Len(q) + 1 /\ s[k] = x)
  OBVIOUS
<1> HIDE DEF s
<1>2. \A i \in DOMAIN q : ~q[i].resolve => q[i].content \in DedupContents(q)
  BY DEF DedupContents
<1>3. Distinct(s)
  <2> SUFFICES ASSUME NEW j \in DOMAIN s, NEW k \in DOMAIN s, j # k, ~s[j].resolve, ~s[k].resolve
               PROVE  s[j].content # s[k].content
    BY DEF Distinct
  <2>1. CASE j \in DOMAIN q /\ s[j] = q[j] /\ k \in DOMAIN q /\ s[k] = q[k]
    BY <2>1 DEF Distinct
  <2>2. QED
    BY <1>1, <1>2, <2>1
<1>4. DedupContents(s) \subseteq DedupContents(q) \cup (IF x.resolve THEN {} ELSE {x.content})
  BY <1>1 DEF DedupContents
<1>5. QED
  BY <1>3, <1>4 DEF s

(* What a retriable failure puts back is messages of the batch, each with  *)
(* one attempt more and one left, no two from one place.                   *)
LEMMA PutBackItems ==
  ASSUME TypeOK, NEW f \in flights, DeliverRejectedRetriable(f)
  PROVE  \E back \in Seq(Item) :
           /\ pending' = [pending EXCEPT ![f.bucket] = back \o @]
           /\ Distinct(f.items) => Distinct(back)
           /\ DedupContents(back) \subseteq DedupContents(f.items)
           /\ \A k \in DOMAIN back : \E j \in DOMAIN f.items :
                /\ back[k].id = f.items[j].id
                /\ back[k].attempts = f.items[j].attempts + 1
                /\ back[k].attempts < MaxRetries
<1>1. PICK m \in 0..Len(f.items) : \E pos \in [1..m -> Survivors(f.items)] :
        /\ \A j, k \in 1..m : j < k => pos[j] < pos[k]
        /\ pending' = [pending EXCEPT ![f.bucket] =
                         [j \in 1..m |-> [f.items[pos[j]] EXCEPT !.attempts = @ + 1]] \o @]
  BY DEF DeliverRejectedRetriable
<1>2. PICK pos \in [1..m -> Survivors(f.items)] :
        /\ \A j, k \in 1..m : j < k => pos[j] < pos[k]
        /\ pending' = [pending EXCEPT ![f.bucket] =
                         [j \in 1..m |-> [f.items[pos[j]] EXCEPT !.attempts = @ + 1]] \o @]
  BY <1>1
<1> DEFINE back == [j \in 1..m |-> [f.items[pos[j]] EXCEPT !.attempts = @ + 1]]
<1>3. f.items \in Seq(Item)
  BY SettledType DEF Flight
<1>4. m \in Nat
  BY <1>3, NumberedItems
<1>5. \A j \in 1..m : /\ pos[j] \in DOMAIN f.items
                      /\ pos[j] \in Nat
                      /\ f.items[pos[j]] \in Item
                      /\ f.items[pos[j]].attempts + 1 < MaxRetries
  <2> TAKE j \in 1..m
  <2>1. pos[j] \in DOMAIN f.items /\ f.items[pos[j]].attempts + 1 < MaxRetries
    BY DEF Survivors
  <2>2. pos[j] \in Nat /\ f.items[pos[j]] \in Item
    BY <1>3, <2>1, NumberedItems
  <2>3. QED
    BY <2>1, <2>2
<1>6. \A x \in Item : LET y == [x EXCEPT !.attempts = @ + 1] IN
        /\ y \in Item
        /\ y.id = x.id /\ y.content = x.content /\ y.resolve = x.resolve
        /\ y.attempts = x.attempts + 1
  BY DEF Item
<1>7. \A j \in 1..m : /\ back[j] \in Item
                      /\ back[j].id = f.items[pos[j]].id
                      /\ back[j].content = f.items[pos[j]].content
                      /\ back[j].resolve = f.items[pos[j]].resolve
                      /\ back[j].attempts = f.items[pos[j]].attempts + 1
  BY <1>5, <1>6
<1>8. back \in [1..m -> Item]
  BY <1>7
<1>9. back \in Seq(Item) /\ DOMAIN back = 1..m
  BY <1>4, <1>8, FunIsSeq
<1>10. pending' = [pending EXCEPT ![f.bucket] = back \o @]
  BY <1>2
<1> HIDE DEF back
<1>11. \A j, k \in 1..m : j # k => pos[j] # pos[k]
  <2> TAKE j, k \in 1..m
  <2>1. pos[j] \in Nat /\ pos[k] \in Nat /\ (j < k => pos[j] < pos[k]) /\ (k < j => pos[k] < pos[j])
    BY <1>2, <1>5
  <2>2. QED
    BY <1>4, <2>1
<1>12. Distinct(f.items) => Distinct(back)
  <2> SUFFICES ASSUME Distinct(f.items), NEW j \in 1..m, NEW k \in 1..m,
                      j # k, ~back[j].resolve, ~back[k].resolve
               PROVE  back[j].content # back[k].content
    BY <1>9 DEF Distinct
  <2>1. pos[j] \in DOMAIN f.items /\ pos[k] \in DOMAIN f.items /\ pos[j] # pos[k]
    BY <1>5, <1>11
  <2>2. ~f.items[pos[j]].resolve /\ ~f.items[pos[k]].resolve
    BY <1>7
  <2>3. f.items[pos[j]].content # f.items[pos[k]].content
    BY <2>1, <2>2 DEF Distinct
  <2>4. QED
    BY <1>7, <2>3
<1>13. DedupContents(back) \subseteq DedupContents(f.items)
  BY <1>5, <1>7, <1>9 DEF DedupContents
<1>14. \A k \in DOMAIN back : \E j \in DOMAIN f.items :
         /\ back[k].id = f.items[j].id
         /\ back[k].attempts = f.items[j].attempts + 1
         /\ back[k].attempts < MaxRetries
  BY <1>5, <1>7, <1>9
<1>15. QED
  BY <1>9, <1>10, <1>12, <1>13, <1>14

(* drain hands over a batch without copies and remembers its contents.     *)
LEMMA DrainCopies ==
  ASSUME NEW p \in [Bucket -> Seq(Item)], NEW fs \in SUBSET Flight,
         NEW infl \in [Bucket -> SUBSET Content],
         NEW busy, NEW timer, NEW w, NEW ft, NEW rn,
         Serial(fs, busy, timer), Copies(p, fs, infl, epoch),
         Drain(p, fs, infl, busy, timer, w, ft, rn), UNCHANGED epoch
  PROVE  CopiesInv'
<1>1. CASE busy \/ timer \/ ~HasPending(p)
  BY <1>1 DEF Drain, CopiesInv
<1>2. CASE ~(busy \/ timer \/ ~HasPending(p)) /\ blocked
  <2>1. pending' = [b \in Bucket |-> <<>>] /\ flights' = fs /\ inflight' = infl
    BY <1>2 DEF Drain, GateDrop
  <2>2. \A b \in Bucket : Distinct(pending'[b]) /\ DedupContents(pending'[b]) = {}
    BY <2>1 DEF Distinct, DedupContents
  <2>3. QED
    BY <2>1, <2>2 DEF CopiesInv, Copies
<1>3. CASE ~(busy \/ timer \/ ~HasPending(p)) /\ ~blocked
  <2>1. PICK b \in Bucket : \E n \in 1..Len(p[b]) :
          /\ pending' = [p EXCEPT ![b] = SubSeq(@, n + 1, Len(@))]
          /\ inflight' = [infl EXCEPT ![b] = @ \cup DedupContents(SubSeq(p[b], 1, n))]
          /\ flights' = fs \cup {[bucket |-> b, items |-> SubSeq(p[b], 1, n), epoch |-> epoch, settled |-> FALSE]}
    BY <1>3 DEF Drain, Launch
  <2>2. PICK n \in 1..Len(p[b]) :
          /\ pending' = [p EXCEPT ![b] = SubSeq(@, n + 1, Len(@))]
          /\ inflight' = [infl EXCEPT ![b] = @ \cup DedupContents(SubSeq(p[b], 1, n))]
          /\ flights' = fs \cup {[bucket |-> b, items |-> SubSeq(p[b], 1, n), epoch |-> epoch, settled |-> FALSE]}
    BY <2>1
  <2> DEFINE front == SubSeq(p[b], 1, n)
             rest == SubSeq(p[b], n + 1, Len(p[b]))
             new == [bucket |-> b, items |-> front, epoch |-> epoch, settled |-> FALSE]
  <2>3. /\ Distinct(front) /\ Distinct(rest)
        /\ DedupContents(front) \cap DedupContents(rest) = {}
    BY DistinctSplit DEF Copies
  <2>4. new.items = front /\ new.settled = FALSE /\ new.bucket = b /\ new.epoch = epoch
    OBVIOUS
  <2>5. fs = {}
    BY <1>3 DEF Serial
  <2>6. \A a \in Bucket : infl[a] = {}
    BY <2>5 DEF Copies
  <2>7. pending' = [p EXCEPT ![b] = rest] /\ flights' = {new}
    BY <2>2, <2>5
  <2>8. inflight' = [infl EXCEPT ![b] = infl[b] \cup DedupContents(front)]
    BY <2>2
  <2> HIDE DEF front, rest, new
  <2>9. /\ pending'[b] = rest /\ \A a \in Bucket \ {b} : pending'[a] = p[a]
        /\ inflight'[b] = DedupContents(front) /\ \A a \in Bucket \ {b} : inflight'[a] = {}
    BY <2>6, <2>7, <2>8
  <2>10. \A a \in Bucket : Distinct(pending'[a]) /\ inflight'[a] \cap DedupContents(pending'[a]) = {}
    <3> TAKE a \in Bucket
    <3>1. CASE a = b
      BY <2>3, <2>9, <3>1
    <3>2. CASE a # b
      BY <2>9, <3>2 DEF Copies
    <3>3. QED
      BY <3>1, <3>2
  <2>11. \A f \in flights' : /\ ~f.settled /\ f.epoch = epoch => DedupContents(f.items) \subseteq inflight'[f.bucket]
                             /\ Distinct(f.items)
    BY <2>3, <2>4, <2>7, <2>9
  <2>12. \A a \in Bucket : \A c \in inflight'[a] :
           \E f \in flights' : ~f.settled /\ f.bucket = a /\ f.epoch = epoch /\ c \in DedupContents(f.items)
    BY <2>4, <2>7, <2>9
  <2>13. QED
    BY <2>10, <2>11, <2>12 DEF CopiesInv, Copies
<1>4. QED
  BY <1>1, <1>2, <1>3

(* drain counts the deliveries it starts.                                  *)
LEMMA DrainTries ==
  ASSUME NEW p \in [Bucket -> Seq(Item)], NEW fs \in SUBSET Flight, NEW infl,
         NEW busy, NEW timer, NEW w, NEW ft \in Seq(Fate), NEW rn \in Seq(Nat),
         Serial(fs, busy, timer), Tries(p, fs, rn, Len(ft)),
         Drain(p, fs, infl, busy, timer, w, ft, rn), AccountsInv'
  PROVE  TriesInv'
<1>0. Len(fate') = Len(ft)
  BY DrainLog
<1>1. CASE busy \/ timer \/ ~HasPending(p)
  BY <1>0, <1>1 DEF Drain, TriesInv
<1>2. CASE ~(busy \/ timer \/ ~HasPending(p)) /\ blocked
  BY <1>0, <1>2 DEF Drain, GateDrop, TriesInv, Tries, Tried
<1>3. CASE ~(busy \/ timer \/ ~HasPending(p)) /\ ~blocked
  <2>1. PICK b \in Bucket : \E n \in 1..Len(p[b]) :
          /\ pending' = [p EXCEPT ![b] = SubSeq(@, n + 1, Len(@))]
          /\ flights' = fs \cup {[bucket |-> b, items |-> SubSeq(p[b], 1, n), epoch |-> epoch, settled |-> FALSE]}
          /\ runs' = [i \in DOMAIN rn |-> IF i \in Ids(SubSeq(p[b], 1, n)) THEN rn[i] + 1 ELSE rn[i]]
    BY <1>3 DEF Drain, Launch
  <2>2. PICK n \in 1..Len(p[b]) :
          /\ pending' = [p EXCEPT ![b] = SubSeq(@, n + 1, Len(@))]
          /\ flights' = fs \cup {[bucket |-> b, items |-> SubSeq(p[b], 1, n), epoch |-> epoch, settled |-> FALSE]}
          /\ runs' = [i \in DOMAIN rn |-> IF i \in Ids(SubSeq(p[b], 1, n)) THEN rn[i] + 1 ELSE rn[i]]
    BY <2>1
  <2> DEFINE front == SubSeq(p[b], 1, n)
             rest == SubSeq(p[b], n + 1, Len(p[b]))
             new == [bucket |-> b, items |-> front, epoch |-> epoch, settled |-> FALSE]
  <2>3. /\ DOMAIN front = 1..n /\ n \in Nat
        /\ \A k \in 1..n : front[k] = p[b][k] /\ k \in DOMAIN p[b]
        /\ DOMAIN rest = 1..(Len(p[b]) - n)
        /\ \A k \in DOMAIN rest : rest[k] = p[b][n + k] /\ n + k \in DOMAIN p[b]
    OBVIOUS
  <2>4. new.items = front /\ new.settled = FALSE
    OBVIOUS
  <2>5. fs = {}
    BY <1>3 DEF Serial
  <2>6. pending' = [p EXCEPT ![b] = rest] /\ flights' = {new}
    BY <2>2, <2>5
  <2>7. runs' = [i \in DOMAIN rn |-> IF i \in Ids(front) THEN rn[i] + 1 ELSE rn[i]]
    BY <2>2
  <2> HIDE DEF front, rest, new
  <2>8. pending'[b] = rest /\ \A a \in Bucket \ {b} : pending'[a] = p[a]
    BY <2>6
  <2>9. \A a \in Bucket : p[a] \in Seq(Item) /\ Tried(p[a], rn, 0)
    BY DEF Tries
  <2>10. \A i \in DOMAIN rn : rn[i] \in Nat /\ rn[i] <= MaxRetries
    BY DEF Tries
  <2>11. \A a \in Bucket : \A k \in DOMAIN p[a] :
           /\ p[a][k].id \in DOMAIN rn
           /\ rn[p[a][k].id] \in Nat /\ p[a][k].attempts \in Nat
           /\ rn[p[a][k].id] <= p[a][k].attempts
           /\ p[a][k].attempts < MaxRetries
    <3> TAKE a \in Bucket
    <3> TAKE k \in DOMAIN p[a]
    <3>1. p[a][k] \in Item
      BY <2>9, NumberedItems
    <3>2. p[a][k].id \in DOMAIN rn /\ rn[p[a][k].id] <= p[a][k].attempts + 0 /\ p[a][k].attempts < MaxRetries
      BY <2>9 DEF Tried
    <3>3. rn[p[a][k].id] \in Nat
      BY <2>10, <3>2
    <3>4. QED
      BY <3>1, <3>2, <3>3 DEF Item
  <2>12. Tried(front, runs', 1)
    <3> SUFFICES ASSUME NEW k \in 1..n
                 PROVE  /\ front[k].id \in DOMAIN runs'
                        /\ runs'[front[k].id] <= front[k].attempts + 1
                        /\ front[k].attempts < MaxRetries
      BY <2>3 DEF Tried
    <3>1. front[k].id \in Ids(front)
      BY <2>3 DEF Ids
    <3>2. /\ front[k].id \in DOMAIN rn
          /\ rn[front[k].id] \in Nat /\ front[k].attempts \in Nat
          /\ rn[front[k].id] <= front[k].attempts
          /\ front[k].attempts < MaxRetries
      BY <2>3, <2>11
    <3>3. runs'[front[k].id] = rn[front[k].id] + 1 /\ front[k].id \in DOMAIN runs'
      BY <2>7, <3>1, <3>2
    <3>4. QED
      BY <3>2, <3>3
  <2>13. \A a \in Bucket : Tried(pending'[a], runs', 0)
    <3> SUFFICES ASSUME NEW a \in Bucket, NEW k \in DOMAIN pending'[a]
                 PROVE  /\ pending'[a][k].id \in DOMAIN runs'
                        /\ runs'[pending'[a][k].id] <= pending'[a][k].attempts + 0
                        /\ pending'[a][k].attempts < MaxRetries
      BY DEF Tried
    <3>1. PICK j \in DOMAIN p[a] : pending'[a][k] = p[a][j]
      BY <2>3, <2>8
    <3>2. pending'[a][k].id \notin Ids(front)
      <4>1. pending'[a][k].id \in AllPendingIds(pending')
        BY DEF AllPendingIds, Ids
      <4>2. Carried(flights') = Ids(front)
        BY <2>4, <2>6 DEF Carried
      <4>3. AllPendingIds(pending') \cap Carried(flights') = {}
        BY DEF AccountsInv, Accounts
      <4>4. QED
        BY <4>1, <4>2, <4>3
    <3>3. /\ p[a][j].id \in DOMAIN rn
          /\ rn[p[a][j].id] \in Nat /\ p[a][j].attempts \in Nat
          /\ rn[p[a][j].id] <= p[a][j].attempts
          /\ p[a][j].attempts < MaxRetries
      BY <2>11
    <3>4. runs'[p[a][j].id] = rn[p[a][j].id] /\ p[a][j].id \in DOMAIN runs'
      BY <2>7, <3>1, <3>2, <3>3
    <3>5. QED
      BY <3>1, <3>3, <3>4
  <2>14. \A i \in DOMAIN runs' : runs'[i] <= MaxRetries
    <3> SUFFICES ASSUME NEW i \in DOMAIN rn
                 PROVE  runs'[i] <= MaxRetries
      BY <2>7
    <3>1. CASE i \in Ids(front)
      <4>1. PICK k \in 1..n : i = p[b][k].id /\ k \in DOMAIN p[b]
        BY <2>3, <3>1 DEF Ids
      <4>2. rn[i] \in Nat /\ rn[i] <= p[b][k].attempts /\ p[b][k].attempts \in Nat /\ p[b][k].attempts < MaxRetries
        BY <2>11, <4>1
      <4>3. runs'[i] = rn[i] + 1 /\ MaxRetries \in Nat
        BY <2>7, <3>1, ConstantsAssumption
      <4>4. QED
        BY <4>2, <4>3
    <3>2. CASE i \notin Ids(front)
      BY <2>7, <2>10, <3>2
    <3>3. QED
      BY <3>1, <3>2
  <2>15. Len(runs') = Len(rn)
    <3>1. DOMAIN rn = 1..Len(rn) /\ Len(rn) \in Nat
      OBVIOUS
    <3>2. runs' \in [1..Len(rn) -> Nat]
      BY <2>7, <2>10, <3>1
    <3>3. QED
      BY <3>1, <3>2, FunIsSeq
  <2>16. QED
    BY <1>0, <2>4, <2>6, <2>12, <2>13, <2>14, <2>15 DEF TriesInv, Tries
<1>4. QED
  BY <1>1, <1>2, <1>3

(* drain never merges a resolve item with anything.                        *)
LEMMA DrainAlone ==
  ASSUME NEW p \in [Bucket -> Seq(Item)], NEW fs, NEW infl,
         NEW busy, NEW timer, NEW w, NEW ft, NEW rn,
         \A f \in fs : (\E k \in DOMAIN f.items : f.items[k].resolve) => Len(f.items) = 1,
         Drain(p, fs, infl, busy, timer, w, ft, rn)
  PROVE  ResolveTravelsAlone'
<1>1. CASE busy \/ timer \/ ~HasPending(p)
  BY <1>1 DEF Drain, ResolveTravelsAlone
<1>2. CASE ~(busy \/ timer \/ ~HasPending(p)) /\ blocked
  BY <1>2 DEF Drain, GateDrop, ResolveTravelsAlone
<1>3. CASE ~(busy \/ timer \/ ~HasPending(p)) /\ ~blocked
  <2>1. PICK b \in Bucket : \E n \in 1..Len(p[b]) :
          /\ IsTake(p[b], n)
          /\ flights' = fs \cup {[bucket |-> b, items |-> SubSeq(p[b], 1, n), epoch |-> epoch, settled |-> FALSE]}
    BY <1>3 DEF Drain, Launch
  <2>2. PICK n \in 1..Len(p[b]) :
          /\ IsTake(p[b], n)
          /\ flights' = fs \cup {[bucket |-> b, items |-> SubSeq(p[b], 1, n), epoch |-> epoch, settled |-> FALSE]}
    BY <2>1
  <2> DEFINE front == SubSeq(p[b], 1, n)
             new == [bucket |-> b, items |-> front, epoch |-> epoch, settled |-> FALSE]
  <2>3. /\ DOMAIN front = 1..n /\ Len(front) = n
        /\ \A k \in 1..n : front[k] = p[b][k]
    OBVIOUS
  <2>4. new.items = front
    OBVIOUS
  <2>5. flights' = fs \cup {new}
    BY <2>2
  <2> HIDE DEF front, new
  <2>6. (\E k \in DOMAIN front : front[k].resolve) => Len(front) = 1
    BY <2>2, <2>3 DEF IsTake
  <2>7. QED
    BY <2>4, <2>5, <2>6 DEF ResolveTravelsAlone
<1>4. QED
  BY <1>1, <1>2, <1>3

(* At the start there are neither messages nor deliveries.                 *)
LEMMA ItemsInit == Init => CopiesInv /\ TriesInv /\ ResolveTravelsAlone
<1> SUFFICES ASSUME Init PROVE CopiesInv /\ TriesInv /\ ResolveTravelsAlone
  OBVIOUS
<1>1. CopiesInv
  BY DEF Init, CopiesInv, Copies, Distinct, DedupContents
<1>2. TriesInv
  BY DEF Init, TriesInv, Tries, Tried
<1>3. ResolveTravelsAlone
  BY DEF Init, ResolveTravelsAlone
<1>4. QED
  BY <1>1, <1>2, <1>3

(* A batch that has settled takes its contents with it.                    *)
LEMMA SettleFrees ==
  ASSUME TypeOK, SerialDelivery, CopiesInv, NEW f \in flights, ~f.settled,
         flights' = Settled(f), inflight' = FinishInflight(f)
  PROVE  /\ \A b \in Bucket : inflight'[b] = {}
         /\ \A g \in flights' : g.settled /\ Distinct(g.items)
         /\ f.epoch = epoch => DedupContents(f.items) \cap DedupContents(pending[f.bucket]) = {}
<1>1. flights = {f} /\ \A g \in flights' : g.settled
  BY SettleLands
<1>2. f \in Flight /\ f.bucket \in Bucket /\ inflight \in [Bucket -> SUBSET Content]
  BY SettledType DEF Flight, TypeOK
<1>3. \A b \in Bucket : \A c \in inflight[b] : f.bucket = b /\ f.epoch = epoch /\ c \in DedupContents(f.items)
  BY <1>1 DEF CopiesInv, Copies
<1>4. DedupContents(f.items) \subseteq Contents(f.items)
  BY DEF DedupContents, Contents
<1>5. /\ inflight'[f.bucket] = inflight[f.bucket] \ Contents(f.items)
      /\ \A b \in Bucket \ {f.bucket} : inflight'[b] = inflight[b]
  BY <1>2 DEF FinishInflight
<1>6. \A b \in Bucket : inflight'[b] = {}
  BY <1>2, <1>3, <1>4, <1>5
<1>7. Distinct(f.items) /\ [f EXCEPT !.settled = TRUE].items = f.items
  BY <1>2 DEF CopiesInv, Copies, Flight
<1>8. \A g \in flights' : g.settled /\ Distinct(g.items)
  BY <1>1, <1>7 DEF Settled
<1>9. f.epoch = epoch => DedupContents(f.items) \cap DedupContents(pending[f.bucket]) = {}
  BY <1>2 DEF CopiesInv, Copies
<1>10. QED
  BY <1>6, <1>8, <1>9

(* No task leaves two copies or keeps a content longer than its delivery.  *)
LEMMA CopiesNext == TypeOK /\ SerialDelivery /\ CutInv /\ CopiesInv /\ [Next]_vars => CopiesInv'
<1> SUFFICES ASSUME TypeOK, SerialDelivery, CutInv, CopiesInv, [Next]_vars
             PROVE  CopiesInv'
  OBVIOUS
<1>1. /\ pending \in [Bucket -> Seq(Item)]
      /\ inflight \in [Bucket -> SUBSET Content]
      /\ flights \in SUBSET Flight
      /\ Serial(flights, draining, retryTimer)
      /\ Copies(pending, flights, inflight, epoch)
  BY SerialForm DEF TypeOK, CopiesInv
<1>2. CASE UNCHANGED <<pending, flights, inflight, epoch>>
  BY <1>2 DEF CopiesInv
<1>3. ASSUME NEW b \in Bucket, NEW c \in Content, NEW r \in BOOLEAN, EnqueueQueued(b, c, r)
      PROVE  CopiesInv'
  <2>1. PICK now \in {clock, clock + 1} :
        Drain([pending EXCEPT ![b] =
                    Append(@, [id |-> NewId, content |-> c, resolve |-> r, at |-> now, attempts |-> 0])],
                 flights, inflight, draining, retryTimer,
                 waiting \cup {NewId}, Append(fate, "open"), Append(runs, 0))
    BY <1>3 DEF EnqueueQueued
  <2> DEFINE item == [id |-> NewId, content |-> c, resolve |-> r, at |-> now, attempts |-> 0]
             p == [pending EXCEPT ![b] = Append(@, item)]
  <2>2. item \in Item /\ item.content = c /\ item.resolve = r
    BY DEF TypeOK, NewId, Item
  <2>3. Drain(p, flights, inflight, draining, retryTimer,
              waiting \cup {NewId}, Append(fate, "open"), Append(runs, 0))
    BY <2>1
  <2>4. UNCHANGED epoch /\ (r \/ (c \notin inflight[b] /\ c \notin DedupContents(pending[b])))
    BY <1>3 DEF EnqueueQueued, Seen
  <2> HIDE DEF item
  <2>5. p \in [Bucket -> Seq(Item)]
    BY <1>1, <2>2
  <2>6. p[b] = Append(pending[b], item) /\ \A a \in Bucket \ {b} : p[a] = pending[a]
    BY <1>1
  <2> HIDE DEF p
  <2>7. /\ Distinct(p[b])
        /\ DedupContents(p[b]) \subseteq DedupContents(pending[b]) \cup (IF r THEN {} ELSE {c})
    <3>1. Distinct(pending[b]) /\ (item.resolve \/ item.content \notin DedupContents(pending[b]))
      BY <1>1, <2>2, <2>4 DEF Copies
    <3>2. pending[b] \in Seq(Item)
      BY <1>1
    <3>3. /\ Distinct(Append(pending[b], item))
          /\ DedupContents(Append(pending[b], item)) \subseteq
               DedupContents(pending[b]) \cup (IF item.resolve THEN {} ELSE {item.content})
      BY <2>2, <3>1, <3>2, DistinctAppend
    <3>4. QED
      BY <2>2, <2>6, <3>3
  <2>8. Copies(p, flights, inflight, epoch)
    <3>1. \A a \in Bucket : Distinct(p[a]) /\ inflight[a] \cap DedupContents(p[a]) = {}
      <4> TAKE a \in Bucket
      <4>1. CASE a = b
        BY <1>1, <2>4, <2>7, <4>1 DEF Copies
      <4>2. CASE a # b
        BY <1>1, <2>6, <4>2 DEF Copies
      <4>3. QED
        BY <4>1, <4>2
    <3>2. QED
      BY <1>1, <3>1 DEF Copies
  <2>9. QED
    BY <1>1, <2>3, <2>4, <2>5, <2>8, DrainCopies
<1>4. ASSUME NEW f \in flights, DeliverResolved(f) \/ \E retriable \in BOOLEAN : DeliverRejectedFinally(f, retriable)
      PROVE  CopiesInv'
  <2>1. /\ flights' = Settled(f) /\ pending' = pending /\ ~f.settled
        /\ inflight' = FinishInflight(f)
    BY <1>4 DEF DeliverResolved, DeliverRejectedFinally
  <2>2. /\ \A b \in Bucket : inflight'[b] = {}
        /\ \A g \in flights' : g.settled /\ Distinct(g.items)
    BY <2>1, SettleFrees
  <2>3. QED
    BY <1>1, <2>1, <2>2 DEF CopiesInv, Copies
<1>5. ASSUME NEW f \in flights, DeliverRejectedRetriable(f)
      PROVE  CopiesInv'
  <2>1. /\ flights' = Settled(f) /\ ~f.settled /\ f.epoch = epoch
        /\ inflight' = FinishInflight(f)
    BY <1>5 DEF DeliverRejectedRetriable
  <2>2. /\ \A b \in Bucket : inflight'[b] = {}
        /\ \A g \in flights' : g.settled /\ Distinct(g.items)
        /\ DedupContents(f.items) \cap DedupContents(pending[f.bucket]) = {}
    BY <2>1, SettleFrees
  <2>3. PICK back \in Seq(Item) :
          /\ pending' = [pending EXCEPT ![f.bucket] = back \o pending[f.bucket]]
          /\ Distinct(f.items) => Distinct(back)
          /\ DedupContents(back) \subseteq DedupContents(f.items)
    BY <1>5, PutBackItems
  <2>4. /\ f.bucket \in Bucket /\ pending[f.bucket] \in Seq(Item)
        /\ Distinct(f.items) /\ Distinct(pending[f.bucket])
    BY <1>1 DEF Flight, Copies
  <2>5. Distinct(back \o pending[f.bucket])
    BY <2>2, <2>3, <2>4, DistinctConcat
  <2>6. \A b \in Bucket : Distinct(pending'[b])
    BY <1>1, <2>3, <2>4, <2>5 DEF Copies
  <2>7. QED
    BY <2>2, <2>6 DEF CopiesInv, Copies
<1>6. ASSUME NEW f \in flights, DeliverFinally(f)
      PROVE  CopiesInv'
  <2>1. /\ f.settled /\ Drain(pending, flights \ {f}, inflight, FALSE, retryTimer, waiting, fate, runs)
        /\ UNCHANGED epoch
    BY <1>6 DEF DeliverFinally
  <2>2. Serial(flights \ {f}, FALSE, retryTimer)
    BY DEF SerialDelivery, Serial
  <2>3. Copies(pending, flights \ {f}, inflight, epoch)
    <3>1. \A b \in Bucket : \A c \in inflight[b] :
            \E g \in flights : ~g.settled /\ g.bucket = b /\ g.epoch = epoch /\ c \in DedupContents(g.items)
      BY <1>1 DEF Copies
    <3>2. \A b \in Bucket : \A c \in inflight[b] :
            \E g \in flights \ {f} : ~g.settled /\ g.bucket = b /\ g.epoch = epoch /\ c \in DedupContents(g.items)
      BY <2>1, <3>1
    <3>3. QED
      BY <1>1, <3>2 DEF Copies
  <2>4. flights \ {f} \in SUBSET Flight
    BY <1>1
  <2>5. QED
    BY <1>1, <2>1, <2>2, <2>3, <2>4, DrainCopies
<1>7. CASE RetryFires
  <2>1. Serial(flights, draining, FALSE)
    BY <1>1 DEF Serial
  <2>2. Drain(pending, flights, inflight, draining, FALSE, waiting, fate, runs) /\ UNCHANGED epoch
    BY <1>7 DEF RetryFires
  <2>3. QED
    BY <1>1, <2>1, <2>2, DrainCopies
<1>8. CASE StopAgent \/ UnregisterAgent \/ RegisterAgent \/ StopAll
  <2>1. /\ pending' = [b \in Bucket |-> <<>>]
        /\ inflight' = [b \in Bucket |-> {}]
        /\ flights' = flights
        /\ epoch' = epoch + 1
    BY <1>8 DEF StopAgent, UnregisterAgent, RegisterAgent, StopAll, ClearQueue
  <2>2. \A f \in flights' : f.epoch # epoch'
    <3> TAKE f \in flights'
    <3>1. f \in flights /\ f.epoch \in Nat /\ f.epoch <= epoch /\ epoch \in Nat
      BY <2>1 DEF CutInv, Cut, TypeOK, Flight
    <3>2. QED
      BY <2>1, <3>1
  <2>3. \A b \in Bucket : Distinct(pending'[b]) /\ inflight'[b] = {}
    BY <2>1 DEF Distinct
  <2>4. \A f \in flights' : Distinct(f.items)
    BY <1>1, <2>1 DEF Copies
  <2>5. QED
    BY <2>2, <2>3, <2>4 DEF CopiesInv, Copies
<1>9. CASE GateMoves \/ LoadAgent \/ (\E b \in Bucket, c \in Content : WindowCloses(b, c)) \/ UNCHANGED vars
  BY <1>2, <1>9 DEF GateMoves, LoadAgent, WindowCloses, vars, queueVars
<1>10. CASE EnqueueDead \/ \E b \in Bucket, c \in Content : EnqueueDeduped(b, c)
  BY <1>2, <1>10 DEF EnqueueDead, EnqueueDeduped, queueVars
<1>11. QED
  BY <1>3, <1>4, <1>5, <1>6, <1>7, <1>8, <1>9, <1>10 DEF Next, Enqueue, SettleAny, Settle, FinallyAny

(* No task merges a resolve item.                                          *)
LEMMA AloneNext == TypeOK /\ ResolveTravelsAlone /\ [Next]_vars => ResolveTravelsAlone'
<1> SUFFICES ASSUME TypeOK, ResolveTravelsAlone, [Next]_vars
             PROVE  ResolveTravelsAlone'
  OBVIOUS
<1>1. pending \in [Bucket -> Seq(Item)]
  BY DEF TypeOK
<1>2. CASE UNCHANGED flights
  BY <1>2 DEF ResolveTravelsAlone
<1>3. ASSUME NEW b \in Bucket, NEW c \in Content, NEW r \in BOOLEAN, EnqueueQueued(b, c, r)
      PROVE  ResolveTravelsAlone'
  <2>1. PICK now \in {clock, clock + 1} :
        Drain([pending EXCEPT ![b] =
                    Append(@, [id |-> NewId, content |-> c, resolve |-> r, at |-> now, attempts |-> 0])],
                 flights, inflight, draining, retryTimer,
                 waiting \cup {NewId}, Append(fate, "open"), Append(runs, 0))
    BY <1>3 DEF EnqueueQueued
  <2> DEFINE item == [id |-> NewId, content |-> c, resolve |-> r, at |-> now, attempts |-> 0]
             p == [pending EXCEPT ![b] = Append(@, item)]
  <2>2. item \in Item
    BY DEF TypeOK, NewId, Item
  <2> HIDE DEF item
  <2>3. p \in [Bucket -> Seq(Item)]
    BY <1>1, <2>2
  <2> HIDE DEF p
  <2>4. Drain(p, flights, inflight, draining, retryTimer,
              waiting \cup {NewId}, Append(fate, "open"), Append(runs, 0))
    BY <2>1 DEF p, item
  <2>5. QED
    BY <2>3, <2>4, DrainAlone DEF ResolveTravelsAlone
<1>4. ASSUME NEW f \in flights, Settle(f)
      PROVE  ResolveTravelsAlone'
  <2>1. flights' = Settled(f)
    BY <1>4 DEF Settle, DeliverResolved, DeliverRejectedFinally, DeliverRejectedRetriable
  <2>2. [f EXCEPT !.settled = TRUE].items = f.items
    BY SettledType DEF Flight
  <2>3. QED
    BY <2>1, <2>2 DEF Settled, ResolveTravelsAlone
<1>5. ASSUME NEW f \in flights, DeliverFinally(f)
      PROVE  ResolveTravelsAlone'
  <2>1. Drain(pending, flights \ {f}, inflight, FALSE, retryTimer, waiting, fate, runs)
    BY <1>5 DEF DeliverFinally
  <2>2. QED
    BY <1>1, <2>1, DrainAlone DEF ResolveTravelsAlone
<1>6. CASE RetryFires
  <2>1. Drain(pending, flights, inflight, draining, FALSE, waiting, fate, runs)
    BY <1>6 DEF RetryFires
  <2>2. QED
    BY <1>1, <2>1, DrainAlone DEF ResolveTravelsAlone
<1>7. CASE StopAgent \/ UnregisterAgent \/ RegisterAgent \/ StopAll \/ GateMoves \/ LoadAgent
           \/ (\E b \in Bucket, c \in Content : WindowCloses(b, c)) \/ UNCHANGED vars
           \/ EnqueueDead \/ (\E b \in Bucket, c \in Content : EnqueueDeduped(b, c))
  BY <1>2, <1>7 DEF StopAgent, UnregisterAgent, RegisterAgent, StopAll, ClearQueue, GateMoves, LoadAgent,
       WindowCloses, vars, queueVars, EnqueueDead, EnqueueDeduped
<1>8. QED
  BY <1>3, <1>4, <1>5, <1>6, <1>7 DEF Next, Enqueue, SettleAny, FinallyAny

(* A further submission changes no count of the others.                    *)
LEMMA TriedAppend ==
  ASSUME NEW rn \in Seq(Nat), NEW x \in Nat
  PROVE  /\ Append(rn, x) \in Seq(Nat) /\ Len(Append(rn, x)) = Len(rn) + 1
         /\ Len(rn) + 1 \in DOMAIN Append(rn, x) /\ Append(rn, x)[Len(rn) + 1] = x
         /\ \A q, n : Tried(q, rn, n) => Tried(q, Append(rn, x), n)
         /\ \A i \in DOMAIN Append(rn, x) : Append(rn, x)[i] = x \/ (i \in DOMAIN rn /\ Append(rn, x)[i] = rn[i])
<1> DEFINE s == Append(rn, x)
<1>1. /\ s \in Seq(Nat) /\ Len(s) = Len(rn) + 1
      /\ DOMAIN rn = 1..Len(rn) /\ Len(rn) \in Nat
      /\ DOMAIN s = 1..(Len(rn) + 1)
      /\ \A i \in 1..Len(rn) : s[i] = rn[i]
      /\ s[Len(rn) + 1] = x
  OBVIOUS
<1> HIDE DEF s
<1>2. \A i \in DOMAIN rn : i \in DOMAIN s /\ s[i] = rn[i]
  BY <1>1
<1>3. \A q, n : Tried(q, rn, n) => Tried(q, s, n)
  BY <1>2 DEF Tried
<1>4. \A i \in DOMAIN s : s[i] = x \/ (i \in DOMAIN rn /\ s[i] = rn[i])
  BY <1>1
<1>5. Len(rn) + 1 \in DOMAIN s
  BY <1>1
<1>6. QED
  BY <1>1, <1>3, <1>4, <1>5 DEF s

(* Counts that hold of two sequences hold of one behind the other.         *)
LEMMA TriedConcat ==
  ASSUME NEW q \in Seq(Item), NEW r \in Seq(Item), NEW rn, NEW n, Tried(q, rn, n), Tried(r, rn, n)
  PROVE  Tried(q \o r, rn, n)
<1> DEFINE s == q \o r
<1>1. \A k \in DOMAIN s : \/ k \in DOMAIN q /\ s[k] = q[k]
                          \/ k - Len(q) \in DOMAIN r /\ s[k] = r[k - Len(q)]
  OBVIOUS
<1> HIDE DEF s
<1>2. Tried(s, rn, n)
  BY <1>1 DEF Tried
<1>3. QED
  BY <1>2 DEF s

(* No task delivers a message once too often.                              *)
LEMMA TriesNext ==
  TypeOK /\ SerialDelivery /\ OrderInv /\ AccountsInv /\ TriesInv /\ [Next]_vars => TriesInv'
<1> SUFFICES ASSUME TypeOK, SerialDelivery, OrderInv, AccountsInv, TriesInv, [Next]_vars
             PROVE  TriesInv'
  OBVIOUS
<1>1. /\ pending \in [Bucket -> Seq(Item)]
      /\ flights \in SUBSET Flight
      /\ fate \in Seq(Fate) /\ Len(fate) \in Nat
      /\ runs \in Seq(Nat)
      /\ MaxRetries \in Nat /\ 0 < MaxRetries
  BY ConstantsAssumption DEF TypeOK
<1>2. /\ Serial(flights, draining, retryTimer)
      /\ Tries(pending, flights, runs, Len(fate))
      /\ AccountsInv'
  BY SerialForm, AccountsNext DEF TriesInv
<1>3. ASSUME UNCHANGED <<pending, flights, runs>>, Len(fate') = Len(fate)
      PROVE  TriesInv'
  BY <1>3 DEF TriesInv
<1>4. /\ Append(runs, 0) \in Seq(Nat) /\ Len(Append(runs, 0)) = Len(fate) + 1
      /\ NewId \in DOMAIN Append(runs, 0) /\ Append(runs, 0)[NewId] = 0
      /\ Tries(pending, flights, Append(runs, 0), Len(fate) + 1)
  <2>1. Len(runs) = Len(fate) /\ 0 \in Nat
    BY <1>2 DEF Tries
  <2>2. /\ Append(runs, 0) \in Seq(Nat) /\ Len(Append(runs, 0)) = Len(fate) + 1
        /\ NewId \in DOMAIN Append(runs, 0) /\ Append(runs, 0)[NewId] = 0
    BY <1>1, <2>1, TriedAppend DEF NewId
  <2>3. /\ \A b \in Bucket : Tried(pending[b], Append(runs, 0), 0)
        /\ \A f \in flights : ~f.settled => Tried(f.items, Append(runs, 0), 1)
    BY <1>1, <1>2, <2>1, TriedAppend DEF Tries
  <2>4. \A i \in DOMAIN Append(runs, 0) : Append(runs, 0)[i] <= MaxRetries
    <3> TAKE i \in DOMAIN Append(runs, 0)
    <3>1. Append(runs, 0)[i] = 0 \/ (i \in DOMAIN runs /\ Append(runs, 0)[i] = runs[i])
      BY <1>1, <2>1, TriedAppend
    <3>2. \A j \in DOMAIN runs : runs[j] <= MaxRetries
      BY <1>2 DEF Tries
    <3>3. QED
      BY <1>1, <3>1, <3>2
  <2>5. QED
    BY <2>2, <2>3, <2>4 DEF Tries
<1>5. CASE EnqueueDead \/ \E b \in Bucket, c \in Content : EnqueueDeduped(b, c)
  <2>1. UNCHANGED <<pending, flights>> /\ runs' = Append(runs, 0)
    BY <1>5 DEF EnqueueDead, EnqueueDeduped, queueVars
  <2>2. fate' = Append(fate, "dead") \/ fate' = Append(fate, "deduped")
    BY <1>5 DEF EnqueueDead, EnqueueDeduped
  <2>3. Len(fate') = Len(fate) + 1
    BY <1>1, <2>2 DEF Fate
  <2>4. QED
    BY <1>4, <2>1, <2>3 DEF TriesInv
<1>6. ASSUME NEW b \in Bucket, NEW c \in Content, NEW r \in BOOLEAN, EnqueueQueued(b, c, r)
      PROVE  TriesInv'
  <2>1. PICK now \in {clock, clock + 1} :
        Drain([pending EXCEPT ![b] =
                    Append(@, [id |-> NewId, content |-> c, resolve |-> r, at |-> now, attempts |-> 0])],
                 flights, inflight, draining, retryTimer,
                 waiting \cup {NewId}, Append(fate, "open"), Append(runs, 0))
    BY <1>6 DEF EnqueueQueued
  <2> DEFINE item == [id |-> NewId, content |-> c, resolve |-> r, at |-> now, attempts |-> 0]
             p == [pending EXCEPT ![b] = Append(@, item)]
             ft == Append(fate, "open")
             rn == Append(runs, 0)
  <2>2. item \in Item /\ item.id = NewId /\ item.attempts = 0
    BY DEF TypeOK, NewId, Item
  <2>3. Drain(p, flights, inflight, draining, retryTimer, waiting \cup {NewId}, ft, rn)
    BY <2>1
  <2>4. ft \in Seq(Fate) /\ Len(ft) = Len(fate) + 1
    BY <1>1 DEF Fate
  <2>5. rn \in Seq(Nat) /\ NewId \in DOMAIN rn /\ rn[NewId] = 0 /\ Tries(pending, flights, rn, Len(ft))
    BY <1>4, <2>4
  <2> HIDE DEF item, ft, rn
  <2>6. p \in [Bucket -> Seq(Item)]
    BY <1>1, <2>2
  <2>7. p[b] = Append(pending[b], item) /\ \A a \in Bucket \ {b} : p[a] = pending[a]
    BY <1>1
  <2> HIDE DEF p
  <2>8. Tried(p[b], rn, 0)
    <3>1. \A k \in DOMAIN p[b] : (k \in DOMAIN pending[b] /\ p[b][k] = pending[b][k]) \/ p[b][k] = item
      BY <1>1, <2>2, <2>7
    <3>2. Tried(pending[b], rn, 0)
      BY <2>5 DEF Tries
    <3>3. item.attempts + 0 = 0 /\ rn[item.id] = 0 /\ item.id \in DOMAIN rn
      BY <2>2, <2>5
    <3>4. ASSUME NEW k \in DOMAIN p[b]
          PROVE  /\ p[b][k].id \in DOMAIN rn
                 /\ rn[p[b][k].id] <= p[b][k].attempts + 0
                 /\ p[b][k].attempts < MaxRetries
      <4>1. CASE k \in DOMAIN pending[b] /\ p[b][k] = pending[b][k]
        BY <3>2, <4>1 DEF Tried
      <4>2. CASE p[b][k] = item
        BY <1>1, <2>2, <3>3, <4>2
      <4>3. QED
        BY <3>1, <4>1, <4>2
    <3>5. QED
      BY <3>4 DEF Tried
  <2>9. Tries(p, flights, rn, Len(ft))
    BY <2>5, <2>7, <2>8 DEF Tries
  <2>10. QED
    BY <1>1, <1>2, <2>3, <2>4, <2>5, <2>6, <2>9, DrainTries
<1>7. ASSUME NEW f \in flights, DeliverResolved(f) \/ \E retriable \in BOOLEAN : DeliverRejectedFinally(f, retriable)
      PROVE  TriesInv'
  <2>1. /\ flights' = Settled(f) /\ pending' = pending /\ runs' = runs /\ ~f.settled
        /\ \E w \in Fate : fate' = Ended(fate, Ids(f.items), w)
    BY <1>7 DEF DeliverResolved, DeliverRejectedFinally, Conclude, Fate
  <2>2. Len(fate') = Len(fate)
    BY <1>1, <2>1, EndedType
  <2>3. \A g \in flights' : g.settled
    BY <2>1, SettleLands
  <2>4. QED
    BY <1>2, <2>1, <2>2, <2>3 DEF TriesInv, Tries
<1>8. ASSUME NEW f \in flights, DeliverRejectedRetriable(f)
      PROVE  TriesInv'
  <2>1. /\ flights' = Settled(f) /\ runs' = runs /\ ~f.settled
        /\ fate' = Ended(fate, Exhausted(f.items), "dead")
    BY <1>8 DEF DeliverRejectedRetriable
  <2>2. Len(fate') = Len(fate)
    BY <1>1, <2>1, EndedType DEF Fate
  <2>3. \A g \in flights' : g.settled
    BY <2>1, SettleLands
  <2>4. PICK back \in Seq(Item) :
          /\ pending' = [pending EXCEPT ![f.bucket] = back \o pending[f.bucket]]
          /\ \A k \in DOMAIN back : \E j \in DOMAIN f.items :
               /\ back[k].id = f.items[j].id
               /\ back[k].attempts = f.items[j].attempts + 1
               /\ back[k].attempts < MaxRetries
    BY <1>8, PutBackItems
  <2>5. Tried(back, runs, 0)
    <3> SUFFICES ASSUME NEW k \in DOMAIN back
                 PROVE  /\ back[k].id \in DOMAIN runs
                        /\ runs[back[k].id] <= back[k].attempts + 0
                        /\ back[k].attempts < MaxRetries
      BY DEF Tried
    <3>1. PICK j \in DOMAIN f.items :
            /\ back[k].id = f.items[j].id
            /\ back[k].attempts = f.items[j].attempts + 1
            /\ back[k].attempts < MaxRetries
      BY <2>4
    <3>2. f.items[j].id \in DOMAIN runs /\ runs[f.items[j].id] <= f.items[j].attempts + 1
      BY <1>2, <2>1 DEF Tries, Tried
    <3>3. back[k].attempts \in Nat
      BY NumberedItems DEF Item
    <3>4. QED
      BY <3>1, <3>2, <3>3
  <2>6. /\ f.bucket \in Bucket /\ pending[f.bucket] \in Seq(Item)
        /\ Tried(pending[f.bucket], runs, 0)
    BY <1>1, <1>2 DEF Flight, Tries
  <2>7. Tried(back \o pending[f.bucket], runs, 0)
    BY <2>5, <2>6, TriedConcat
  <2>8. \A b \in Bucket : Tried(pending'[b], runs, 0)
    BY <1>1, <1>2, <2>4, <2>7 DEF Tries
  <2>9. QED
    BY <1>2, <2>1, <2>2, <2>3, <2>8 DEF TriesInv, Tries
<1>9. ASSUME NEW f \in flights, DeliverFinally(f)
      PROVE  TriesInv'
  <2>1. f.settled /\ Drain(pending, flights \ {f}, inflight, FALSE, retryTimer, waiting, fate, runs)
    BY <1>9 DEF DeliverFinally
  <2>2. Serial(flights \ {f}, FALSE, retryTimer)
    BY DEF SerialDelivery, Serial
  <2>3. Tries(pending, flights \ {f}, runs, Len(fate))
    BY <1>2 DEF Tries
  <2>4. flights \ {f} \in SUBSET Flight
    BY <1>1
  <2>5. QED
    BY <1>1, <1>2, <2>1, <2>2, <2>3, <2>4, DrainTries
<1>10. CASE RetryFires
  <2>1. Serial(flights, draining, FALSE)
    BY <1>2 DEF Serial
  <2>2. Drain(pending, flights, inflight, draining, FALSE, waiting, fate, runs)
    BY <1>10 DEF RetryFires
  <2>3. QED
    BY <1>1, <1>2, <2>1, <2>2, DrainTries
<1>11. CASE StopAgent \/ UnregisterAgent \/ RegisterAgent \/ StopAll
  <2>1. /\ pending' = [b \in Bucket |-> <<>>]
        /\ flights' = flights /\ runs' = runs
        /\ fate' = Ended(fate, PendingIds, "dead")
    BY <1>11 DEF StopAgent, UnregisterAgent, RegisterAgent, StopAll, ClearQueue
  <2>2. Len(fate') = Len(fate)
    BY <1>1, <2>1, EndedType DEF Fate
  <2>3. \A b \in Bucket : Tried(pending'[b], runs, 0)
    BY <2>1 DEF Tried
  <2>4. QED
    BY <1>2, <2>1, <2>2, <2>3 DEF TriesInv, Tries
<1>12. CASE GateMoves \/ LoadAgent \/ (\E b \in Bucket, c \in Content : WindowCloses(b, c)) \/ UNCHANGED vars
  BY <1>3, <1>12 DEF GateMoves, LoadAgent, WindowCloses, vars, queueVars
<1>13. QED
  BY <1>5, <1>6, <1>7, <1>8, <1>9, <1>10, <1>11, <1>12 DEF Next, Enqueue, SettleAny, Settle, FinallyAny

(* Dedup keeps one live copy of a content and frees it with its delivery,  *)
(* no message is delivered more than MaxRetries times, and a resolve item  *)
(* is never merged with anything.                                          *)
THEOREM QueueAccountsForItems == Spec => []ItemsAreAccounted
<1>1. QED
  BY TypeInit, TypeNext, WakeInit, WakeNext, CutInit, MarkNext, CutNext, OrderInit, OrderNext,
     AccountsInit, AccountsNext, ItemsInit, CopiesNext, TriesNext, AloneNext, ItemsForm, PTL DEF Spec

-----------------------------------------------------------------------------
(* The queue implements DispatchPromise. *)

(* The ids in the air are those of the deliveries that have not settled,   *)
(* the open submissions on the ground are those that wait.                 *)
LEMMA GroundAndAir ==
  /\ AirborneIds = Carried(flights)
  /\ AirborneIds' = Carried(flights')
  /\ Promise!Open = Open(fate)
  /\ AccountsInv => Promise!Open \ AirborneIds = AllPendingIds(pending) /\ AirborneIds \subseteq Open(fate)
<1>1. AirborneIds = Carried(flights) /\ AirborneIds' = Carried(flights')
  BY DEF AirborneIds, Airborne, Carried
<1>2. Promise!Open = Open(fate)
  BY DEF Promise!Open, Open
<1>3. ASSUME AccountsInv
      PROVE  Open(fate) \ Carried(flights) = AllPendingIds(pending) /\ Carried(flights) \subseteq Open(fate)
  BY <1>3 DEF AccountsInv, Accounts
<1>4. QED
  BY <1>1, <1>2, <1>3

(* Ending nothing changes nothing.                                         *)
LEMMA EndedNone ==
  ASSUME NEW ft \in Seq(Fate), NEW w
  PROVE  Ended(ft, {}, w) = ft
<1>1. Ended(ft, {}, w) = [i \in DOMAIN ft |-> ft[i]]
  BY DEF Ended
<1>2. ft = [i \in DOMAIN ft |-> ft[i]]
  OBVIOUS
<1>3. QED
  BY <1>1, <1>2

(* What a drain is to the callers: nothing, the end of all that waits, or  *)
(* the take-off of some of it when nothing is in the air.                  *)
LEMMA DrainMoves ==
  ASSUME NEW p \in [Bucket -> Seq(Item)], NEW fs \in SUBSET Flight, NEW infl,
         NEW busy, NEW timer, NEW w, NEW ft, NEW rn,
         Serial(fs, busy, timer),
         Drain(p, fs, infl, busy, timer, w, ft, rn)
  PROVE  \/ fate' = ft /\ Carried(flights') = Carried(fs)
         \/ /\ blocked
            /\ fate' = Ended(ft, AllPendingIds(p), "blocked")
            /\ AllPendingIds(p) # {}
            /\ Carried(flights') = Carried(fs)
         \/ /\ ~busy /\ ~timer
            /\ fate' = ft
            /\ Carried(fs) = {}
            /\ Carried(flights') \in SUBSET AllPendingIds(p)
            /\ Carried(flights') # {}
<1>1. CASE busy \/ timer \/ ~HasPending(p)
  BY <1>1 DEF Drain
<1>2. CASE ~(busy \/ timer \/ ~HasPending(p)) /\ blocked
  <2>1. fate' = Ended(ft, AllPendingIds(p), "blocked") /\ flights' = fs
    BY <1>2 DEF Drain, GateDrop
  <2>2. PICK b \in Bucket : p[b] # <<>>
    BY <1>2 DEF HasPending
  <2>3. 1 \in DOMAIN p[b]
    BY <2>2
  <2>4. p[b][1].id \in AllPendingIds(p)
    BY <2>3 DEF AllPendingIds, Ids
  <2>5. QED
    BY <1>2, <2>1, <2>4
<1>3. CASE ~(busy \/ timer \/ ~HasPending(p)) /\ ~blocked
  <2>1. PICK b \in Bucket : \E n \in 1..Len(p[b]) :
          /\ flights' = fs \cup {[bucket |-> b, items |-> SubSeq(p[b], 1, n), epoch |-> epoch, settled |-> FALSE]}
          /\ fate' = ft
    BY <1>3 DEF Drain, Launch
  <2>2. PICK n \in 1..Len(p[b]) :
          /\ flights' = fs \cup {[bucket |-> b, items |-> SubSeq(p[b], 1, n), epoch |-> epoch, settled |-> FALSE]}
          /\ fate' = ft
    BY <2>1
  <2> DEFINE front == SubSeq(p[b], 1, n)
             new == [bucket |-> b, items |-> front, epoch |-> epoch, settled |-> FALSE]
  <2>3. /\ DOMAIN front = 1..n /\ 1 \in 1..n
        /\ \A k \in 1..n : front[k] = p[b][k] /\ k \in DOMAIN p[b]
    OBVIOUS
  <2>4. new.items = front /\ new.settled = FALSE
    OBVIOUS
  <2>5. fs = {}
    BY <1>3 DEF Serial
  <2>6. flights' = {new}
    BY <2>2, <2>5
  <2> HIDE DEF front, new
  <2>7. Carried(flights') = Ids(front) /\ Carried(fs) = {}
    BY <2>4, <2>5, <2>6 DEF Carried
  <2>8. Ids(front) \subseteq AllPendingIds(p)
    BY <2>3 DEF AllPendingIds, Ids
  <2>9. front[1].id \in Ids(front)
    BY <2>3 DEF Ids
  <2>10. QED
    BY <1>3, <2>2, <2>7, <2>8, <2>9
<1>4. QED
  BY <1>1, <1>2, <1>3

(* A group that is in the air lands.                                       *)
LEMMA LandingStep ==
  ASSUME TypeOK, SerialDelivery, AccountsInv, NEW f \in flights, ~f.settled, flights' = Settled(f),
         NEW S \in SUBSET Ids(f.items), NEW w \in {"delivered", "void", "dead"},
         S = Ids(f.items) \/ w = "dead",
         fate' = Ended(fate, S, w)
  PROVE  Promise!Land \/ UNCHANGED <<fate, AirborneIds>>
<1>1. Carried(flights) = Ids(f.items) /\ Carried(flights') = {}
  <2>1. flights = {f} /\ \A g \in flights' : g.settled
    BY SettleLands
  <2>2. QED
    BY <2>1 DEF Carried
<1>2. AirborneIds = Ids(f.items) /\ AirborneIds' = {}
  BY <1>1, GroundAndAir
<1>3. fate \in Seq(Fate)
  BY DEF TypeOK
<1>4. CASE Ids(f.items) = {}
  <2>1. fate' = fate
    BY <1>3, <1>4, EndedNone
  <2>2. QED
    BY <1>2, <1>4, <2>1
<1>5. CASE Ids(f.items) # {}
  <2>1. DOMAIN fate' = DOMAIN fate
    BY DEF Ended
  <2>2. Ids(f.items) \subseteq Open(fate)
    BY <1>2, GroundAndAir
  <2>3. \A i \in Ids(f.items) : i \in DOMAIN fate /\ fate[i] = "open"
    BY <2>2 DEF Open
  <2>4. \A i \in DOMAIN fate : fate'[i] = IF i \in S THEN w ELSE fate[i]
    BY DEF Ended
  <2>5. \A i \in DOMAIN fate \ Ids(f.items) : fate'[i] = fate[i]
    BY <2>4
  <2>6. \/ \A i \in Ids(f.items) : fate'[i] \in {"open", "dead"}
        \/ \A i \in Ids(f.items) : fate'[i] = "delivered"
        \/ \A i \in Ids(f.items) : fate'[i] = "void"
    <3>1. CASE w = "dead"
      BY <2>3, <2>4, <3>1
    <3>2. CASE w # "dead"
      BY <2>3, <2>4, <3>2
    <3>3. QED
      BY <3>1, <3>2
  <2>7. QED
    BY <1>2, <1>5, <2>1, <2>5, <2>6 DEF Promise!Land
<1>6. QED
  BY <1>4, <1>5

(* A clear or a closed gate drops the ground.                              *)
LEMMA DropStep ==
  ASSUME TypeOK, AccountsInv, NEW w \in {"dead", "blocked"},
         fate' = Ended(fate, AllPendingIds(pending), w), Carried(flights') = Carried(flights)
  PROVE  Promise!DropGround \/ UNCHANGED <<fate, AirborneIds>>
<1>1. /\ AirborneIds' = AirborneIds
      /\ Promise!Open \ AirborneIds = AllPendingIds(pending)
  BY GroundAndAir
<1>2. CASE AllPendingIds(pending) = {}
  <2>1. fate' = fate
    BY <1>2, EndedNone DEF TypeOK
  <2>2. QED
    BY <1>1, <2>1
<1>3. CASE AllPendingIds(pending) # {}
  <2>1. fate' = [i \in DOMAIN fate |-> IF i \in Promise!Open \ AirborneIds THEN w ELSE fate[i]]
    BY <1>1 DEF Ended
  <2>2. QED
    BY <1>1, <1>3, <2>1 DEF Promise!DropGround
<1>4. QED
  BY <1>2, <1>3

(* A drain of what waits is a move of the promise.                         *)
LEMMA DrainStep ==
  ASSUME TypeOK, AccountsInv,
         NEW fs \in SUBSET Flight, Carried(fs) = Carried(flights),
         NEW busy, NEW timer, Serial(fs, busy, timer),
         Drain(pending, fs, inflight, busy, timer, waiting, fate, runs)
  PROVE  Promise!DropGround \/ Promise!TakeOff \/ UNCHANGED <<fate, AirborneIds>>
<1>1. pending \in [Bucket -> Seq(Item)]
  BY DEF TypeOK
<1>2. /\ AirborneIds = Carried(fs) /\ AirborneIds' = Carried(flights')
      /\ AllPendingIds(pending) \subseteq Promise!Open
  BY GroundAndAir
<1>3. CASE fate' = fate /\ Carried(flights') = Carried(fs)
  BY <1>2, <1>3
<1>4. CASE fate' = Ended(fate, AllPendingIds(pending), "blocked") /\ Carried(flights') = Carried(fs)
  BY <1>4, DropStep
<1>5. CASE /\ fate' = fate /\ Carried(fs) = {}
           /\ Carried(flights') \in SUBSET AllPendingIds(pending)
           /\ Carried(flights') # {}
  <2>1. Promise!TakeOff
    BY <1>2, <1>5 DEF Promise!TakeOff
  <2>2. QED
    BY <2>1
<1>6. QED
  BY <1>1, <1>3, <1>4, <1>5, DrainMoves

(* The queue starts as the promise does ...                                *)
LEMMA PromiseInit == Init => Promise!Init
<1> SUFFICES ASSUME Init PROVE Promise!Init
  OBVIOUS
<1>1. fate = <<>> /\ AirborneIds = {}
  BY DEF Init, AirborneIds, Airborne
<1>2. QED
  BY <1>1 DEF Promise!Init

(* ... and each of its tasks is a move of the promise, or none.            *)
LEMMA PromiseNext ==
  TypeOK /\ NoStrandedBacklog /\ SerialDelivery /\ AccountsInv /\ [Next]_vars
    => [Promise!Next]_(Promise!vars)
<1> SUFFICES ASSUME TypeOK, NoStrandedBacklog, SerialDelivery, AccountsInv, [Next]_vars
             PROVE  Promise!Next \/ UNCHANGED <<fate, AirborneIds>>
  BY DEF Promise!vars
<1>1. /\ pending \in [Bucket -> Seq(Item)]
      /\ flights \in SUBSET Flight
      /\ fate \in Seq(Fate) /\ Len(fate) \in Nat
      /\ Serial(flights, draining, retryTimer)
  BY SerialForm DEF TypeOK
<1>2. AirborneIds = Carried(flights) /\ AirborneIds' = Carried(flights')
  BY GroundAndAir
<1>3. ASSUME UNCHANGED <<fate, flights>> PROVE UNCHANGED <<fate, AirborneIds>>
  BY <1>2, <1>3
<1>4. CASE EnqueueDead \/ \E b \in Bucket, c \in Content : EnqueueDeduped(b, c)
  <2>1. flights' = flights /\ \E w \in {"dead", "deduped"} : fate' = Append(fate, w)
    BY <1>4 DEF EnqueueDead, EnqueueDeduped, queueVars
  <2>2. Promise!Submit
    BY <1>2, <2>1 DEF Promise!Submit
  <2>3. QED
    BY <2>2 DEF Promise!Next
<1>5. ASSUME NEW b \in Bucket, NEW c \in Content, NEW r \in BOOLEAN, EnqueueQueued(b, c, r)
      PROVE  Promise!Submit
  <2>1. PICK now \in {clock, clock + 1} :
        Drain([pending EXCEPT ![b] =
                    Append(@, [id |-> NewId, content |-> c, resolve |-> r, at |-> now, attempts |-> 0])],
                 flights, inflight, draining, retryTimer,
                 waiting \cup {NewId}, Append(fate, "open"), Append(runs, 0))
    BY <1>5 DEF EnqueueQueued
  <2> DEFINE item == [id |-> NewId, content |-> c, resolve |-> r, at |-> now, attempts |-> 0]
             p == [pending EXCEPT ![b] = Append(@, item)]
             ft == Append(fate, "open")
             rn == Append(runs, 0)
             w == waiting \cup {NewId}
  <2>2. item \in Item /\ item.id = NewId /\ NewId = Len(fate) + 1
    BY DEF TypeOK, NewId, Item
  <2>3. Drain(p, flights, inflight, draining, retryTimer, w, ft, rn)
    BY <2>1
  <2>4. ~blocked
    BY <1>5 DEF EnqueueQueued
  <2> HIDE DEF item, rn, w
  <2>5. p \in [Bucket -> Seq(Item)]
    BY <1>1, <2>2
  <2>6. p[b] = Append(pending[b], item) /\ \A a \in Bucket \ {b} : p[a] = pending[a]
    BY <1>1
  <2> HIDE DEF p, ft
  <2>7. \/ fate' = ft /\ Carried(flights') = Carried(flights)
        \/ /\ ~draining /\ ~retryTimer
           /\ fate' = ft
           /\ Carried(flights) = {}
           /\ Carried(flights') \in SUBSET AllPendingIds(p)
           /\ Carried(flights') # {}
    BY <1>1, <2>3, <2>4, <2>5, DrainMoves
  <2>8. ASSUME ~draining, ~retryTimer PROVE AllPendingIds(p) = {Len(fate) + 1}
    <3>1. \A a \in Bucket : pending[a] = <<>>
      BY <2>8 DEF NoStrandedBacklog, HasPending
    <3>2. Ids(p[b]) = {Len(fate) + 1}
      <4>1. Ids(p[b]) = Ids(pending[b]) \cup {NewId}
        BY <1>1, <2>2, <2>6, IdsAppend
      <4>2. Ids(pending[b]) = {}
        BY <3>1 DEF Ids
      <4>3. QED
        BY <2>2, <4>1, <4>2
    <3>3. \A a \in Bucket \ {b} : Ids(p[a]) = {}
      BY <2>6, <3>1 DEF Ids
    <3>4. QED
      BY <3>2, <3>3 DEF AllPendingIds
  <2>9. CASE Carried(flights') = Carried(flights)
    BY <1>2, <2>7, <2>9 DEF Promise!Submit, ft
  <2>10. CASE Carried(flights') # Carried(flights)
    <3>1. Carried(flights) = {} /\ Carried(flights') = {Len(fate) + 1} /\ fate' = ft
      BY <2>7, <2>8, <2>10
    <3>2. QED
      BY <1>2, <3>1 DEF Promise!Submit, ft
  <2>11. QED
    BY <2>9, <2>10
<1>6. ASSUME NEW f \in flights, Settle(f)
      PROVE  Promise!Land \/ UNCHANGED <<fate, AirborneIds>>
  <2>1. ~f.settled /\ flights' = Settled(f)
    BY <1>6 DEF Settle, DeliverResolved, DeliverRejectedFinally, DeliverRejectedRetriable
  <2>2. \/ \E w \in {"delivered", "void", "dead"} : fate' = Ended(fate, Ids(f.items), w)
        \/ fate' = Ended(fate, Exhausted(f.items), "dead")
    BY <1>6 DEF Settle, DeliverResolved, DeliverRejectedFinally, DeliverRejectedRetriable, Conclude
  <2>3. Exhausted(f.items) \in SUBSET Ids(f.items)
    BY DEF Exhausted, Ids
  <2>4. CASE \E w \in {"delivered", "void", "dead"} : fate' = Ended(fate, Ids(f.items), w)
    BY <2>1, <2>4, LandingStep
  <2>5. CASE fate' = Ended(fate, Exhausted(f.items), "dead")
    BY <2>1, <2>3, <2>5, LandingStep
  <2>6. QED
    BY <2>2, <2>4, <2>5
<1>7. ASSUME NEW f \in flights, DeliverFinally(f)
      PROVE  Promise!DropGround \/ Promise!TakeOff \/ UNCHANGED <<fate, AirborneIds>>
  <2>1. f.settled /\ Drain(pending, flights \ {f}, inflight, FALSE, retryTimer, waiting, fate, runs)
    BY <1>7 DEF DeliverFinally
  <2>2. Serial(flights \ {f}, FALSE, retryTimer)
    BY DEF SerialDelivery, Serial
  <2>3. Carried(flights \ {f}) = Carried(flights)
    BY <2>1 DEF Carried
  <2>4. flights \ {f} \in SUBSET Flight
    BY <1>1
  <2>5. QED
    BY <2>1, <2>2, <2>3, <2>4, DrainStep
<1>8. CASE RetryFires
  <2>1. Serial(flights, draining, FALSE)
    BY <1>1 DEF Serial
  <2>2. Drain(pending, flights, inflight, draining, FALSE, waiting, fate, runs)
    BY <1>8 DEF RetryFires
  <2>3. Promise!DropGround \/ Promise!TakeOff \/ UNCHANGED <<fate, AirborneIds>>
    BY <1>1, <2>1, <2>2, DrainStep
  <2>4. QED
    BY <2>3 DEF Promise!Next
<1>9. CASE StopAgent \/ UnregisterAgent \/ RegisterAgent \/ StopAll
  <2>1. flights' = flights /\ fate' = Ended(fate, AllPendingIds(pending), "dead")
    BY <1>9 DEF StopAgent, UnregisterAgent, RegisterAgent, StopAll, ClearQueue, PendingIds
  <2>2. Promise!DropGround \/ UNCHANGED <<fate, AirborneIds>>
    BY <2>1, DropStep
  <2>3. QED
    BY <2>2 DEF Promise!Next
<1>10. CASE GateMoves \/ LoadAgent \/ (\E b \in Bucket, c \in Content : WindowCloses(b, c)) \/ UNCHANGED vars
  BY <1>3, <1>10 DEF GateMoves, LoadAgent, WindowCloses, vars, queueVars
<1>11. QED
  BY <1>4, <1>5, <1>6, <1>7, <1>8, <1>9, <1>10
     DEF Next, Enqueue, SettleAny, FinallyAny, Promise!Next

(* The queue keeps its promise to its callers: a submission ends once, one *)
(* group is in the air at a time and lands as a whole unless it is retried,*)
(* and what is dropped from the ground was not being delivered.            *)
THEOREM QueueKeepsItsPromise == Spec => KeepsPromise
<1>1. QED
  BY TypeInit, TypeNext, WakeInit, WakeNext, OrderInit, OrderNext, AccountsInit, AccountsNext,
     PromiseInit, PromiseNext, PTL DEF Spec, KeepsPromise, Promise!Spec
=============================================================================
