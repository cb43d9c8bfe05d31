----------------------------- MODULE ClientProofs -----------------------------
(* Proofs about the drafts a client sends, the feed it shows and the reminders the server  *)
(* delivers.                                                                                 *)
EXTENDS Outbox, MessageFeed, Reminders, FiniteSetTheorems, SequenceTheorems, TLAPS

-----------------------------------------------------------------------------
(* The queue of unsent drafts: the inductive invariant                        *)

Status == {"none", "queued", "sending", "failed"}

OutboxShape ==
  /\ pend \in [Draft -> Status] /\ flushing \in 0 .. MaxDrafts
  /\ awaited \in [Draft -> 0 .. MaxTries] /\ tries \in [Draft -> 0 .. MaxTries]
  /\ wire \subseteq SendCall /\ answered \subseteq SendCall
  /\ stored \in [Draft -> Nat] /\ written \in 0 .. MaxDrafts
  /\ account \in 0 .. MaxLogouts /\ writer \in [Draft -> 0 .. MaxLogouts]
  /\ discarded \subseteq Draft /\ everFailed \subseteq Draft

\* A draft that waits is one of this account; one that failed is remembered to have failed,
\* and one that is being sent is awaited, by the flush or by a retry.
DraftsFit ==
  \A n \in Draft :
    /\ pend[n] # "none" => n \in 1 .. written /\ writer[n] = account
    /\ pend[n] = "failed" => n \in everFailed
    /\ pend[n] = "sending" => awaited[n] # 0 /\ (flushing = n \/ n \in everFailed)

\* What is not stored yet waits, and the saved copy says so.
DraftsAreKept ==
  /\ saved = Persisted(pend)
  /\ \A n \in 1 .. written :
       writer[n] = account /\ n \notin discarded /\ stored[n] = 0 => pend[n] # "none"

\* What was answered is stored, what is stored was sent, and what was sent was written.
CallsFit ==
  /\ \A n \in Draft : /\ stored[n] <= 1 /\ writer[n] <= account
                      /\ stored[n] > 0 => tries[n] > 0
                      /\ tries[n] > 0 => n <= written
                      /\ awaited[n] # 0 \/ n \in everFailed => tries[n] > 0
  /\ \A c \in answered : stored[c[1]] > 0
  /\ \A c \in wire : tries[c[1]] > 0

\* Before a draft is sent, those before it are stored, or failed, or were given up.
OrderFits ==
  \A i, j \in 1 .. written :
    i < j /\ writer[i] = writer[j] /\ writer[i] = account /\ i \notin discarded \cup everFailed
          /\ tries[j] > 0
      => stored[i] > 0

OutboxInv == OutboxShape /\ DraftsFit /\ DraftsAreKept /\ CallsFit /\ OrderFits

LEMMA ZeroIsNotMore ==
  ASSUME NEW x PROVE x = 0 => ~(x > 0)
OBVIOUS

LEMMA DraftNumbers ==
  /\ \A n \in Draft : n \in Nat /\ n # 0 /\ n \in 0 .. MaxDrafts
  /\ MaxDrafts \in Nat /\ MaxTries \in Nat /\ MaxLogouts \in Nat
  BY OutboxAssumption DEF Draft

\* A flush keeps the invariant when what it is given fits and no other flush runs.
LEMMA FlushKeeps ==
  ASSUME OutboxInv, NEW p \in [Draft -> Status], NEW aw \in [Draft -> 0 .. MaxTries],
         FlushFrom(p, aw),
         UNCHANGED <<answered, stored, account, discarded, everFailed>>,
         written' \in 0 .. MaxDrafts, written <= written',
         writer' \in [Draft -> 0 .. MaxLogouts], \A n \in Draft : writer'[n] <= account,
         \A n \in 1 .. written : writer'[n] = writer[n],
         \A n \in Draft : /\ p[n] # "none" => n \in 1 .. written' /\ writer'[n] = account
                          /\ p[n] = "failed" => n \in everFailed
                          /\ p[n] = "sending" => aw[n] # 0 /\ n \in everFailed
                          /\ aw[n] # 0 => tries[n] > 0,
         \A n \in 1 .. written' :
           writer'[n] = account /\ n \notin discarded /\ stored[n] = 0 => p[n] # "none"
  PROVE  OutboxInv'
<1> USE DraftNumbers
<1>1. CASE Queued(p) = {}
  <2>1. pend' = p /\ saved' = Persisted(p) /\ flushing' = 0 /\ awaited' = aw
        /\ UNCHANGED <<tries, wire>>
    BY <1>1 DEF FlushFrom, Set
  <2>2. OutboxShape'
    BY <2>1 DEF OutboxInv, OutboxShape
  <2>3. DraftsFit' /\ DraftsAreKept'
    BY <2>1 DEF DraftsFit, DraftsAreKept, Persisted, Draft
  <2>4. CallsFit'
    BY <2>1 DEF OutboxInv, OutboxShape, CallsFit, Draft
  <2>5. OrderFits'
    <3> SUFFICES ASSUME NEW i \in 1 .. written', NEW j \in 1 .. written', i < j,
                        writer'[i] = writer'[j], writer'[i] = account',
                        i \notin discarded' \cup everFailed', tries'[j] > 0
                 PROVE  stored'[i] > 0
      BY DEF OrderFits
    <3>1. j \in Draft /\ tries[j] > 0 /\ written \in Nat /\ written' \in Nat
      BY <2>1 DEF OutboxInv, OutboxShape, Draft
    <3>2. i \in 1 .. written /\ j \in 1 .. written
      BY <3>1 DEF OutboxInv, CallsFit
    <3> QED
      BY <2>1, <3>1, <3>2 DEF OutboxInv, OrderFits
  <2> QED
    BY <2>2, <2>3, <2>4, <2>5 DEF OutboxInv
<1>2. CASE Queued(p) # {}
  <2>1. PICK n \in Queued(p) :
          /\ \A k \in Queued(p) : n <= k
          /\ tries[n] < MaxTries
          /\ Set([p EXCEPT ![n] = "sending"]) /\ flushing' = n /\ Call(n, aw)
    BY <1>2 DEF FlushFrom
  <2>2. n \in Draft /\ p[n] = "queued" /\ \A k \in Draft : k < n => p[k] # "queued"
    BY <2>1 DEF Queued
  <2>3. /\ pend' \in [Draft -> Status] /\ saved' = Persisted(pend')
        /\ \A k \in Draft : pend'[k] = IF k = n THEN "sending" ELSE p[k]
    BY <2>1, <2>2 DEF Set, Status
  <2>4. /\ tries' \in [Draft -> 0 .. MaxTries] /\ awaited' \in [Draft -> 0 .. MaxTries]
        /\ wire' = wire \cup {<<n, tries[n] + 1>>} /\ <<n, tries[n] + 1>> \in SendCall
        /\ \A k \in Draft : /\ tries'[k] = IF k = n THEN tries[k] + 1 ELSE tries[k]
                            /\ awaited'[k] = IF k = n THEN tries[k] + 1 ELSE aw[k]
    BY <2>1, <2>2 DEF Call, OutboxInv, OutboxShape, SendCall
  <2>5. OutboxShape'
    BY <2>1, <2>2, <2>3, <2>4 DEF OutboxInv, OutboxShape
  <2>6. DraftsFit'
    BY <2>1, <2>2, <2>3, <2>4 DEF DraftsFit, OutboxInv, OutboxShape
  <2>7. DraftsAreKept'
    BY <2>2, <2>3 DEF DraftsAreKept, Persisted, Draft
  <2>8. CallsFit'
    <3>1. n \in 1 .. written' /\ \A k \in Draft : tries[k] \in Nat /\ tries'[k] \in Nat
      BY <2>2, <2>4 DEF OutboxInv, OutboxShape
    <3>2. \A k \in Draft : /\ tries[k] > 0 \/ k = n => tries'[k] > 0
                           /\ tries'[k] > 0 => tries[k] > 0 \/ k = n
      BY <2>4, <3>1
    <3>3. \A k \in Draft : tries[k] > 0 => k <= written'
      BY DEF OutboxInv, OutboxShape, CallsFit
    <3>4. \A k \in Draft : tries'[k] > 0 => k <= written'
      BY <3>1, <3>2, <3>3
    <3>5. \A c \in wire' : tries'[c[1]] > 0
      <4>1. ASSUME NEW c \in wire' PROVE c[1] \in Draft /\ (tries[c[1]] > 0 \/ c[1] = n)
        BY <2>2, <2>4 DEF OutboxInv, OutboxShape, CallsFit, SendCall
      <4> QED
        BY <3>2, <4>1
    <3>6. \A k \in Draft : awaited'[k] # 0 \/ k \in everFailed => tries'[k] > 0
      BY <2>4, <3>2 DEF OutboxInv, CallsFit
    <3>7. \A k \in Draft : stored[k] <= 1 /\ writer'[k] <= account /\ (stored[k] > 0 => tries'[k] > 0)
      BY <3>2 DEF OutboxInv, CallsFit
    <3>8. \A c \in answered : stored[c[1]] > 0
      BY DEF OutboxInv, CallsFit
    <3> QED
      BY <3>4, <3>5, <3>6, <3>7, <3>8 DEF CallsFit
  <2>9. OrderFits'
    <3>1. \A i \in Draft : i < n /\ i \in 1 .. written' /\ writer'[i] = account
                             /\ i \notin discarded \cup everFailed => stored[i] > 0
      BY <2>2 DEF Status, OutboxInv, OutboxShape
    <3> SUFFICES ASSUME NEW i \in 1 .. written', NEW j \in 1 .. written', i < j,
                        writer'[i] = writer'[j], writer'[i] = account',
                        i \notin discarded' \cup everFailed', tries'[j] > 0
                 PROVE  stored'[i] > 0
      BY DEF OrderFits
    <3>2. i \in Draft /\ j \in Draft /\ written \in Nat /\ written' \in Nat
      BY DEF OutboxInv, OutboxShape, Draft
    <3>3. CASE j = n
      BY <2>2, <3>1, <3>2, <3>3
    <3>4. CASE j # n
      <4>1. tries[j] > 0 /\ j \in 1 .. written /\ i \in 1 .. written
        BY <2>4, <3>2, <3>4 DEF OutboxInv, CallsFit
      <4> QED
        BY <4>1 DEF OutboxInv, OrderFits
    <3> QED
      BY <3>3, <3>4
  <2> QED
    BY <2>5, <2>6, <2>7, <2>8, <2>9 DEF OutboxInv
<1> QED
  BY <1>1, <1>2

\* A change of what waits, with no call made.
LEMMA SetKeeps ==
  ASSUME OutboxInv, NEW p \in [Draft -> Status], Set(p),
         UNCHANGED <<tries, wire, answered, stored, account, discarded>>,
         flushing' \in 0 .. MaxDrafts, awaited' \in [Draft -> 0 .. MaxTries],
         everFailed \subseteq everFailed', everFailed' \subseteq Draft,
         written' \in 0 .. MaxDrafts, written <= written',
         writer' \in [Draft -> 0 .. MaxLogouts], \A n \in Draft : writer'[n] <= account,
         \A n \in 1 .. written : writer'[n] = writer[n],
         \A n \in Draft : /\ p[n] # "none" => n \in 1 .. written' /\ writer'[n] = account
                          /\ p[n] = "failed" => n \in everFailed'
                          /\ p[n] = "sending" => awaited'[n] # 0
                                                 /\ (flushing' = n \/ n \in everFailed')
                          /\ awaited'[n] # 0 \/ n \in everFailed' => tries[n] > 0,
         \A n \in 1 .. written' :
           writer'[n] = account /\ n \notin discarded /\ stored[n] = 0 => p[n] # "none"
  PROVE  OutboxInv'
<1> USE DraftNumbers
<1>1. pend' = p /\ saved' = Persisted(p)
  BY DEF Set
<1>2. OutboxShape'
  BY <1>1 DEF OutboxInv, OutboxShape
<1>3. DraftsFit' /\ DraftsAreKept'
  BY <1>1 DEF DraftsFit, DraftsAreKept, Persisted, Draft
<1>4. CallsFit'
  BY <1>1 DEF OutboxInv, OutboxShape, CallsFit, Draft
<1>5. OrderFits'
  <2> SUFFICES ASSUME NEW i \in 1 .. written', NEW j \in 1 .. written', i < j,
                      writer'[i] = writer'[j], writer'[i] = account',
                      i \notin discarded' \cup everFailed', tries'[j] > 0
               PROVE  stored'[i] > 0
    BY DEF OrderFits
  <2>1. j \in Draft /\ tries[j] > 0 /\ written \in Nat /\ written' \in Nat
    BY DEF OutboxInv, OutboxShape, Draft
  <2>2. i \in 1 .. written /\ j \in 1 .. written
    BY <2>1 DEF OutboxInv, CallsFit
  <2> QED
    BY <2>1, <2>2 DEF OutboxInv, OrderFits
<1> QED
  BY <1>2, <1>3, <1>4, <1>5 DEF OutboxInv

LEMMA ComposeKeeps == ASSUME OutboxInv, Compose PROVE OutboxInv'
<1> USE DraftNumbers DEF Compose, Server, Marks
<1> DEFINE n == written + 1
           p == [pend EXCEPT ![n] = "queued"]
<1>1. n \in Draft /\ p \in [Draft -> Status] /\ written' = n
      /\ \A k \in Draft : p[k] = IF k = n THEN "queued" ELSE pend[k]
  BY DEF OutboxInv, OutboxShape, Draft, Status
<1>2. /\ written' \in 0 .. MaxDrafts /\ written <= written'
      /\ writer' \in [Draft -> 0 .. MaxLogouts] /\ \A k \in Draft : writer'[k] <= account
      /\ \A k \in Draft : writer'[k] = IF k = n THEN account ELSE writer[k]
      /\ \A k \in 1 .. written : writer'[k] = writer[k]
      /\ UNCHANGED <<answered, stored, account, discarded, everFailed>>
  BY <1>1 DEF OutboxInv, OutboxShape, CallsFit, Draft
<1>3. \A k \in Draft :
        /\ p[k] # "none" => k \in 1 .. written' /\ writer'[k] = account
        /\ p[k] = "failed" => k \in everFailed
        /\ p[k] = "sending" => awaited[k] # 0 /\ (flushing = k \/ k \in everFailed)
  BY <1>1, <1>2 DEF OutboxInv, OutboxShape, DraftsFit
<1>4. \A k \in 1 .. written' :
        writer'[k] = account /\ k \notin discarded /\ stored[k] = 0 => p[k] # "none"
  BY <1>1, <1>2 DEF OutboxInv, OutboxShape, DraftsAreKept, Draft
<1>5. \/ Set(p) /\ UNCHANGED <<flushing, awaited, tries, wire>>
      \/ flushing = 0 /\ FlushFrom(p, awaited)
  BY DEF StartFlush
<1>6. /\ flushing \in 0 .. MaxDrafts /\ awaited \in [Draft -> 0 .. MaxTries]
      /\ everFailed \subseteq Draft
      /\ \A k \in Draft : awaited[k] # 0 \/ k \in everFailed => tries[k] > 0
  BY DEF OutboxInv, OutboxShape, CallsFit
<1> HIDE DEF n, p, Compose
<1>7. CASE Set(p) /\ UNCHANGED <<flushing, awaited, tries, wire>>
  BY <1>1, <1>2, <1>3, <1>4, <1>6, <1>7, SetKeeps
<1>8. CASE flushing = 0 /\ FlushFrom(p, awaited)
  BY <1>1, <1>2, <1>3, <1>4, <1>6, <1>8, FlushKeeps
<1> QED
  BY <1>5, <1>7, <1>8

LEMMA FlushesKeep == ASSUME OutboxInv, Flush PROVE OutboxInv'
<1> USE DraftNumbers DEF Flush, Server, Accounts, Marks
<1>1. pend \in [Draft -> Status] /\ awaited \in [Draft -> 0 .. MaxTries]
      /\ written \in 0 .. MaxDrafts /\ writer \in [Draft -> 0 .. MaxLogouts]
      /\ flushing \in 0 .. MaxDrafts /\ everFailed \subseteq Draft
  BY DEF OutboxInv, OutboxShape
<1>2. \A k \in Draft : /\ writer[k] <= account
                       /\ awaited[k] # 0 \/ k \in everFailed => tries[k] > 0
  BY DEF OutboxInv, CallsFit
<1>3. \A k \in Draft :
        /\ pend[k] # "none" => k \in 1 .. written /\ writer[k] = account
        /\ pend[k] = "failed" => k \in everFailed
        /\ pend[k] = "sending" => awaited[k] # 0 /\ (flushing = k \/ k \in everFailed)
  BY DEF OutboxInv, DraftsFit
<1>4. \A k \in 1 .. written :
        writer[k] = account /\ k \notin discarded /\ stored[k] = 0 => pend[k] # "none"
  BY DEF OutboxInv, DraftsAreKept
<1>5. UNCHANGED <<answered, stored, account, discarded, everFailed, written, writer>>
  OBVIOUS
<1>6. \/ Set(pend) /\ UNCHANGED <<flushing, awaited, tries, wire>>
      \/ flushing = 0 /\ FlushFrom(pend, awaited)
  BY DEF StartFlush
<1> HIDE DEF Flush
<1>7. CASE Set(pend) /\ UNCHANGED <<flushing, awaited, tries, wire>>
  BY <1>1, <1>2, <1>3, <1>4, <1>5, <1>7, SetKeeps
<1>8. CASE flushing = 0 /\ FlushFrom(pend, awaited)
  BY <1>1, <1>2, <1>3, <1>4, <1>5, <1>8, FlushKeeps
<1> QED
  BY <1>6, <1>7, <1>8

LEMMA RetryKeeps == ASSUME OutboxInv, NEW n \in Draft, Retry(n) PROVE OutboxInv'
<1> USE DraftNumbers DEF Retry, Server, Accounts, Marks
<1>1. /\ pend' \in [Draft -> Status] /\ saved' = Persisted(pend')
      /\ \A k \in Draft : pend'[k] = IF k = n THEN "sending" ELSE pend[k]
  BY DEF Set, Status, OutboxInv, OutboxShape
<1>2. /\ tries' \in [Draft -> 0 .. MaxTries] /\ awaited' \in [Draft -> 0 .. MaxTries]
      /\ wire' = wire \cup {<<n, tries[n] + 1>>} /\ <<n, tries[n] + 1>> \in SendCall
      /\ \A k \in Draft : /\ tries'[k] = IF k = n THEN tries[k] + 1 ELSE tries[k]
                          /\ awaited'[k] = IF k = n THEN tries[k] + 1 ELSE awaited[k]
  BY DEF Call, OutboxInv, OutboxShape, SendCall
<1>3. OutboxShape'
  BY <1>1, <1>2 DEF OutboxInv, OutboxShape
<1>4. DraftsFit'
  BY <1>1, <1>2 DEF DraftsFit, OutboxInv, OutboxShape
<1>5. DraftsAreKept'
  BY <1>1 DEF OutboxInv, OutboxShape, DraftsAreKept, Draft
<1>6. CallsFit'
  <2>1. n \in 1 .. written /\ \A k \in Draft : tries[k] \in Nat /\ tries'[k] \in Nat
    BY <1>2 DEF OutboxInv, OutboxShape, DraftsFit
  <2>2. \A k \in Draft : /\ tries[k] > 0 \/ k = n => tries'[k] > 0
                         /\ tries'[k] > 0 => tries[k] > 0 \/ k = n
    BY <1>2, <2>1
  <2>3. \A c \in wire' : tries'[c[1]] > 0
    <3>1. ASSUME NEW c \in wire' PROVE c[1] \in Draft /\ (tries[c[1]] > 0 \/ c[1] = n)
      BY <1>2 DEF OutboxInv, OutboxShape, CallsFit, SendCall
    <3> QED
      BY <2>2, <3>1
  <2>4. /\ \A k \in Draft : /\ stored[k] <= 1 /\ writer[k] <= account
                            /\ stored[k] > 0 => tries'[k] > 0
                            /\ tries'[k] > 0 => k <= written
                            /\ awaited'[k] # 0 \/ k \in everFailed => tries'[k] > 0
        /\ \A c \in answered : stored[c[1]] > 0
    BY <1>2, <2>1, <2>2 DEF OutboxInv, CallsFit
  <2>5. UNCHANGED <<stored, writer, account, written, everFailed, answered>>
    OBVIOUS
  <2> HIDE DEF Retry
  <2> QED
    BY <2>3, <2>4, <2>5 DEF CallsFit
<1>7. OrderFits'
  <2>1. tries[n] > 0
    BY DEF OutboxInv, DraftsFit, CallsFit
  <2>2. \A k \in 1 .. written : k \in Draft /\ (tries'[k] > 0 => tries[k] > 0)
    <3>1. \A k \in 1 .. written : k \in Draft
      BY DEF OutboxInv, OutboxShape, Draft
    <3>2. \A k \in Draft : k # n => tries'[k] = tries[k]
      BY <1>2 DEF OutboxInv, OutboxShape
    <3> HIDE DEF Retry
    <3> QED
      BY <2>1, <3>1, <3>2
  <2>3. UNCHANGED <<stored, writer, account, written, discarded, everFailed>>
    OBVIOUS
  <2> HIDE DEF Retry
  <2> QED
    BY <2>2, <2>3 DEF OrderFits, OutboxInv
<1> QED
  BY <1>3, <1>4, <1>5, <1>6, <1>7 DEF OutboxInv

LEMMA DiscardKeeps == ASSUME OutboxInv, NEW n \in Draft, Discard(n) PROVE OutboxInv'
<1> USE DraftNumbers DEF Discard, Server, Accounts, Marks
<1>1. pend \in [Draft -> Status] /\ awaited \in [Draft -> 0 .. MaxTries]
      /\ written \in 0 .. MaxDrafts /\ writer \in [Draft -> 0 .. MaxLogouts]
      /\ flushing \in 0 .. MaxDrafts /\ everFailed \subseteq Draft
      /\ answered \subseteq SendCall
  BY DEF OutboxInv, OutboxShape
<1>2. \A k \in Draft : /\ writer[k] <= account
                       /\ awaited[k] # 0 \/ k \in everFailed => tries[k] > 0
  BY DEF OutboxInv, CallsFit
<1>3. \A k \in Draft :
        /\ pend[k] # "none" => k \in 1 .. written /\ writer[k] = account
        /\ pend[k] = "failed" => k \in everFailed
        /\ pend[k] = "sending" => awaited[k] # 0 /\ (flushing = k \/ k \in everFailed)
  BY DEF OutboxInv, DraftsFit
<1>4. \A k \in 1 .. written : k \in Draft /\
        (writer[k] = account /\ k \notin discarded /\ stored[k] = 0 => pend[k] # "none")
  BY DEF OutboxInv, OutboxShape, DraftsAreKept, Draft
<1> DEFINE p == [pend EXCEPT ![n] = "none"]
<1>5. Set(p) /\ p \in [Draft -> Status] /\ discarded' = discarded \cup {n}
      /\ \A k \in Draft : p[k] = IF k = n THEN "none" ELSE pend[k]
  BY <1>1 DEF Status
<1>6. pend' = p /\ saved' = Persisted(pend')
      /\ UNCHANGED <<flushing, awaited, tries, wire, answered, stored, written, account, writer,
                     everFailed>>
  BY <1>5 DEF Set
<1> HIDE DEF Discard
<1>7. OutboxShape'
  BY <1>5, <1>6 DEF OutboxInv, OutboxShape
<1>8. DraftsFit' /\ DraftsAreKept'
  BY <1>3, <1>4, <1>5, <1>6 DEF DraftsFit, DraftsAreKept
<1>9. CallsFit' /\ OrderFits'
  BY <1>5, <1>6 DEF OutboxInv, CallsFit, OrderFits
<1> QED
  BY <1>7, <1>8, <1>9 DEF OutboxInv

LEMMA CallSucceedsKeeps == ASSUME OutboxInv, NEW n \in Draft, CallSucceeds(n) PROVE OutboxInv'
<1> USE DraftNumbers DEF CallSucceeds, Server, Accounts, Marks
<1>1. pend \in [Draft -> Status] /\ awaited \in [Draft -> 0 .. MaxTries]
      /\ written \in 0 .. MaxDrafts /\ writer \in [Draft -> 0 .. MaxLogouts]
      /\ flushing \in 0 .. MaxDrafts /\ everFailed \subseteq Draft
      /\ answered \subseteq SendCall
  BY DEF OutboxInv, OutboxShape
<1>2. \A k \in Draft : /\ writer[k] <= account
                       /\ awaited[k] # 0 \/ k \in everFailed => tries[k] > 0
  BY DEF OutboxInv, CallsFit
<1>3. \A k \in Draft :
        /\ pend[k] # "none" => k \in 1 .. written /\ writer[k] = account
        /\ pend[k] = "failed" => k \in everFailed
        /\ pend[k] = "sending" => awaited[k] # 0 /\ (flushing = k \/ k \in everFailed)
  BY DEF OutboxInv, DraftsFit
<1>4. \A k \in 1 .. written : k \in Draft /\
        (writer[k] = account /\ k \notin discarded /\ stored[k] = 0 => pend[k] # "none")
  BY DEF OutboxInv, OutboxShape, DraftsAreKept, Draft
<1> DEFINE p == [pend EXCEPT ![n] = "none"]
           aw == [awaited EXCEPT ![n] = 0]
<1>5. /\ p \in [Draft -> Status] /\ aw \in [Draft -> 0 .. MaxTries]
      /\ \A k \in Draft : p[k] = (IF k = n THEN "none" ELSE pend[k])
                          /\ aw[k] = (IF k = n THEN 0 ELSE awaited[k])
  BY <1>1 DEF Status
<1>6. stored[n] > 0
  BY DEF OutboxInv, CallsFit
<1>7. UNCHANGED <<answered, stored, written, account, writer, discarded, everFailed>>
  OBVIOUS
<1>8. \/ flushing = n /\ FlushFrom(p, aw)
      \/ flushing # n /\ Set(p) /\ awaited' = aw /\ UNCHANGED <<flushing, tries, wire>>
  OBVIOUS
<1>9. \A k \in 1 .. written :
         writer[k] = account /\ k \notin discarded /\ stored[k] = 0 => p[k] # "none"
  BY <1>4, <1>5, <1>6, ZeroIsNotMore
<1> HIDE DEF CallSucceeds, p, aw
<1>10. CASE flushing = n /\ FlushFrom(p, aw)
  BY <1>1, <1>2, <1>3, <1>5, <1>7, <1>9, <1>10, FlushKeeps
<1>11. CASE flushing # n /\ Set(p) /\ awaited' = aw /\ UNCHANGED <<flushing, tries, wire>>
  BY <1>1, <1>2, <1>3, <1>5, <1>7, <1>9, <1>11, SetKeeps
<1> QED
  BY <1>8, <1>10, <1>11

LEMMA CallFailsKeeps == ASSUME OutboxInv, NEW n \in Draft, CallFails(n) PROVE OutboxInv'
<1> USE DraftNumbers DEF CallFails, Server, Accounts, Marks
<1>1. pend \in [Draft -> Status] /\ awaited \in [Draft -> 0 .. MaxTries]
      /\ written \in 0 .. MaxDrafts /\ writer \in [Draft -> 0 .. MaxLogouts]
      /\ flushing \in 0 .. MaxDrafts /\ everFailed \subseteq Draft
      /\ answered \subseteq SendCall
  BY DEF OutboxInv, OutboxShape
<1>2. \A k \in Draft : /\ writer[k] <= account
                       /\ awaited[k] # 0 \/ k \in everFailed => tries[k] > 0
  BY DEF OutboxInv, CallsFit
<1>3. \A k \in Draft :
        /\ pend[k] # "none" => k \in 1 .. written /\ writer[k] = account
        /\ pend[k] = "failed" => k \in everFailed
        /\ pend[k] = "sending" => awaited[k] # 0 /\ (flushing = k \/ k \in everFailed)
  BY DEF OutboxInv, DraftsFit
<1>4. \A k \in 1 .. written : k \in Draft /\
        (writer[k] = account /\ k \notin discarded /\ stored[k] = 0 => pend[k] # "none")
  BY DEF OutboxInv, OutboxShape, DraftsAreKept, Draft
<1> DEFINE p == IF pend[n] = "none" THEN pend ELSE [pend EXCEPT ![n] = "failed"]
<1>5. /\ p \in [Draft -> Status] /\ awaited' \in [Draft -> 0 .. MaxTries]
      /\ \A k \in Draft : /\ p[k] = IF k = n /\ pend[n] # "none" THEN "failed" ELSE pend[k]
                          /\ awaited'[k] = IF k = n THEN 0 ELSE awaited[k]
  BY <1>1 DEF Status
<1>6. /\ UNCHANGED <<tries, wire, answered, stored, written, account, writer, discarded>>
      /\ everFailed' = IF pend[n] = "none" THEN everFailed ELSE everFailed \cup {n}
      /\ flushing' = IF flushing = n THEN 0 ELSE flushing
      /\ tries[n] > 0
  BY <1>2
<1>7. Set(p)
  BY DEF Set, OutboxInv, DraftsAreKept
<1> HIDE DEF CallFails, p
<1> QED
  BY <1>1, <1>2, <1>3, <1>4, <1>5, <1>6, <1>7, SetKeeps

LEMMA AckByNonceKeeps == ASSUME OutboxInv, NEW n \in Draft, AckByNonce(n) PROVE OutboxInv'
<1> USE DraftNumbers DEF AckByNonce, Server, Accounts, Marks
<1>1. pend \in [Draft -> Status] /\ awaited \in [Draft -> 0 .. MaxTries]
      /\ written \in 0 .. MaxDrafts /\ writer \in [Draft -> 0 .. MaxLogouts]
      /\ flushing \in 0 .. MaxDrafts /\ everFailed \subseteq Draft
      /\ answered \subseteq SendCall
  BY DEF OutboxInv, OutboxShape
<1>2. \A k \in Draft : /\ writer[k] <= account
                       /\ awaited[k] # 0 \/ k \in everFailed => tries[k] > 0
  BY DEF OutboxInv, CallsFit
<1>3. \A k \in Draft :
        /\ pend[k] # "none" => k \in 1 .. written /\ writer[k] = account
        /\ pend[k] = "failed" => k \in everFailed
        /\ pend[k] = "sending" => awaited[k] # 0 /\ (flushing = k \/ k \in everFailed)
  BY DEF OutboxInv, DraftsFit
<1>4. \A k \in 1 .. written : k \in Draft /\
        (writer[k] = account /\ k \notin discarded /\ stored[k] = 0 => pend[k] # "none")
  BY DEF OutboxInv, OutboxShape, DraftsAreKept, Draft
<1> DEFINE p == [pend EXCEPT ![n] = "none"]
<1>5. /\ p \in [Draft -> Status] /\ Set(p) /\ stored[n] > 0
      /\ \A k \in Draft : p[k] = (IF k = n THEN "none" ELSE pend[k])
  BY <1>1 DEF Status
<1>7. UNCHANGED <<flushing, awaited, tries, wire, answered, stored, written, account, writer,
                  discarded, everFailed>>
  OBVIOUS
<1>9. \A k \in 1 .. written :
         writer[k] = account /\ k \notin discarded /\ stored[k] = 0 => p[k] # "none"
  BY <1>4, <1>5, ZeroIsNotMore
<1> HIDE DEF AckByNonce, p
<1> QED
  BY <1>1, <1>2, <1>3, <1>5, <1>7, <1>9, SetKeeps

LEMMA ReloadKeeps == ASSUME OutboxInv, Reload PROVE OutboxInv'
<1> USE DraftNumbers DEF Reload, Server, Accounts, Marks
<1>1. pend \in [Draft -> Status] /\ awaited \in [Draft -> 0 .. MaxTries]
      /\ written \in 0 .. MaxDrafts /\ writer \in [Draft -> 0 .. MaxLogouts]
      /\ flushing \in 0 .. MaxDrafts /\ everFailed \subseteq Draft
      /\ answered \subseteq SendCall
  BY DEF OutboxInv, OutboxShape
<1>2. \A k \in Draft : /\ writer[k] <= account
                       /\ awaited[k] # 0 \/ k \in everFailed => tries[k] > 0
  BY DEF OutboxInv, CallsFit
<1>3. \A k \in Draft :
        /\ pend[k] # "none" => k \in 1 .. written /\ writer[k] = account
        /\ pend[k] = "failed" => k \in everFailed
        /\ pend[k] = "sending" => awaited[k] # 0 /\ (flushing = k \/ k \in everFailed)
  BY DEF OutboxInv, DraftsFit
<1>4. \A k \in 1 .. written : k \in Draft /\
        (writer[k] = account /\ k \notin discarded /\ stored[k] = 0 => pend[k] # "none")
  BY DEF OutboxInv, OutboxShape, DraftsAreKept, Draft
<1> DEFINE p == Persisted(saved)
<1>5. /\ p \in [Draft -> Status] /\ Set(p)
      /\ \A k \in Draft : p[k] = IF pend[k] = "sending" THEN "queued" ELSE pend[k]
  BY <1>1 DEF Set, Status, OutboxInv, DraftsAreKept, Persisted
<1>6. /\ flushing' = 0 /\ awaited' \in [Draft -> 0 .. MaxTries] /\ \A k \in Draft : awaited'[k] = 0
  OBVIOUS
<1>7. UNCHANGED <<tries, wire, answered, stored, written, account, writer, discarded, everFailed>>
  OBVIOUS
<1> HIDE DEF Reload, p
<1> QED
  BY <1>1, <1>2, <1>3, <1>4, <1>5, <1>6, <1>7, SetKeeps

LEMMA LogoutKeeps == ASSUME OutboxInv, Logout PROVE OutboxInv'
<1> USE DraftNumbers DEF Logout, Server, Accounts, Marks
<1>1. pend \in [Draft -> Status] /\ awaited \in [Draft -> 0 .. MaxTries]
      /\ written \in 0 .. MaxDrafts /\ writer \in [Draft -> 0 .. MaxLogouts]
      /\ flushing \in 0 .. MaxDrafts /\ everFailed \subseteq Draft
      /\ answered \subseteq SendCall
  BY DEF OutboxInv, OutboxShape
<1>2. \A k \in Draft : /\ writer[k] <= account
                       /\ awaited[k] # 0 \/ k \in everFailed => tries[k] > 0
  BY DEF OutboxInv, CallsFit
<1>3. \A k \in Draft :
        /\ pend[k] # "none" => k \in 1 .. written /\ writer[k] = account
        /\ pend[k] = "failed" => k \in everFailed
        /\ pend[k] = "sending" => awaited[k] # 0 /\ (flushing = k \/ k \in everFailed)
  BY DEF OutboxInv, DraftsFit
<1>4. \A k \in 1 .. written : k \in Draft /\
        (writer[k] = account /\ k \notin discarded /\ stored[k] = 0 => pend[k] # "none")
  BY DEF OutboxInv, OutboxShape, DraftsAreKept, Draft
<1>5. account \in 0 .. MaxLogouts /\ account' = account + 1
  BY DEF OutboxInv, OutboxShape
<1>6. pend' \in [Draft -> Status] /\ saved' = Persisted(pend') /\ \A k \in Draft : pend'[k] = "none"
  BY DEF NoDrafts, Persisted, Status
<1>7. UNCHANGED <<flushing, awaited, tries, wire, answered, stored, written, writer, discarded,
                  everFailed>>
  OBVIOUS
<1>8. \A k \in Draft : writer[k] # account' /\ writer[k] <= account'
  BY <1>1, <1>2, <1>5
<1> HIDE DEF Logout
<1>9. OutboxShape'
  <2>1. account' \in 0 .. MaxLogouts
    BY <1>5 DEF Logout
  <2> QED
    BY <1>6, <1>7, <2>1 DEF OutboxInv, OutboxShape
<1>10. DraftsFit' /\ DraftsAreKept' /\ OrderFits'
  BY <1>4, <1>6, <1>7, <1>8 DEF DraftsFit, DraftsAreKept, OrderFits
<1>11. CallsFit'
  BY <1>7, <1>8 DEF OutboxInv, CallsFit
<1> QED
  BY <1>9, <1>10, <1>11 DEF OutboxInv

LEMMA HandleSendKeeps == ASSUME OutboxInv, NEW c \in SendCall, HandleSend(c) PROVE OutboxInv'
<1> USE DraftNumbers DEF HandleSend, Server, Accounts, Marks
<1>1. c[1] \in Draft /\ tries[c[1]] > 0
  BY DEF SendCall, OutboxInv, CallsFit
<1>2. /\ stored' \in [Draft -> Nat]
      /\ \A k \in Draft : stored'[k] = IF k = c[1] /\ ~(stored[k] > 0) THEN 1 ELSE stored[k]
  BY <1>1 DEF Insert, OutboxInv, OutboxShape, CallsFit
<1>3. answered' = answered \cup {c} /\ wire' = wire \ {c} /\ \A b \in SendCall : b[1] \in Draft
  BY DEF SendCall
<1>4. UNCHANGED <<pend, saved, flushing, awaited, tries, written, account, writer, discarded,
                  everFailed>>
  OBVIOUS
<1> HIDE DEF HandleSend
<1>5. OutboxShape'
  BY <1>2, <1>3, <1>4 DEF OutboxInv, OutboxShape
<1>6. DraftsFit' /\ DraftsAreKept'
  BY <1>2, <1>4 DEF OutboxInv, OutboxShape, DraftsFit, DraftsAreKept, Draft
<1>7. CallsFit'
  BY <1>1, <1>2, <1>3, <1>4 DEF OutboxInv, OutboxShape, CallsFit
<1>8. OrderFits'
  <2>1. \A k \in 1 .. written : k \in Draft
    BY DEF OutboxInv, OutboxShape, Draft
  <2>2. \A k \in Draft : stored[k] > 0 => stored'[k] > 0
    BY <1>2
  <2> QED
    BY <1>4, <2>1, <2>2 DEF OutboxInv, OrderFits
<1> QED
  BY <1>5, <1>6, <1>7, <1>8 DEF OutboxInv

LEMMA LoseRequestKeeps == ASSUME OutboxInv, NEW c \in SendCall, LoseRequest(c) PROVE OutboxInv'
<1> USE DraftNumbers DEF LoseRequest, Server, Accounts, Marks
<1>1. c[1] \in Draft /\ tries[c[1]] > 0
  BY DEF SendCall, OutboxInv, CallsFit
<1>2. wire' = wire \ {c} /\ UNCHANGED <<stored, answered>>
  OBVIOUS
<1>4. UNCHANGED <<pend, saved, flushing, awaited, tries, written, account, writer, discarded,
                  everFailed>>
  OBVIOUS
<1> HIDE DEF LoseRequest
<1>5. OutboxShape'
  BY <1>2, <1>4 DEF OutboxInv, OutboxShape
<1>6. DraftsFit' /\ DraftsAreKept'
  BY <1>2, <1>4 DEF OutboxInv, OutboxShape, DraftsFit, DraftsAreKept, Draft
<1>7. CallsFit'
  BY <1>1, <1>2, <1>4 DEF OutboxInv, OutboxShape, CallsFit
<1>8. OrderFits'
  BY <1>2, <1>4 DEF OutboxInv, OutboxShape, OrderFits, Draft
<1> QED
  BY <1>5, <1>6, <1>7, <1>8 DEF OutboxInv

LEMMA OutboxStarts == ASSUME OutboxInit PROVE OutboxInv
<1> USE DraftNumbers DEF OutboxInit, NoDrafts
<1>1. OutboxShape
  BY DEF OutboxShape, Status
<1>2. DraftsFit /\ DraftsAreKept /\ CallsFit /\ OrderFits
  BY DEF DraftsFit, DraftsAreKept, Persisted, CallsFit, OrderFits
<1> QED
  BY <1>1, <1>2 DEF OutboxInv

LEMMA OutboxSteps == ASSUME OutboxInv, [OutboxNext]_outboxVars PROVE OutboxInv'
<1>1. Compose \/ Flush \/ Reload \/ Logout => OutboxInv'
  BY ComposeKeeps, FlushesKeep, ReloadKeeps, LogoutKeeps
<1>2. ASSUME NEW n \in Draft,
             Retry(n) \/ Discard(n) \/ CallSucceeds(n) \/ CallFails(n) \/ AckByNonce(n)
      PROVE  OutboxInv'
  BY <1>2, RetryKeeps, DiscardKeeps, CallSucceedsKeeps, CallFailsKeeps, AckByNonceKeeps
<1>3. ASSUME NEW c \in SendCall, HandleSend(c) \/ LoseRequest(c) PROVE OutboxInv'
  BY <1>3, HandleSendKeeps, LoseRequestKeeps
<1>4. CASE UNCHANGED outboxVars
  BY <1>4 DEF outboxVars, OutboxInv, OutboxShape, DraftsFit, DraftsAreKept, CallsFit, OrderFits
<1> QED
  BY <1>1, <1>2, <1>3, <1>4 DEF OutboxNext

LEMMA DraftsFollow ==
  ASSUME OutboxInv PROVE StoredOnce /\ NoDraftIsLost /\ SentInOrder
<1> USE DraftNumbers DEF OutboxInv
<1>1. \A n \in 1 .. written : n \in Draft
  BY DEF OutboxShape, Draft
<1>2. StoredOnce
  BY DEF StoredOnce, CallsFit
<1>3. NoDraftIsLost
  BY <1>1 DEF NoDraftIsLost, DraftsAreKept, DraftsFit, Persisted
<1>4. SentInOrder
  BY <1>1 DEF SentInOrder, OrderFits, CallsFit
<1> QED
  BY <1>2, <1>3, <1>4

LEMMA WriterSends ==
  ASSUME OutboxInv, [OutboxNext]_outboxVars PROVE SentByItsWriter
<1> SUFFICES ASSUME NEW n \in Draft, tries'[n] > tries[n] PROVE writer'[n] = account
  BY DEF SentByItsWriter
<1>1. OutboxInv' /\ tries[n] \in Nat
  BY OutboxSteps DEF OutboxInv, OutboxShape
<1>2. ASSUME NEW p \in [Draft -> Status], NEW aw, FlushFrom(p, aw) PROVE pend'[n] = "sending"
  <2>1. PICK k \in Queued(p) : Set([p EXCEPT ![k] = "sending"]) /\ Call(k, aw)
    BY <1>1, <1>2 DEF FlushFrom
  <2>2. k = n
    BY <1>1, <2>1 DEF Call, OutboxInv, OutboxShape
  <2> QED
    BY <2>1, <2>2 DEF Set
<1>3. ASSUME NEW p \in [Draft -> Status], StartFlush(p) PROVE pend'[n] = "sending"
  BY <1>1, <1>2, <1>3 DEF StartFlush
<1>4. pend \in [Draft -> Status]
  BY DEF OutboxInv, OutboxShape
<1>5. pend'[n] = "sending" /\ account' = account
  <2>1. CASE Compose
    <3>1. [pend EXCEPT ![written + 1] = "queued"] \in [Draft -> Status]
      BY <1>4 DEF Status
    <3>2. account' = account /\ (UNCHANGED tries \/ StartFlush([pend EXCEPT ![written + 1] = "queued"]))
      BY <2>1 DEF Compose
    <3>3. CASE UNCHANGED tries
      BY <1>1, <3>3
    <3>4. CASE StartFlush([pend EXCEPT ![written + 1] = "queued"])
      BY <1>3, <3>1, <3>2, <3>4
    <3> QED
      BY <3>2, <3>3, <3>4
  <2>2. CASE Flush
    BY <1>3, <1>4, <2>2 DEF Flush, Accounts
  <2>3. ASSUME NEW k \in Draft, Retry(k) PROVE pend'[n] = "sending" /\ account' = account
    <3>1. k = n
      BY <1>1, <2>3 DEF Retry, Call, OutboxInv, OutboxShape
    <3> QED
      BY <1>4, <2>3, <3>1 DEF Retry, Set, Accounts
  <2>4. ASSUME NEW k \in Draft, CallSucceeds(k)
        PROVE  pend'[n] = "sending" /\ account' = account
    <3>1. [pend EXCEPT ![k] = "none"] \in [Draft -> Status]
      BY <1>4 DEF Status
    <3>2. account' = account
          /\ (UNCHANGED tries \/ FlushFrom([pend EXCEPT ![k] = "none"], [awaited EXCEPT ![k] = 0]))
      BY <2>4 DEF CallSucceeds, Accounts
    <3>3. CASE UNCHANGED tries
      BY <1>1, <3>3
    <3>4. CASE FlushFrom([pend EXCEPT ![k] = "none"], [awaited EXCEPT ![k] = 0])
      BY <1>2, <3>1, <3>2, <3>4
    <3> QED
      BY <3>2, <3>3, <3>4
  <2>5. ASSUME UNCHANGED tries PROVE FALSE
    BY <1>1, <2>5
  <2>6. Reload \/ Logout => UNCHANGED tries
    BY DEF Reload, Logout
  <2>7. \A k \in Draft : Discard(k) \/ CallFails(k) \/ AckByNonce(k) => UNCHANGED tries
    BY DEF Discard, CallFails, AckByNonce
  <2>8. \A c \in SendCall : HandleSend(c) \/ LoseRequest(c) => UNCHANGED tries
    BY DEF HandleSend, LoseRequest
  <2>9. UNCHANGED outboxVars => UNCHANGED tries
    BY DEF outboxVars
  <2> QED
    BY <2>1, <2>2, <2>3, <2>4, <2>5, <2>6, <2>7, <2>8, <2>9 DEF OutboxNext
<1> QED
  BY <1>1, <1>5 DEF OutboxInv, DraftsFit

\* The queue of drafts loses nothing, doubles nothing and mixes nothing up, and hands nothing to
\* the account that logs in next: flushPending, retries, reloads and logouts of the client
\* against an insert that a nonce makes harmless, whatever call fails and whenever.
THEOREM DraftsArrive == OutboxSpec => DraftsAreDelivered
<1>1. OutboxInit => OutboxInv
  BY OutboxStarts
<1>2. OutboxInv /\ [OutboxNext]_outboxVars => OutboxInv'
  BY OutboxSteps
<1>3. OutboxInv => StoredOnce /\ NoDraftIsLost /\ SentInOrder
  BY DraftsFollow
<1>4. OutboxInv' => StoredOnce' /\ NoDraftIsLost' /\ SentInOrder'
  BY <1>3, PTL
<1>5. OutboxInv /\ [OutboxNext]_outboxVars => SentByItsWriter
  BY WriterSends
<1> QED
  BY <1>1, <1>2, <1>4, <1>5, PTL DEF OutboxSpec, DraftsAreDelivered
-----------------------------------------------------------------------------
(* Finite sets of numbers, in order                                          *)

\* how many members of s come no later than n
RankIn(s) == [n \in s |-> Cardinality({m \in s : m <= n})]

LEMMA RankCounts ==
  ASSUME NEW s \in SUBSET Nat, IsFiniteSet(s)
  PROVE  /\ Cardinality(s) \in Nat
         /\ RankIn(s) \in Bijection(s, 1 .. Cardinality(s))
         /\ \A m, n \in s : m < n => RankIn(s)[m] < RankIn(s)[n]
<1> DEFINE below(n) == {m \in s : m <= n}
           rank == RankIn(s)
<1>1. Cardinality(s) \in Nat
  BY FS_CardinalityType
<1>2. \A n \in s : /\ IsFiniteSet(below(n)) /\ Cardinality(below(n)) \in Nat
                   /\ Cardinality(below(n)) <= Cardinality(s)
                   /\ Cardinality(below(n)) # 0
  <2> SUFFICES ASSUME NEW n \in s
               PROVE  /\ IsFiniteSet(below(n)) /\ Cardinality(below(n)) \in Nat
                      /\ Cardinality(below(n)) <= Cardinality(s)
                      /\ Cardinality(below(n)) # 0
    OBVIOUS
  <2>1. below(n) \in SUBSET s /\ n \in below(n)
    OBVIOUS
  <2>2. IsFiniteSet(below(n)) /\ Cardinality(below(n)) <= Cardinality(s)
    BY <2>1, FS_Subset
  <2>3. Cardinality(below(n)) # 0
    BY <2>1, <2>2, FS_EmptySet
  <2> QED
    BY <2>2, <2>3, FS_CardinalityType
<1>3. \A n \in s : rank[n] = Cardinality(below(n))
  BY DEF RankIn
<1>4. rank \in [s -> 1 .. Cardinality(s)]
  BY <1>1, <1>2 DEF RankIn
<1>5. \A m, n \in s : m < n => rank[m] < rank[n]
  <2> SUFFICES ASSUME NEW m \in s, NEW n \in s, m < n
               PROVE  Cardinality(below(m)) < Cardinality(below(n))
    BY <1>3
  <2>1. below(m) \in SUBSET below(n) /\ n \in below(n) /\ n \notin below(m)
    <3>1. m \in Nat /\ n \in Nat /\ \A x \in s : x \in Nat
      OBVIOUS
    <3>2. \A x \in s : x <= m => x <= n
      BY <3>1
    <3>3. m <= n /\ n <= n /\ ~(n <= m)
      BY <3>1
    <3> QED
      BY <3>2, <3>3
  <2>2. Cardinality(below(m)) <= Cardinality(below(n))
        /\ (Cardinality(below(m)) = Cardinality(below(n)) => below(n) = below(m))
    BY <1>2, <2>1, FS_Subset
  <2> QED
    BY <1>2, <2>1, <2>2
<1>6. rank \in Injection(s, 1 .. Cardinality(s))
  <2>1. \A m, n \in s : rank[m] = rank[n] => m = n
    <3> SUFFICES ASSUME NEW m \in s, NEW n \in s, m # n PROVE rank[m] # rank[n]
      OBVIOUS
    <3>1. m < n \/ n < m
      OBVIOUS
    <3>2. rank[m] \in Nat /\ rank[n] \in Nat
      BY <1>4
    <3> QED
      BY <1>5, <3>1, <3>2
  <2> QED
    BY <1>4, <2>1 DEF Injection, IsInjective
<1>7. IsFiniteSet(1 .. Cardinality(s)) /\ Cardinality(1 .. Cardinality(s)) = Cardinality(s)
  BY <1>1, FS_Interval
<1>8. rank \in Surjection(s, 1 .. Cardinality(s))
  BY <1>6, <1>7, FS_Injection
<1> QED
  BY <1>1, <1>5, <1>6, <1>8 DEF Bijection

\* Sorted lists a finite set of numbers: each member once, and in order.
LEMMA SortedLists ==
  ASSUME NEW s \in SUBSET Nat, IsFiniteSet(s)
  PROVE  /\ Cardinality(s) \in Nat
         /\ Sorted(s) \in [1 .. Cardinality(s) -> s]
         /\ \A i, j \in 1 .. Cardinality(s) : i < j => Sorted(s)[i] < Sorted(s)[j]
         /\ \A n \in s : \E i \in 1 .. Cardinality(s) : Sorted(s)[i] = n
<1> DEFINE N == Cardinality(s)
           Rising(q) == \A i, j \in DOMAIN q : i < j => q[i] < q[j]
<1>1. N \in Nat /\ RankIn(s) \in Bijection(s, 1 .. N)
      /\ \A m, n \in s : m < n => RankIn(s)[m] < RankIn(s)[n]
  BY RankCounts
<1>2. PICK rank : rank = RankIn(s)
  OBVIOUS
<1>3. rank \in [s -> 1 .. N] /\ \A i \in 1 .. N : \E n \in s : rank[n] = i
  BY <1>1, <1>2 DEF Bijection, Surjection
<1> DEFINE q == [i \in 1 .. N |-> CHOOSE n \in s : rank[n] = i]
<1>4. \A i \in 1 .. N : q[i] \in s /\ rank[q[i]] = i
  BY <1>3
<1>5. q \in [1 .. N -> s]
  BY <1>4
<1>6. \A i, j \in 1 .. N : i < j => q[i] < q[j]
  <2> SUFFICES ASSUME NEW i \in 1 .. N, NEW j \in 1 .. N, i < j, ~(q[i] < q[j]) PROVE FALSE
    OBVIOUS
  <2> HIDE DEF q
  <2>1. PICK m \in s, n \in s : m = q[i] /\ n = q[j] /\ rank[m] = i /\ rank[n] = j
    BY <1>4
  <2>2. n < m \/ n = m
    BY <2>1
  <2>3. j <= i
    BY <1>1, <1>2, <2>1, <2>2
  <2> QED
    BY <1>1, <2>3
<1>7. \E f \in [1 .. N -> s] : Rising(f)
  BY <1>5, <1>6
<1>8. Sorted(s) \in [1 .. N -> s] /\ Rising(Sorted(s))
  BY <1>7 DEF Sorted
<1>9. PICK f \in [1 .. N -> s] : f = Sorted(s) /\ \A i, j \in 1 .. N : i < j => f[i] < f[j]
  BY <1>8
<1>10. f \in Injection(1 .. N, s)
  <2>1. \A i, j \in 1 .. N : f[i] = f[j] => i = j
    <3> SUFFICES ASSUME NEW i \in 1 .. N, NEW j \in 1 .. N, i # j PROVE f[i] # f[j]
      OBVIOUS
    <3>1. i < j \/ j < i
      BY <1>1
    <3>2. f[i] \in Nat /\ f[j] \in Nat
      OBVIOUS
    <3> QED
      BY <1>9, <3>1, <3>2
  <2> QED
    BY <2>1 DEF Injection, IsInjective
<1>11. IsFiniteSet(1 .. N) /\ Cardinality(1 .. N) = N
  BY <1>1, FS_Interval
<1>12. f \in Surjection(1 .. N, s)
  BY <1>10, <1>11, FS_Injection
<1> QED
  BY <1>1, <1>9, <1>12 DEF Surjection

\* A page of the k smallest has k members, or is all there is; and what it lacks comes later.
LEMMA LowestIsAPage ==
  ASSUME NEW s \in SUBSET Nat, IsFiniteSet(s), NEW k \in Nat
  PROVE  /\ IsFiniteSet(Lowest(s, k)) /\ Cardinality(Lowest(s, k)) \in Nat
         /\ Lowest(s, k) \subseteq s
         /\ Cardinality(Lowest(s, k)) < k => Lowest(s, k) = s
         /\ \A m \in Lowest(s, k), n \in s \ Lowest(s, k) : m < n
<1> DEFINE under(n) == {m \in s : m < n}
           low == Lowest(s, k)
<1>1. low = {n \in s : Cardinality(under(n)) < k}
  BY DEF Lowest
<1>2. IsFiniteSet(low) /\ Cardinality(low) \in Nat /\ low \subseteq s
  <2>1. low \in SUBSET s
    BY <1>1
  <2> QED
    BY <2>1, FS_Subset, FS_CardinalityType
<1>3. \A n \in s : IsFiniteSet(under(n)) /\ Cardinality(under(n)) \in Nat
  <2> SUFFICES ASSUME NEW n \in s PROVE IsFiniteSet(under(n)) /\ Cardinality(under(n)) \in Nat
    OBVIOUS
  <2>1. under(n) \in SUBSET s
    OBVIOUS
  <2> QED
    BY <2>1, FS_Subset, FS_CardinalityType
<1>4. \A m, n \in s : m <= n => Cardinality(under(m)) <= Cardinality(under(n))
  <2> SUFFICES ASSUME NEW m \in s, NEW n \in s, m <= n
               PROVE  Cardinality(under(m)) <= Cardinality(under(n))
    OBVIOUS
  <2>1. under(m) \in SUBSET under(n)
    <3>1. m \in Nat /\ n \in Nat /\ \A x \in s : x \in Nat
      OBVIOUS
    <3>2. \A x \in s : x < m => x < n
      BY <3>1
    <3> QED
      BY <3>2
  <2> QED
    BY <1>3, <2>1, FS_Subset
<1>5. \A m \in low, n \in s \ low : m < n
  <2> SUFFICES ASSUME NEW m \in low, NEW n \in s \ low, ~(m < n) PROVE FALSE
    OBVIOUS
  <2>1. m \in s /\ n \in s /\ n <= m
    <3>1. m \in s /\ n \in s
      BY <1>1
    <3>2. m \in Nat /\ n \in Nat
      BY <3>1
    <3> QED
      BY <3>1, <3>2
  <2>2. Cardinality(under(n)) <= Cardinality(under(m)) /\ Cardinality(under(m)) < k
    BY <1>1, <1>4, <2>1
  <2>3. Cardinality(under(n)) < k
    BY <1>3, <2>1, <2>2
  <2> QED
    BY <1>1, <2>1, <2>3
<1>6. ASSUME Cardinality(low) < k, low # s PROVE FALSE
  <2>1. PICK rank : /\ rank \in [s -> 1 .. Cardinality(s)]
                    /\ \A i \in 1 .. Cardinality(s) : \E n \in s : rank[n] = i
                    /\ \A n \in s : rank[n] = Cardinality({m \in s : m <= n})
                    /\ \A m, n \in s : m < n => rank[m] < rank[n]
    <3>1. RankIn(s) \in Bijection(s, 1 .. Cardinality(s))
          /\ \A m, n \in s : m < n => RankIn(s)[m] < RankIn(s)[n]
      BY RankCounts
    <3>2. \A n \in s : RankIn(s)[n] = Cardinality({m \in s : m <= n})
      BY DEF RankIn
    <3> QED
      BY <3>1, <3>2 DEF Bijection, Surjection
  <2>2. Cardinality(s) \in Nat
    BY FS_CardinalityType
  <2>3. \A n \in s : Cardinality(under(n)) + 1 = rank[n]
    <3> SUFFICES ASSUME NEW n \in s PROVE Cardinality(under(n)) + 1 = Cardinality({m \in s : m <= n})
      BY <2>1
    <3>1. {m \in s : m <= n} = under(n) \cup {n} /\ n \notin under(n)
      <4>1. n \in Nat /\ \A x \in s : x \in Nat
        OBVIOUS
      <4>2. \A x \in s : x <= n <=> (x < n \/ x = n)
        BY <4>1
      <4>3. ~(n < n)
        BY <4>1
      <4> QED
        BY <4>2, <4>3
    <3> QED
      BY <1>3, <3>1, FS_AddElement
  <2>4. PICK n \in s : Cardinality(under(n)) >= k
    <3>1. PICK n \in s : n \notin low
      BY <1>2, <1>6
    <3>2. PICK x \in Nat : x = Cardinality(under(n)) /\ ~(x < k)
      BY <1>1, <1>3, <3>1
    <3>3. x >= k
      BY <3>2
    <3> QED
      BY <3>2, <3>3
  <2>6. PICK h \in s : rank[h] = Cardinality(low) + 1
    <3>1. Cardinality(low) + 1 \in 1 .. Cardinality(s)
      BY <1>2, <1>3, <1>6, <2>1, <2>2, <2>3, <2>4
    <3> QED
      BY <2>1, <3>1
  <2>7. Cardinality(under(h)) = Cardinality(low)
    BY <1>2, <1>3, <2>3, <2>6
  <2>8. h \in low
    BY <1>1, <1>6, <2>7
  <2>9. under(h) \in SUBSET low
    <3> SUFFICES ASSUME NEW x \in under(h) PROVE x \in low
      OBVIOUS
    <3>1. x \in s /\ x <= h /\ Cardinality(under(h)) < k
      BY <1>1, <2>8
    <3>2. Cardinality(under(x)) <= Cardinality(under(h))
      BY <1>4, <3>1
    <3>3. Cardinality(under(x)) < k
      BY <1>3, <3>1, <3>2
    <3> QED
      BY <1>1, <3>1, <3>3
  <2>10. under(h) = low
    BY <1>2, <2>7, <2>9, FS_Subset
  <2> QED
    BY <2>8, <2>10
<1> QED
  BY <1>2, <1>5, <1>6

LEMMA GreatestIsTheLargest ==
  ASSUME NEW s \in SUBSET Nat, IsFiniteSet(s)
  PROVE  /\ s # {} => Greatest(s) \in s
         /\ \A n \in s : n <= Greatest(s)
         /\ Greatest(s) \in Nat
<1>1. CASE s = {}
  BY <1>1 DEF Greatest
<1>2. CASE s # {}
  <2>1. PICK rank : /\ rank \in [s -> 1 .. Cardinality(s)]
                    /\ \A i \in 1 .. Cardinality(s) : \E n \in s : rank[n] = i
                    /\ \A m, n \in s : m < n => rank[m] < rank[n]
    BY RankCounts DEF Bijection, Surjection
  <2>2. Cardinality(s) \in Nat /\ Cardinality(s) # 0
    BY <1>2, FS_CardinalityType, FS_EmptySet
  <2>3. PICK h \in s : rank[h] = Cardinality(s)
    BY <2>1, <2>2
  <2>4. \A n \in s : n <= h
    <3> SUFFICES ASSUME NEW n \in s, h < n PROVE FALSE
      OBVIOUS
    <3>1. rank[h] < rank[n] /\ rank[n] <= Cardinality(s) /\ rank[n] \in Nat
      BY <2>1, <2>2
    <3> QED
      BY <2>2, <2>3, <3>1
  <2> QED
    BY <1>2, <2>4 DEF Greatest
<1> QED
  BY <1>1, <1>2

-----------------------------------------------------------------------------
(* The feed: the inductive invariant                                         *)

FillRecord == [by : 0 .. MaxConnects, after : 0 .. MaxSeq, page : 0 .. FillMaxPages,
               stage : {"off", "asked", "answered"},
               answer : [rows : SUBSET Seqs, more : BOOLEAN], owed : SUBSET Seqs,
               end : {"none", "clean", "capped", "failed"}]
FetchRecord == [stage : {"off", "asked", "answered"}, page : SUBSET Seqs]

FeedShape ==
  /\ lastNo \in 0 .. MaxSeq /\ writing \subseteq Target \X Seqs \X BOOLEAN
  /\ visible \in [Target -> SUBSET Seqs] /\ fanout \subseteq Target \X Seqs
  /\ socket \in {"down", "up", "live"} /\ connects \in 0 .. MaxConnects
  /\ list \in [Target -> Seq(Seqs)] /\ seen \in [Target -> 0 .. MaxSeq]
  /\ known \subseteq Target /\ fetches \in 0 .. MaxVisits
  /\ fetching \in [Target -> FetchRecord] /\ fill \in [Target -> FillRecord]
  /\ \A t \in Target : (fill[t].by = 0) = (fill[t].stage = "off")
  /\ left \in [Reconnect -> SUBSET Target] /\ unfilled \in [Target -> SUBSET Seqs]
  /\ logouts \in 0 .. MaxVisits

\* No message is shown twice.
ListsFit == \A t \in Target : Len(list[t]) = Cardinality(Shown(list, t))

\* What a backfill owes and has passed is shown, as long as nobody logs out; the page that is
\* on its way brings the next of what it owes and leaves only later ones to the pages after it.
FillFits(t) ==
  fill[t].by # 0 =>
    /\ fill[t].owed \subseteq visible[t]
    /\ logouts = 0 => \A n \in fill[t].owed : n <= fill[t].after => n \in Shown(list, t)
    /\ fill[t].stage = "answered" =>
         /\ fill[t].answer.more => fill[t].answer.rows # {}
         /\ \A n \in fill[t].owed :
              n > fill[t].after =>
                \/ n \in fill[t].answer.rows
                \/ fill[t].answer.more /\ \A m \in fill[t].answer.rows : m < n

FeedInv == FeedShape /\ ListsFit /\ \A t \in Target : FillFits(t)

LEMMA FeedBounds ==
  /\ MaxSeq \in Nat /\ MaxConnects \in Nat /\ MaxVisits \in Nat
  /\ FillPage \in Nat \ {0} /\ FillMaxPages \in Nat /\ NewestPage \in Nat
  /\ Seqs \in SUBSET Nat /\ IsFiniteSet(Seqs) /\ \A n \in Seqs : n \in Nat /\ n <= MaxSeq /\ n > 0
  /\ \A s \in SUBSET Seqs : s \in SUBSET Nat /\ IsFiniteSet(s)
<1>1. MaxSeq \in Nat
  BY FeedAssumption
<1>2. IsFiniteSet(Seqs)
  BY <1>1, FS_Interval DEF Seqs
<1>3. \A s \in SUBSET Seqs : s \in SUBSET Nat /\ IsFiniteSet(s)
  <2> SUFFICES ASSUME NEW s \in SUBSET Seqs PROVE s \in SUBSET Nat /\ IsFiniteSet(s)
    OBVIOUS
  <2>1. s \in SUBSET Nat
    BY <1>1 DEF Seqs
  <2>2. IsFiniteSet(s)
    BY <1>2, FS_Subset
  <2> QED
    BY <2>1, <2>2
<1> QED
  BY <1>1, <1>2, <1>3, FeedAssumption DEF Seqs

LEMMA NoFillFits ==
  /\ NoAnswer \in [rows : SUBSET Seqs, more : BOOLEAN]
  /\ NoFill \in FillRecord /\ NoFill.by = 0 /\ NoFill.stage = "off"
  /\ NoFetch \in FetchRecord
  BY FeedBounds DEF NoFill, NoAnswer, NoFetch, FillRecord, FetchRecord

Members(q) == {q[i] : i \in DOMAIN q}
Listing(q) == q \in Seq(Seqs) /\ Len(q) = Cardinality(Members(q))
ListOf(q, s) == s \in SUBSET Seqs /\ Listing(q) /\ Members(q) = s
Apart(q, s) == Members(q) \cap s = {}

\* The list of t holds what it did and s beside it, each message once.
LEMMA Extended ==
  ASSUME NEW l, NEW s, NEW r, NEW c, c = l \o r, Listing(l), ListOf(r, s), Apart(l, s)
  PROVE  Listing(c) /\ Members(c) = Members(l) \cup s
<1>0. /\ l \in Seq(Seqs) /\ Len(l) = Cardinality(Members(l))
      /\ r \in Seq(Seqs) /\ Len(r) = Cardinality(s) /\ Members(r) = s /\ s \in SUBSET Seqs
      /\ Members(l) \cap s = {}
  BY DEF Listing, ListOf, Apart
<1>1. l \o r \in Seq(Seqs) /\ Len(l \o r) = Len(l) + Len(r)
  BY <1>0, ConcatProperties
<1>2. c \in Seq(Seqs) /\ Len(c) = Len(l) + Len(r) /\ Len(l) \in Nat /\ Len(r) \in Nat
  BY <1>0, <1>1
<1>3. \A i \in 1 .. Len(l) + Len(r) : c[i] = IF i <= Len(l) THEN l[i] ELSE r[i - Len(l)]
  BY <1>0
<1>4. DOMAIN l = 1 .. Len(l) /\ DOMAIN r = 1 .. Len(r) /\ DOMAIN c = 1 .. Len(c)
  BY <1>0, <1>2
<1>5. PICK x \in Nat, y \in Nat : x = Len(l) /\ y = Len(r)
  BY <1>2
<1>6. /\ \A i \in 1 .. x : i \in 1 .. x + y /\ c[i] = l[i]
      /\ \A i \in 1 .. y : i + x \in 1 .. x + y /\ c[i + x] = r[i]
      /\ \A i \in 1 .. x + y : \/ i \in 1 .. x /\ c[i] = l[i]
                               \/ i - x \in 1 .. y /\ c[i] = r[i - x]
  <2>1. \A i \in 1 .. x + y : c[i] = IF i <= x THEN l[i] ELSE r[i - x]
    BY <1>3, <1>5
  <2>2. ASSUME NEW i \in 1 .. x PROVE i \in 1 .. x + y /\ c[i] = l[i]
    <3>1. i \in 1 .. x + y /\ i <= x
      OBVIOUS
    <3> QED
      BY <2>1, <3>1
  <2>3. ASSUME NEW i \in 1 .. y PROVE i + x \in 1 .. x + y /\ c[i + x] = r[i]
    <3>1. i + x \in 1 .. x + y /\ ~(i + x <= x) /\ (i + x) - x = i
      OBVIOUS
    <3> QED
      BY <2>1, <3>1
  <2>4. ASSUME NEW i \in 1 .. x + y
        PROVE  \/ i \in 1 .. x /\ c[i] = l[i]
               \/ i - x \in 1 .. y /\ c[i] = r[i - x]
    <3>1. IF i <= x THEN i \in 1 .. x ELSE i - x \in 1 .. y
      OBVIOUS
    <3> QED
      BY <2>1, <3>1
  <2> QED
    BY <2>2, <2>3, <2>4
<1>7. Members(c) = Members(l) \cup s
  <2> USE DEF Members
  <2>1. DOMAIN l = 1 .. x /\ DOMAIN r = 1 .. y /\ DOMAIN c = 1 .. x + y
    BY <1>2, <1>4, <1>5
  <2>2. ASSUME NEW i \in 1 .. x + y PROVE c[i] \in {l[j] : j \in 1 .. x} \cup {r[j] : j \in 1 .. y}
    BY <1>6
  <2>3. ASSUME NEW i \in 1 .. x PROVE l[i] \in {c[j] : j \in 1 .. x + y}
    BY <1>6
  <2>4. ASSUME NEW i \in 1 .. y PROVE r[i] \in {c[j] : j \in 1 .. x + y}
    <3>1. i + x \in 1 .. x + y /\ c[i + x] = r[i]
      BY <1>6
    <3> QED
      BY <3>1
  <2>5. {c[j] : j \in 1 .. x + y} = {l[j] : j \in 1 .. x} \cup {r[j] : j \in 1 .. y}
    <3>1. {c[j] : j \in 1 .. x + y} \subseteq {l[j] : j \in 1 .. x} \cup {r[j] : j \in 1 .. y}
      BY <2>2
    <3>2. {l[j] : j \in 1 .. x} \subseteq {c[j] : j \in 1 .. x + y}
      BY <2>3
    <3>3. {r[j] : j \in 1 .. y} \subseteq {c[j] : j \in 1 .. x + y}
      BY <2>4
    <3> QED
      BY <3>1, <3>2, <3>3
  <2> QED
    BY <1>0, <2>1, <2>5
<1>8. Cardinality(Members(l) \cup s) = Len(l) + Len(r)
  <2>1. PICK u : u = Members(l)
    OBVIOUS
  <2>2. u \in SUBSET Seqs /\ IsFiniteSet(u) /\ IsFiniteSet(s)
    BY <1>0, <2>1, FeedBounds DEF Members
  <2>3. u \cap s = {}
    BY <1>0, <2>1
  <2>4. Cardinality(u \cap s) = 0
    BY <2>3, FS_EmptySet
  <2>5. Cardinality(u \cup s) = Cardinality(u) + Cardinality(s) - Cardinality(u \cap s)
    BY <2>2, FS_Union
  <2> QED
    BY <1>0, <1>2, <2>1, <2>4, <2>5
<1> QED
  BY <1>2, <1>7, <1>8 DEF Listing

\* Sorted is a list of the set's members, each once.
LEMMA SortedIsAList ==
  ASSUME NEW s \in SUBSET Seqs
  PROVE  /\ Sorted(s) \in Seq(Seqs) /\ Len(Sorted(s)) = Cardinality(s)
         /\ Members(Sorted(s)) = s
<1>1. s \in SUBSET Nat /\ IsFiniteSet(s)
  BY FeedBounds
<1>2. PICK q : q = Sorted(s)
  OBVIOUS
<1>3. /\ Cardinality(s) \in Nat /\ q \in [1 .. Cardinality(s) -> s]
      /\ \A n \in s : \E i \in 1 .. Cardinality(s) : q[i] = n
  BY <1>1, <1>2, SortedLists
<1>4. q \in Seq(s) /\ Len(q) = Cardinality(s) /\ DOMAIN q = 1 .. Cardinality(s)
  BY <1>3
<1>5. q \in Seq(Seqs)
  BY <1>3, <1>4
<1>6. Members(q) = s
  BY <1>3, <1>4 DEF Members
<1> QED
  BY <1>2, <1>4, <1>5, <1>6

\* What every step but a logout does with the lists.
ListsGrow == /\ list' \in [Target -> Seq(Seqs)] /\ ListsFit'
             /\ \A q \in Target : Shown(list, q) \subseteq Shown(list', q)

LEMMA OneListChanges ==
  ASSUME FeedInv, NEW t \in Target, NEW l \in Seq(Seqs), list' = [list EXCEPT ![t] = l],
         Len(l) = Cardinality(Members(l)),
         Shown(list, t) \subseteq Members(l)
  PROVE  /\ ListsGrow /\ Shown(list', t) = Members(l)
<1>1. list \in [Target -> Seq(Seqs)]
  BY DEF FeedInv, FeedShape
<1>2. list' \in [Target -> Seq(Seqs)] /\ list'[t] = l
      /\ \A q \in Target : q # t => list'[q] = list[q]
  BY <1>1
<1>3. Shown(list', t) = Members(l)
  BY <1>2 DEF Shown, Members
<1>4. \A q \in Target : q # t => Shown(list', q) = Shown(list, q)
  BY <1>2 DEF Shown
<1>5. ListsFit'
  <2> SUFFICES ASSUME NEW q \in Target PROVE Len(list'[q]) = Cardinality(Shown(list', q))
    BY DEF ListsFit, Shown
  <2>1. CASE q = t
    BY <1>2, <1>3, <2>1
  <2>2. CASE q # t
    BY <1>2, <1>4, <2>2 DEF FeedInv, ListsFit
  <2> QED
    BY <2>1, <2>2
<1> QED
  BY <1>2, <1>3, <1>4, <1>5 DEF ListsGrow

LEMMA ReceiveGrows ==
  ASSUME FeedInv, NEW t \in Target, NEW n \in Seqs,
         SetStore(Receive([list |-> list, seen |-> seen], t, n))
  PROVE  ListsGrow /\ n \in Shown(list', t) /\ seen' \in [Target -> 0 .. MaxSeq]
<1>1. list \in [Target -> Seq(Seqs)] /\ seen \in [Target -> 0 .. MaxSeq]
      /\ Len(list[t]) = Cardinality(Shown(list, t)) /\ ListsFit
  BY DEF FeedInv, FeedShape, ListsFit
<1>2. CASE n \in Shown(list, t)
  <2>1. list' = list /\ seen' = seen
    BY <1>2 DEF SetStore, Receive
  <2>2. ListsFit'
    BY <1>1, <2>1 DEF ListsFit, Shown
  <2> QED
    BY <1>1, <1>2, <2>1, <2>2 DEF ListsGrow
<1>3. CASE n \notin Shown(list, t)
  <2>1. list' = [list EXCEPT ![t] = Append(@, n)] /\ seen' = [seen EXCEPT ![t] = Larger(n, @)]
    BY <1>3 DEF SetStore, Receive
  <2>2. seen[t] \in 0 .. MaxSeq /\ n \in 0 .. MaxSeq
    BY <1>1, FeedBounds DEF Seqs
  <2>3. Larger(n, seen[t]) \in 0 .. MaxSeq
    BY <2>2 DEF Larger
  <2>4. seen' \in [Target -> 0 .. MaxSeq]
    BY <1>1, <2>1, <2>3
  <2>5. PICK l : l = list[t]
    OBVIOUS
  <2>6. l \in Seq(Seqs) /\ Len(l) = Cardinality(Members(l))
        /\ Members(l) \cap {n} = {}
    BY <1>1, <1>3, <2>5 DEF Shown, Members
  <2>7. <<n>> \in Seq(Seqs) /\ Len(<<n>>) = Cardinality({n})
        /\ Members(<<n>>) = {n}
    <3>1. Cardinality({n}) = 1
      BY FS_Singleton
    <3>2. DOMAIN <<n>> = {1} /\ <<n>>[1] = n
      OBVIOUS
    <3> QED
      BY <3>1, <3>2 DEF Members
  <2>8. {n} \in SUBSET Seqs
    OBVIOUS
  <2>9. PICK r : r = <<n>>
    OBVIOUS
  <2>10. PICK c : c = l \o r
    OBVIOUS
  <2>11. r \in Seq(Seqs) /\ Len(r) = Cardinality({n}) /\ Members(r) = {n}
    BY <2>7, <2>9
  <2>12. Listing(c) /\ Members(c) = Members(l) \cup {n}
    <3>1. Listing(l) /\ ListOf(r, {n}) /\ Apart(l, {n})
      BY <2>6, <2>8, <2>11 DEF Listing, ListOf, Apart
    <3> QED
      BY <2>10, <3>1, Extended
  <2>13. list' = [list EXCEPT ![t] = c]
    <3>1. Append(l, n) = l \o r
      BY <2>6, <2>9
    <3> QED
      BY <2>1, <2>5, <2>10, <3>1
  <2>14. Shown(list, t) = Members(l)
    BY <2>5 DEF Shown, Members
  <2>15. ListsGrow /\ Shown(list', t) = Members(c)
    BY <2>12, <2>13, <2>14, OneListChanges DEF Listing
  <2> QED
    BY <2>4, <2>12, <2>15
<1> QED
  BY <1>2, <1>3

LEMMA ReceiveAllGrows ==
  ASSUME FeedInv, NEW t \in Target, NEW page \in SUBSET Seqs, SetStore(ReceiveAll(t, page))
  PROVE  ListsGrow /\ page \subseteq Shown(list', t) /\ seen' \in [Target -> 0 .. MaxSeq]
<1>1. list \in [Target -> Seq(Seqs)] /\ seen \in [Target -> 0 .. MaxSeq]
      /\ Len(list[t]) = Cardinality(Shown(list, t))
  BY DEF FeedInv, FeedShape, ListsFit
<1>2. PICK new \in SUBSET Seqs : new = page \ Shown(list, t)
  OBVIOUS
<1>3. list' = [list EXCEPT ![t] = @ \o Sorted(new)]
      /\ seen' = [seen EXCEPT ![t] = Larger(Greatest(new), @)]
  BY <1>2 DEF SetStore, ReceiveAll
<1>4. PICK r \in Seq(Seqs) : r = Sorted(new) /\ Len(r) = Cardinality(new)
                            /\ Members(r) = new
  BY SortedIsAList
<1>5. PICK l \in Seq(Seqs) : l = list[t]
  BY <1>1
<1>6. Shown(list, t) = Members(l)
  BY <1>5 DEF Shown, Members
<1>7. Len(l) = Cardinality(Members(l)) /\ Members(l) \cap new = {}
  BY <1>1, <1>2, <1>5, <1>6 DEF Members
<1>8. PICK c : c = l \o r
  OBVIOUS
<1>9. Listing(c) /\ Members(c) = Members(l) \cup new
  <2>1. Listing(l) /\ ListOf(r, new) /\ Apart(l, new)
    BY <1>4, <1>7 DEF Listing, ListOf, Apart
  <2> QED
    BY <1>8, <2>1, Extended
<1>10. list' = [list EXCEPT ![t] = c]
  BY <1>3, <1>4, <1>5, <1>8
<1>11. ListsGrow /\ Shown(list', t) = Members(c)
  BY <1>6, <1>9, <1>10, OneListChanges DEF Listing
<1>12. page \subseteq Shown(list', t)
  BY <1>2, <1>6, <1>9, <1>11
<1>13. Greatest(new) \in 0 .. MaxSeq
  <2>1. new \in SUBSET Nat /\ IsFiniteSet(new)
    BY FeedBounds
  <2>2. Greatest(new) \in Nat /\ (new # {} => Greatest(new) \in new)
    BY <2>1, GreatestIsTheLargest
  <2>3. new = {} => Greatest(new) = 0
    BY DEF Greatest
  <2> QED
    BY <2>2, <2>3, FeedBounds
<1>14. seen[t] \in 0 .. MaxSeq
  BY <1>1
<1>15. Larger(Greatest(new), seen[t]) \in 0 .. MaxSeq
  BY <1>13, <1>14 DEF Larger
<1>16. seen' \in [Target -> 0 .. MaxSeq]
  BY <1>1, <1>3, <1>15
<1> QED
  BY <1>11, <1>12, <1>16

LEMMA MergeGrows ==
  ASSUME FeedInv, NEW t \in Target, NEW page \in SUBSET Seqs, MergePage(t, page)
  PROVE  ListsGrow
<1>1. list \in [Target -> Seq(Seqs)]
  BY DEF FeedInv, FeedShape
<1>2. PICK s : s = page \cup Shown(list, t)
  OBVIOUS
<1>3. s \in SUBSET Seqs
  BY <1>1, <1>2 DEF Shown
<1>4. PICK r \in Seq(Seqs) : r = Sorted(s) /\ Len(r) = Cardinality(s)
                            /\ Members(r) = s
  BY <1>3, SortedIsAList
<1>5. list' = [list EXCEPT ![t] = r]
  BY <1>2, <1>4 DEF MergePage
<1> QED
  BY <1>2, <1>4, <1>5, OneListChanges

LEMMA ListsStay == ASSUME FeedInv, UNCHANGED list PROVE ListsGrow
<1>1. list' = list /\ list \in [Target -> Seq(Seqs)] /\ ListsFit
  BY DEF FeedInv, FeedShape
<1>2. \A t \in Target : Shown(list', t) = Shown(list, t)
  BY <1>1
<1>3. ListsFit'
  BY <1>1 DEF ListsFit, Shown
<1> QED
  BY <1>1, <1>2, <1>3 DEF ListsGrow

LEMMA FillStays ==
  ASSUME FeedInv, ListsGrow, logouts' = logouts, NEW t \in Target, visible[t] \subseteq visible'[t],
         fill'[t] = fill[t]
  PROVE  FillFits(t)'
<1>1. Shown(list, t) \subseteq Shown(list', t)
  BY DEF ListsGrow
<1>2. FillFits(t) /\ Shown(list, t)' = Shown(list', t)
  BY DEF FeedInv, Shown
<1> QED
  BY <1>1, <1>2 DEF FillFits

\* A target that is not being filled.
LEMMA NothingToFill == ASSUME NEW t \in Target, fill'[t].by = 0 PROVE FillFits(t)'
  BY DEF FillFits

\* The steps that leave the backfills alone.
LEMMA OtherSteps ==
  ASSUME FeedInv, ListsGrow, UNCHANGED <<fill, left, unfilled, logouts>>,
         lastNo' \in 0 .. MaxSeq, writing' \subseteq Target \X Seqs \X BOOLEAN,
         visible' \in [Target -> SUBSET Seqs], fanout' \subseteq Target \X Seqs,
         socket' \in {"down", "up", "live"}, connects' = connects,
         seen' \in [Target -> 0 .. MaxSeq], known' \subseteq Target, fetches' \in 0 .. MaxVisits,
         fetching' \in [Target -> FetchRecord], \A t \in Target : visible[t] \subseteq visible'[t]
  PROVE  FeedInv'
<1>1. FeedShape'
  BY DEF FeedInv, FeedShape, ListsGrow
<1>2. \A t \in Target : FillFits(t)'
  BY FillStays
<1> QED
  BY <1>1, <1>2 DEF FeedInv, ListsGrow

LEMMA ServerKeeps ==
  ASSUME FeedInv, (\E t \in Target, person \in BOOLEAN : InsertRow(t, person)) \/ CommitRow
  PROVE  FeedInv' /\ ListsGrow
<1>1. ListsGrow /\ UNCHANGED <<fill, left, unfilled, logouts, socket, connects, seen, known,
                               fetches, fetching>>
  BY ListsStay DEF InsertRow, CommitRow, feedStore, feedFill
<1>2. socket \in {"down", "up", "live"} /\ seen \in [Target -> 0 .. MaxSeq]
      /\ known \subseteq Target /\ fetches \in 0 .. MaxVisits /\ fetching \in [Target -> FetchRecord]
      /\ lastNo \in 0 .. MaxSeq /\ writing \subseteq Target \X Seqs \X BOOLEAN
      /\ visible \in [Target -> SUBSET Seqs] /\ fanout \subseteq Target \X Seqs
  BY DEF FeedInv, FeedShape
<1>3. CASE \E t \in Target, person \in BOOLEAN : InsertRow(t, person)
  <2>1. PICK t \in Target, person \in BOOLEAN : InsertRow(t, person)
    BY <1>3
  <2>2. lastNo + 1 \in Seqs /\ lastNo + 1 \in 0 .. MaxSeq
    BY <1>2, <2>1, FeedBounds DEF InsertRow, Seqs
  <2>3. lastNo' \in 0 .. MaxSeq /\ writing' \subseteq Target \X Seqs \X BOOLEAN
        /\ UNCHANGED <<visible, fanout>>
    BY <1>2, <2>1, <2>2 DEF InsertRow
  <2> QED
    BY <1>1, <1>2, <2>3, OtherSteps
<1>4. CASE CommitRow
  <2>1. PICK w \in writing :
          /\ writing' = writing \ {w} /\ visible' = [visible EXCEPT ![w[1]] = @ \cup {w[2]}]
          /\ fanout' = fanout \cup {<<w[1], w[2]>>} /\ lastNo' = lastNo
    BY <1>4 DEF CommitRow
  <2>2. w[1] \in Target /\ w[2] \in Seqs
    BY <1>2
  <2>3. /\ writing' \subseteq Target \X Seqs \X BOOLEAN /\ visible' \in [Target -> SUBSET Seqs]
        /\ fanout' \subseteq Target \X Seqs /\ \A t \in Target : visible[t] \subseteq visible'[t]
    BY <1>2, <2>1, <2>2
  <2> QED
    BY <1>1, <1>2, <2>1, <2>3, OtherSteps
<1> QED
  BY <1>3, <1>4

LEMMA StoreKeeps ==
  ASSUME FeedInv, NEW t \in Target,
         (\E n \in Seqs : LiveMessage(t, n)) \/ HistoryArrives(t)
  PROVE  FeedInv' /\ ListsGrow
<1>1. socket \in {"down", "up", "live"} /\ seen \in [Target -> 0 .. MaxSeq]
      /\ known \subseteq Target /\ fetches \in 0 .. MaxVisits /\ fetching \in [Target -> FetchRecord]
      /\ lastNo \in 0 .. MaxSeq /\ writing \subseteq Target \X Seqs \X BOOLEAN
      /\ visible \in [Target -> SUBSET Seqs] /\ fanout \subseteq Target \X Seqs
  BY DEF FeedInv, FeedShape
<1>2. CASE \E n \in Seqs : LiveMessage(t, n)
  <2>1. PICK n \in Seqs : LiveMessage(t, n)
    BY <1>2
  <2>2. UNCHANGED <<lastNo, writing, visible, socket, connects, fetching, fetches, fill, left,
                    unfilled, logouts>> /\ fanout' \subseteq fanout
    BY <2>1 DEF LiveMessage, feedFill
  <2>3. ListsGrow /\ seen' \in [Target -> 0 .. MaxSeq] /\ known' \subseteq Target
    <3>1. CASE socket = "live"
      <4>1. SetStore(Receive([list |-> list, seen |-> seen], t, n)) /\ known' = known \cup {t}
        BY <2>1, <3>1 DEF LiveMessage
      <4> QED
        BY <1>1, <4>1, ReceiveGrows
    <3>2. CASE socket # "live"
      BY <1>1, <2>1, <3>2, ListsStay DEF LiveMessage, feedStore
    <3> QED
      BY <3>1, <3>2
  <2>4. fanout' \subseteq Target \X Seqs
    BY <1>1, <2>2
  <2> QED
    BY <1>1, <2>2, <2>3, <2>4, OtherSteps
<1>3. CASE HistoryArrives(t)
  <2>1. /\ fetching' = [fetching EXCEPT ![t] = NoFetch] /\ known' = known \cup {t}
        /\ MergePage(t, fetching[t].page)
        /\ seen' = [seen EXCEPT ![t] = Larger(Greatest(fetching[t].page), @)]
        /\ UNCHANGED <<lastNo, writing, visible, fanout, socket, connects, fetches, fill, left,
                       unfilled, logouts>>
    BY <1>3 DEF HistoryArrives, feedServer, feedFill
  <2>2. PICK page \in SUBSET Seqs : page = fetching[t].page
    BY <1>1 DEF FetchRecord
  <2>3. ListsGrow
    BY <2>1, <2>2, MergeGrows
  <2>4. Greatest(page) \in 0 .. MaxSeq
    <3>1. page \in SUBSET Nat /\ IsFiniteSet(page)
      BY FeedBounds
    <3>2. Greatest(page) \in Nat /\ (page # {} => Greatest(page) \in page)
      BY <3>1, GreatestIsTheLargest
    <3>3. page = {} => Greatest(page) = 0
      BY DEF Greatest
    <3> QED
      BY <3>2, <3>3, FeedBounds
  <2>5. seen[t] \in 0 .. MaxSeq
    BY <1>1
  <2>6. Larger(Greatest(page), seen[t]) \in 0 .. MaxSeq
    BY <2>4, <2>5 DEF Larger
  <2>7. seen' \in [Target -> 0 .. MaxSeq] /\ known' \subseteq Target
        /\ fetching' \in [Target -> FetchRecord]
    BY <1>1, <2>1, <2>2, <2>6, NoFillFits
  <2> QED
    BY <1>1, <2>1, <2>3, <2>7, OtherSteps
<1> QED
  BY <1>2, <1>3

LEMMA FeedRests ==
  ASSUME FeedInv,
         \/ RegisterBrowser \/ Disconnect
         \/ \E t \in Target : AskHistory(t) \/ ReadHistory(t) \/ HistoryFails(t)
         \/ UNCHANGED feedVars
  PROVE  FeedInv' /\ ListsGrow
<1>1. socket \in {"down", "up", "live"} /\ seen \in [Target -> 0 .. MaxSeq]
      /\ known \subseteq Target /\ fetches \in 0 .. MaxVisits /\ fetching \in [Target -> FetchRecord]
      /\ lastNo \in 0 .. MaxSeq /\ writing \subseteq Target \X Seqs \X BOOLEAN
      /\ visible \in [Target -> SUBSET Seqs] /\ fanout \subseteq Target \X Seqs
      /\ logouts \in 0 .. MaxVisits
  BY DEF FeedInv, FeedShape
<1>2. UNCHANGED <<lastNo, writing, visible, fanout, connects, list, seen, known, fill, left,
                  unfilled, logouts>>
  BY DEF RegisterBrowser, Disconnect, AskHistory, ReadHistory, HistoryFails, feedVars, feedServer,
         feedStore, feedFill
<1>3. ListsGrow
  BY <1>2, ListsStay
<1>4. CASE RegisterBrowser \/ Disconnect
  <2>1. socket' \in {"down", "up", "live"} /\ UNCHANGED <<fetching, fetches>>
    BY <1>4 DEF RegisterBrowser, Disconnect
  <2> QED
    BY <1>1, <1>2, <1>3, <2>1, OtherSteps
<1>5. CASE \E t \in Target : AskHistory(t) \/ ReadHistory(t) \/ HistoryFails(t)
  <2>1. PICK t \in Target : AskHistory(t) \/ ReadHistory(t) \/ HistoryFails(t)
    BY <1>5
  <2>2. socket' = socket
    BY <2>1 DEF AskHistory, ReadHistory, HistoryFails
  <2>3. fetches' \in 0 .. MaxVisits
    BY <1>1, <2>1, FeedBounds DEF AskHistory, ReadHistory, HistoryFails
  <2>4. fetching' \in [Target -> FetchRecord]
    <3>1. CASE AskHistory(t)
      <4>1. fetching' = [fetching EXCEPT ![t].stage = "asked"]
        BY <3>1 DEF AskHistory
      <4> QED
        BY <1>1, <4>1 DEF FetchRecord
    <3>2. CASE ReadHistory(t)
      <4>1. Highest(visible[t], NewestPage) \in SUBSET Seqs
        BY <1>1 DEF Highest
      <4>2. [stage |-> "answered", page |-> Highest(visible[t], NewestPage)] \in FetchRecord
        BY <4>1 DEF FetchRecord
      <4> QED
        BY <1>1, <3>2, <4>2 DEF ReadHistory
    <3>3. CASE HistoryFails(t)
      BY <1>1, <3>3, NoFillFits DEF HistoryFails
    <3> QED
      BY <2>1, <3>1, <3>2, <3>3
  <2> QED
    BY <1>1, <1>2, <1>3, <2>2, <2>3, <2>4, OtherSteps
<1>6. CASE UNCHANGED feedVars
  <2>1. UNCHANGED <<socket, fetches, fetching>>
    BY <1>6 DEF feedVars
  <2> QED
    BY <1>1, <1>2, <1>3, <2>1, OtherSteps
<1> QED
  BY <1>4, <1>5, <1>6

\* The steps that change one backfill, and no row of the server.
LEMMA OneFillChanges ==
  ASSUME FeedInv, ListsGrow, NEW t \in Target, NEW f \in FillRecord, (f.by = 0) = (f.stage = "off"),
         fill' = [fill EXCEPT ![t] = f], FillFits(t)',
         UNCHANGED <<lastNo, writing, visible, fanout, socket, connects, fetches, fetching, logouts>>,
         seen' \in [Target -> 0 .. MaxSeq], known' \subseteq Target,
         left' \in [Reconnect -> SUBSET Target], unfilled' \in [Target -> SUBSET Seqs]
  PROVE  FeedInv'
<1>1. fill \in [Target -> FillRecord]
  BY DEF FeedInv, FeedShape
<1>2. fill' \in [Target -> FillRecord] /\ fill'[t] = f
      /\ \A q \in Target : q # t => fill'[q] = fill[q]
  BY <1>1
<1>3. \A q \in Target : (fill'[q].by = 0) = (fill'[q].stage = "off")
  BY <1>2 DEF FeedInv, FeedShape
<1>4. FeedShape'
  BY <1>2, <1>3 DEF FeedInv, FeedShape, ListsGrow
<1>5. ASSUME NEW q \in Target PROVE FillFits(q)'
  <2>1. CASE q = t
    BY <2>1
  <2>2. CASE q # t
    BY <1>2, <2>2, FillStays
  <2> QED
    BY <2>1, <2>2
<1> QED
  BY <1>4, <1>5 DEF FeedInv, ListsGrow

\* A backfill starts: it owes what is there above its start, and has passed none of it.
Started(k, t) == [NoFill EXCEPT !.by = k, !.after = seen[t],
                     !.stage = "asked", !.owed = {n \in visible[t] : n > seen[t]}]

LEMMA StartFits ==
  ASSUME FeedInv, NEW t \in Target, NEW k \in 1 .. MaxConnects
  PROVE  /\ Started(k, t) \in FillRecord /\ Started(k, t).by = k /\ Started(k, t).stage = "asked"
         /\ Started(k, t).after = seen[t] /\ Started(k, t).owed = {n \in visible[t] : n > seen[t]}
<1>1. seen[t] \in 0 .. MaxSeq /\ visible[t] \in SUBSET Seqs /\ k \in 0 .. MaxConnects
  BY FeedBounds DEF FeedInv, FeedShape
<1>2. {n \in visible[t] : n > seen[t]} \in SUBSET Seqs
  BY <1>1
<1> QED
  BY <1>1, <1>2, NoFillFits DEF Started, NoFill, FillRecord

LEMMA StartedFits ==
  ASSUME FeedInv, NEW t \in Target, NEW k \in 1 .. MaxConnects, fill'[t] = Started(k, t),
         UNCHANGED <<visible, seen, list, logouts>>
  PROVE  FillFits(t)'
<1>1. /\ fill'[t].stage = "asked" /\ fill'[t].after = seen[t]
      /\ fill'[t].owed = {n \in visible[t] : n > seen[t]}
  BY StartFits
<1>2. seen[t] \in Nat /\ visible[t] \in SUBSET Seqs /\ visible[t] \in SUBSET Nat
  BY FeedBounds DEF FeedInv, FeedShape
<1>3. \A n \in visible[t] : n > seen[t] => ~(n <= seen[t])
  BY <1>2
<1> QED
  BY <1>1, <1>2, <1>3 DEF FillFits

LEMMA TakeKeeps ==
  ASSUME FeedInv, NEW k \in Reconnect, NEW t \in Target, TakeTarget(k, t)
  PROVE  FeedInv' /\ ListsGrow
<1>1. UNCHANGED <<lastNo, writing, visible, fanout, socket, connects, list, seen, known, fetches,
                  fetching, logouts, unfilled>>
  BY DEF TakeTarget, feedServer, feedStore
<1>2. ListsGrow
  BY <1>1, ListsStay
<1>3. /\ left' \in [Reconnect -> SUBSET Target] /\ unfilled' \in [Target -> SUBSET Seqs]
      /\ seen' \in [Target -> 0 .. MaxSeq] /\ known' \subseteq Target
      /\ fill \in [Target -> FillRecord]
  BY <1>1 DEF TakeTarget, FeedInv, FeedShape
<1>4. k \in 1 .. MaxConnects
  BY DEF Reconnect
<1>5. CASE fill[t].by # 0
  <2>1. fill' = fill
    BY <1>5 DEF TakeTarget
  <2>2. \A q \in Target : FillFits(q)'
    BY <1>1, <1>2, <2>1, FillStays
  <2>3. FeedShape'
    BY <1>1, <1>2, <1>3, <2>1 DEF FeedInv, FeedShape, ListsGrow
  <2> QED
    BY <1>2, <2>2, <2>3 DEF FeedInv, ListsGrow
<1>6. CASE fill[t].by = 0
  <2>1. fill' = [fill EXCEPT ![t] = Started(k, t)]
    BY <1>6 DEF TakeTarget, Started
  <2>2. PICK f \in FillRecord : f = Started(k, t) /\ f.by # 0 /\ f.stage # "off"
    BY <1>4, StartFits, FeedBounds
  <2>3. fill'[t] = Started(k, t)
    BY <1>3, <2>1
  <2>4. FillFits(t)'
    BY <1>1, <1>4, <2>3, StartedFits
  <2>5. (f.by = 0) = (f.stage = "off")
    BY <2>2
  <2>6. fill' = [fill EXCEPT ![t] = f]
    BY <2>1, <2>2
  <2> QED
    BY <1>1, <1>2, <1>3, <2>4, <2>5, <2>6, OneFillChanges
<1> QED
  BY <1>5, <1>6

LEMMA ConnectKeeps == ASSUME FeedInv, Connect PROVE FeedInv' /\ ListsGrow
<1>1. UNCHANGED <<lastNo, writing, visible, fanout, list, seen, known, fetches,
                  fetching, logouts, unfilled>>
      /\ socket' = "up" /\ connects < MaxConnects /\ connects' = connects + 1
  BY DEF Connect, feedServer, feedStore
<1>2. ListsGrow
  BY <1>1, ListsStay
<1>3. PICK first \in SUBSET known :
       /\ left' = [left EXCEPT ![connects + 1] = IF connects = 0 THEN {} ELSE known \ first]
       /\ fill' = [t \in Target |->
            IF t \notin first \/ fill[t].by # 0 THEN fill[t]
            ELSE [NoFill EXCEPT !.by = connects + 1, !.after = seen[t], !.stage = "asked",
                    !.owed = {n \in visible[t] : n > seen[t]}]]
  BY DEF Connect
<1>4. PICK k \in 1 .. MaxConnects : k = connects + 1
  BY <1>1, FeedBounds DEF FeedInv, FeedShape
<1>5. \A t \in Target : \/ fill'[t] = fill[t]
                        \/ fill'[t] = Started(k, t)
  BY <1>3, <1>4 DEF Started
<1>6. \A t \in Target : Started(k, t) \in FillRecord /\ Started(k, t).by # 0
                        /\ Started(k, t).stage # "off"
  BY StartFits, FeedBounds
<1>7. \A t \in Target : fill'[t] \in FillRecord /\ (fill'[t].by = 0) = (fill'[t].stage = "off")
  BY <1>5, <1>6 DEF FeedInv, FeedShape
<1>8. fill' \in [Target -> FillRecord]
  BY <1>3, <1>7
<1>9. left' \in [Reconnect -> SUBSET Target] /\ connects' \in 0 .. MaxConnects
  <2>1. left \in [Reconnect -> SUBSET Target] /\ known \subseteq Target /\ k \in Reconnect
        /\ connects' = k
    BY <1>1, <1>4 DEF FeedInv, FeedShape, Reconnect
  <2>2. PICK rest \in SUBSET Target : rest = (IF connects = 0 THEN {} ELSE known \ first)
    BY <2>1
  <2>3. left' = [left EXCEPT ![k] = rest]
    BY <1>3, <1>4, <2>2
  <2>4. left' \in [Reconnect -> SUBSET Target]
    BY <2>1, <2>3
  <2> QED
    BY <2>1, <2>4, FeedBounds
<1>10. FeedShape'
  BY <1>1, <1>2, <1>7, <1>8, <1>9 DEF FeedInv, FeedShape, ListsGrow
<1>11. ASSUME NEW t \in Target PROVE FillFits(t)'
  <2>1. CASE fill'[t] = fill[t]
    BY <1>1, <1>2, <2>1, FillStays
  <2>2. CASE fill'[t] = Started(k, t)
    BY <1>1, <2>2, StartedFits
  <2> QED
    BY <1>5, <2>1, <2>2
<1> QED
  BY <1>2, <1>10, <1>11 DEF FeedInv, ListsGrow

LEMMA ReadPageKeeps == ASSUME FeedInv, NEW t \in Target, ReadPage(t) PROVE FeedInv' /\ ListsGrow
<1>1. UNCHANGED <<lastNo, writing, visible, fanout, socket, connects, list, seen, known, fetches,
                  fetching, logouts, left, unfilled>>
  BY DEF ReadPage, feedServer, feedStore
<1>2. ListsGrow
  BY <1>1, ListsStay
<1>3. fill[t] \in FillRecord /\ fill \in [Target -> FillRecord] /\ visible[t] \in SUBSET Seqs
      /\ fill[t].by # 0 /\ fill[t].stage = "asked" /\ fill[t].after \in Nat
  <2>1. fill \in [Target -> FillRecord] /\ visible \in [Target -> SUBSET Seqs]
        /\ (fill[t].by = 0) = (fill[t].stage = "off")
    BY DEF FeedInv, FeedShape
  <2>2. fill[t].stage = "asked"
    BY DEF ReadPage
  <2>3. fill[t] \in FillRecord
    BY <2>1
  <2>4. fill[t].after \in 0 .. MaxSeq /\ fill[t].answer.more \in BOOLEAN
        /\ fill[t].page \in 0 .. FillMaxPages
    BY <2>3 DEF FillRecord
  <2>5. fill[t].by # 0
    BY <2>1, <2>2
  <2> QED
    BY <2>1, <2>2, <2>3, <2>4, <2>5, FeedBounds
<1>4. PICK above : above = {n \in visible[t] : n > fill[t].after}
  OBVIOUS
<1>5. PICK page : page = Lowest(above, FillPage)
  OBVIOUS
<1>6. above \in SUBSET Seqs /\ above \in SUBSET Nat /\ IsFiniteSet(above) /\ FillPage \in Nat
  BY <1>3, <1>4, FeedBounds
<1>7. /\ IsFiniteSet(page) /\ Cardinality(page) \in Nat /\ page \subseteq above
      /\ Cardinality(page) < FillPage => page = above
      /\ \A m \in page, n \in above \ page : m < n
  BY <1>5, <1>6, LowestIsAPage
<1>8. PICK more \in BOOLEAN : more = (Cardinality(page) >= FillPage)
  <2>1. (Cardinality(page) >= FillPage) \in BOOLEAN
    OBVIOUS
  <2> QED
    BY <2>1, Zenon
<1>9. PICK f : f = [fill[t] EXCEPT !.stage = "answered", !.answer = [rows |-> page, more |-> more]]
  OBVIOUS
<1>10. /\ f \in FillRecord /\ f.stage = "answered" /\ f.answer.rows = page /\ f.answer.more = more
       /\ f.by = fill[t].by /\ f.after = fill[t].after /\ f.owed = fill[t].owed
  BY <1>3, <1>6, <1>7, <1>9 DEF FillRecord
<1>11. fill' = [fill EXCEPT ![t] = f]
  BY <1>3, <1>4, <1>5, <1>8, <1>9 DEF ReadPage
<1>12. fill'[t] = f
  BY <1>3, <1>11
<1>13. /\ fill[t].owed \subseteq visible[t]
       /\ logouts = 0 => \A n \in fill[t].owed : n <= fill[t].after => n \in Shown(list, t)
  BY <1>3 DEF FeedInv, FillFits
<1>14. more => page # {}
  <2>1. page = {} => Cardinality(page) = 0
    BY FS_EmptySet
  <2>2. FillPage \in Nat \ {0}
    BY FeedBounds
  <2>3. ~(0 >= FillPage)
    BY <2>2
  <2> QED
    BY <1>8, <2>1, <2>3
<1>15. ASSUME NEW n \in fill[t].owed, n > fill[t].after
       PROVE  n \in page \/ (more /\ \A m \in page : m < n)
  <2>1. n \in above
    BY <1>4, <1>13, <1>15
  <2>2. Cardinality(page) >= FillPage \/ Cardinality(page) < FillPage
    BY <1>6, <1>7
  <2>3. ~more => page = above
    BY <1>7, <1>8, <2>2
  <2> QED
    BY <1>7, <2>1, <2>3
<1>16. FillFits(t)'
  BY <1>1, <1>10, <1>12, <1>13, <1>14, <1>15 DEF FillFits, Shown
<1>17. /\ left' \in [Reconnect -> SUBSET Target] /\ unfilled' \in [Target -> SUBSET Seqs]
       /\ seen' \in [Target -> 0 .. MaxSeq] /\ known' \subseteq Target
       /\ (f.by = 0) = (f.stage = "off")
  BY <1>1, <1>3, <1>10 DEF FeedInv, FeedShape
<1> QED
  BY <1>1, <1>2, <1>10, <1>11, <1>16, <1>17, OneFillChanges

\* A page that arrives: what the backfill owes is shown up to the new start, and all of it when
\* the page was the last.
LEMMA PageKeeps ==
  ASSUME FeedInv, NEW t \in Target, PageArrives(t)
  PROVE  /\ FeedInv' /\ ListsGrow
         /\ \A q \in Target : fill[q].by # 0 /\ fill'[q].by = 0 /\ fill'[q].end = "clean"
                              /\ logouts = 0 => fill[q].owed \subseteq Shown(list', q)
<1>1. UNCHANGED <<lastNo, writing, visible, fanout, socket, connects, fetches,
                  fetching, logouts, left, unfilled>>
  BY DEF PageArrives, feedServer
<1>2. fill[t] \in FillRecord /\ fill \in [Target -> FillRecord] /\ visible[t] \in SUBSET Seqs
      /\ fill[t].by # 0 /\ fill[t].stage = "answered" /\ fill[t].after \in Nat
      /\ fill[t].answer.more \in BOOLEAN /\ fill[t].page \in 0 .. FillMaxPages
  <2>1. fill \in [Target -> FillRecord] /\ visible \in [Target -> SUBSET Seqs]
        /\ (fill[t].by = 0) = (fill[t].stage = "off")
    BY DEF FeedInv, FeedShape
  <2>2. fill[t].stage = "answered"
    BY DEF PageArrives
  <2>3. fill[t] \in FillRecord
    BY <2>1
  <2>4. fill[t].after \in 0 .. MaxSeq /\ fill[t].answer.more \in BOOLEAN
        /\ fill[t].page \in 0 .. FillMaxPages
    BY <2>3 DEF FillRecord
  <2>5. fill[t].by # 0
    BY <2>1, <2>2
  <2> QED
    BY <2>1, <2>2, <2>3, <2>4, <2>5, FeedBounds
<1>3. PICK page \in SUBSET Seqs : page = fill[t].answer.rows
  BY <1>2 DEF FillRecord
<1>4. PICK st : st = ReceiveAll(t, page)
  OBVIOUS
<1>5. /\ SetStore(st) /\ known' = IF page = {} THEN known ELSE known \cup {t}
      /\ fill' = IF ~fill[t].answer.more THEN EndFill(t, "clean")
                 ELSE IF fill[t].page + 1 >= FillMaxPages THEN EndFill(t, "capped")
                 ELSE [fill EXCEPT ![t].stage = "asked", ![t].page = @ + 1,
                         ![t].after = NextCursor(t, page, st), ![t].answer = NoAnswer]
  BY <1>3, <1>4 DEF PageArrives
<1>6. ListsGrow /\ page \subseteq Shown(list', t) /\ seen' \in [Target -> 0 .. MaxSeq]
  BY <1>4, <1>5, ReceiveAllGrows
<1>7. known' \subseteq Target /\ left' \in [Reconnect -> SUBSET Target]
      /\ unfilled' \in [Target -> SUBSET Seqs]
  BY <1>1, <1>5 DEF FeedInv, FeedShape
<1>8. Shown(list, t) \subseteq Shown(list', t) /\ Shown(list, t)' = Shown(list', t)
  BY <1>6 DEF ListsGrow, Shown
<1>9. /\ fill[t].owed \subseteq visible[t] /\ fill[t].owed \subseteq Nat
      /\ logouts = 0 => \A n \in fill[t].owed : n <= fill[t].after => n \in Shown(list', t)
      /\ fill[t].answer.more => page # {}
      /\ \A n \in fill[t].owed :
           n > fill[t].after => n \in page \/ (fill[t].answer.more /\ \A m \in page : m < n)
  <2>1. FillFits(t)
    BY DEF FeedInv
  <2>2. fill[t].owed \subseteq visible[t] /\ visible[t] \subseteq Nat
    BY <1>2, <2>1, FeedBounds DEF FillFits
  <2> QED
    BY <1>2, <1>3, <1>8, <2>1, <2>2 DEF FillFits
<1>10. ASSUME NEW end \in {"none", "clean", "capped", "failed"}, fill' = EndFill(t, end)
       PROVE  FeedInv' /\ fill'[t].end = end /\ \A q \in Target : q # t => fill'[q] = fill[q]
  <2>1. PICK f : f = [NoFill EXCEPT !.end = end]
    OBVIOUS
  <2>2. f \in FillRecord /\ f.by = 0 /\ f.stage = "off" /\ f.end = end
    BY <2>1, NoFillFits DEF NoFill, FillRecord
  <2>3. fill' = [fill EXCEPT ![t] = f]
    BY <1>10, <2>1 DEF EndFill
  <2>4. fill'[t] = f /\ \A q \in Target : q # t => fill'[q] = fill[q]
    BY <1>2, <2>3
  <2>5. FillFits(t)'
    BY <2>2, <2>4, NothingToFill
  <2>6. (f.by = 0) = (f.stage = "off")
    BY <2>2
  <2>7. FeedInv'
    BY <1>1, <1>6, <1>7, <2>2, <2>3, <2>5, <2>6, OneFillChanges
  <2> QED
    BY <2>2, <2>4, <2>7
<1>11. CASE ~fill[t].answer.more
  <2>1. FeedInv' /\ \A q \in Target : q # t => fill'[q] = fill[q]
    BY <1>5, <1>10, <1>11
  <2>2. logouts = 0 => fill[t].owed \subseteq Shown(list', t)
    <3> SUFFICES ASSUME logouts = 0, NEW n \in fill[t].owed PROVE n \in Shown(list', t)
      OBVIOUS
    <3>1. n <= fill[t].after \/ n > fill[t].after
      BY <1>2, <1>9
    <3> QED
      BY <1>6, <1>9, <1>11, <3>1
  <2> QED
    BY <1>6, <2>1, <2>2
<1>12. CASE fill[t].answer.more /\ fill[t].page + 1 >= FillMaxPages
  <2>1. FeedInv' /\ fill'[t].end = "capped" /\ \A q \in Target : q # t => fill'[q] = fill[q]
    BY <1>5, <1>10, <1>12
  <2> QED
    BY <1>6, <2>1
<1>13. CASE fill[t].answer.more /\ ~(fill[t].page + 1 >= FillMaxPages)
  <2>1. page \in SUBSET Nat /\ IsFiniteSet(page) /\ page # {}
    BY <1>9, <1>13, FeedBounds
  <2>2. PICK top \in page : top = Greatest(page) /\ \A m \in page : m <= top
    BY <2>1, GreatestIsTheLargest
  <2>3. PICK f : f = [fill[t] EXCEPT !.stage = "asked", !.page = @ + 1, !.after = top,
                                     !.answer = NoAnswer]
    OBVIOUS
  <2>4. fill' = [fill EXCEPT ![t] = f]
    BY <1>2, <1>5, <1>13, <2>2, <2>3 DEF NextCursor
  <2>5. top \in 0 .. MaxSeq /\ fill[t].page + 1 \in 0 .. FillMaxPages
    BY <1>2, <1>13, FeedBounds
  <2>6. /\ f \in FillRecord /\ f.by = fill[t].by /\ f.stage = "asked" /\ f.after = top
        /\ f.owed = fill[t].owed
    BY <1>2, <2>3, <2>5, NoFillFits DEF FillRecord
  <2>7. fill'[t] = f /\ \A q \in Target : q # t => fill'[q] = fill[q]
    BY <1>2, <2>4
  <2>8. ASSUME logouts = 0, NEW n \in fill[t].owed, n <= top PROVE n \in Shown(list', t)
    <3>1. n <= fill[t].after \/ n > fill[t].after
      BY <1>2, <1>9
    <3>2. ~(top < n)
      BY <1>9, <2>5, <2>8
    <3> QED
      BY <1>6, <1>9, <2>2, <2>8, <3>1, <3>2
  <2>9. FillFits(t)'
    BY <1>1, <1>8, <1>9, <2>6, <2>7, <2>8 DEF FillFits
  <2>10. (f.by = 0) = (f.stage = "off")
    BY <1>2, <2>6
  <2>11. FeedInv'
    BY <1>1, <1>6, <1>7, <2>4, <2>6, <2>9, <2>10, OneFillChanges
  <2> QED
    BY <1>2, <1>6, <2>6, <2>7, <2>11
<1> QED
  BY <1>2, <1>11, <1>12, <1>13

LEMMA PageFailsKeeps ==
  ASSUME FeedInv, NEW t \in Target, PageFails(t)
  PROVE  /\ FeedInv' /\ ListsGrow
         /\ \A q \in Target : fill[q].by # 0 /\ fill'[q].by = 0 => fill'[q].end # "clean"
<1>1. UNCHANGED <<lastNo, writing, visible, fanout, socket, connects, list, seen, known, fetches,
                  fetching, logouts, left>>
  BY DEF PageFails, feedServer, feedStore
<1>2. ListsGrow
  BY <1>1, ListsStay
<1>3. PICK f : f = [NoFill EXCEPT !.end = "failed"]
  OBVIOUS
<1>4. f \in FillRecord /\ f.by = 0 /\ f.stage = "off" /\ f.end = "failed"
  BY <1>3, NoFillFits DEF NoFill, FillRecord
<1>5. fill' = [fill EXCEPT ![t] = f]
  BY <1>3 DEF PageFails, EndFill
<1>6. fill'[t] = f /\ \A q \in Target : q # t => fill'[q] = fill[q]
  BY <1>5 DEF FeedInv, FeedShape
<1>7. FillFits(t)'
  BY <1>4, <1>6, NothingToFill
<1>8. fill[t].owed \in SUBSET Seqs
  BY DEF FeedInv, FeedShape, FillRecord
<1>9. /\ left' \in [Reconnect -> SUBSET Target] /\ unfilled' \in [Target -> SUBSET Seqs]
      /\ seen' \in [Target -> 0 .. MaxSeq] /\ known' \subseteq Target
      /\ (f.by = 0) = (f.stage = "off")
  BY <1>1, <1>4, <1>8 DEF FeedInv, FeedShape, PageFails
<1>10. FeedInv'
  BY <1>1, <1>2, <1>4, <1>5, <1>7, <1>9, OneFillChanges
<1> QED
  BY <1>2, <1>4, <1>6, <1>10

LEMMA ClearKeeps == ASSUME FeedInv, ClearFeed PROVE FeedInv' /\ logouts' # logouts
<1>1. /\ UNCHANGED <<lastNo, writing, visible, fanout, socket, connects, fetches, fetching,
                     fill, left, unfilled>>
      /\ list' = [t \in Target |-> <<>>] /\ known' = {} /\ seen' = [t \in Target |-> 0]
      /\ fetches + logouts < MaxVisits /\ logouts' = logouts + 1
  BY DEF ClearFeed, feedServer, feedFill
<1>2. fetches \in Nat /\ logouts \in Nat /\ logouts' \in 0 .. MaxVisits /\ logouts' # 0
      /\ logouts' # logouts /\ 0 \in 0 .. MaxSeq
  BY <1>1, FeedBounds DEF FeedInv, FeedShape
<1>3. FeedShape'
  BY <1>1, <1>2 DEF FeedInv, FeedShape
<1>4. ListsFit'
  <2>1. ASSUME NEW t \in Target PROVE Len(list'[t]) = Cardinality(Shown(list', t))
    <3>1. list'[t] = <<>> /\ Shown(list', t) = {}
      BY <1>1 DEF Shown
    <3> QED
      BY <3>1, FS_EmptySet
  <2> QED
    BY <2>1 DEF ListsFit, Shown
<1>5. \A t \in Target : FillFits(t)'
  BY <1>1, <1>2 DEF FeedInv, FillFits
<1> QED
  BY <1>2, <1>3, <1>4, <1>5 DEF FeedInv

LEMMA FeedStarts == FeedInit => FeedInv
<1> SUFFICES ASSUME FeedInit PROVE FeedInv
  OBVIOUS
<1>1. \A t \in Target : list[t] = <<>> /\ Shown(list, t) = {} /\ fill[t].by = 0 /\ fill[t].stage = "off"
  BY NoFillFits DEF FeedInit, Shown
<1>2. ListsFit
  BY <1>1, FS_EmptySet DEF ListsFit
<1>3. FeedShape
  BY <1>1, NoFillFits, FeedBounds DEF FeedInit, FeedShape
<1>4. \A t \in Target : FillFits(t)
  BY <1>1 DEF FillFits
<1> QED
  BY <1>2, <1>3, <1>4 DEF FeedInv

\* What a step does with the lists and with the backfills that end in it.
StepIsComplete ==
  \A t \in Target :
    /\ logouts' = logouts => Shown(list, t) \subseteq Shown(list', t)
    /\ Len(list'[t]) = Cardinality(Shown(list', t))
    /\ (fill[t].by # 0 /\ fill'[t].by = 0 /\ fill'[t].end = "clean" /\ logouts = 0)
         => fill[t].owed \subseteq Shown(list', t)

LEMMA FeedSteps ==
  ASSUME FeedInv, [FeedNext]_feedVars PROVE FeedInv' /\ StepIsComplete
<1>1. FeedInv' => \A t \in Target : Len(list'[t]) = Cardinality(Shown(list', t))
  BY DEF FeedInv, ListsFit, Shown
<1>2. ASSUME UNCHANGED fill, FeedInv', ListsGrow PROVE FeedInv' /\ StepIsComplete
  BY <1>1, <1>2 DEF StepIsComplete, ListsGrow
<1>3. CASE \/ RegisterBrowser \/ Disconnect
           \/ \E t \in Target : AskHistory(t) \/ ReadHistory(t) \/ HistoryFails(t)
           \/ UNCHANGED feedVars
  <2>1. UNCHANGED fill
    BY <1>3 DEF RegisterBrowser, Disconnect, AskHistory, ReadHistory, HistoryFails, feedVars,
                feedFill
  <2> QED
    BY <1>2, <1>3, <2>1, FeedRests
<1>4. CASE (\E t \in Target, person \in BOOLEAN : InsertRow(t, person)) \/ CommitRow
  <2>1. UNCHANGED fill
    BY <1>4 DEF InsertRow, CommitRow, feedFill
  <2> QED
    BY <1>2, <1>4, <2>1, ServerKeeps
<1>5. ASSUME NEW t \in Target, (\E n \in Seqs : LiveMessage(t, n)) \/ HistoryArrives(t)
      PROVE  FeedInv' /\ StepIsComplete
  <2>1. UNCHANGED fill
    BY <1>5 DEF LiveMessage, HistoryArrives, feedFill
  <2> QED
    BY <1>2, <1>5, <2>1, StoreKeeps
<1>6. CASE ClearFeed
  <2>1. FeedInv' /\ logouts' # logouts /\ UNCHANGED fill
    BY <1>6, ClearKeeps DEF ClearFeed, feedFill
  <2> QED
    BY <1>1, <2>1 DEF StepIsComplete
<1>7. ASSUME FeedInv', ListsGrow, \A t \in Target : fill'[t].by = 0 => fill[t].by = 0
      PROVE  FeedInv' /\ StepIsComplete
  BY <1>1, <1>7 DEF StepIsComplete, ListsGrow
<1>8. fill \in [Target -> FillRecord]
  BY DEF FeedInv, FeedShape
<1>9. ASSUME NEW k \in Reconnect, NEW t \in Target, TakeTarget(k, t)
      PROVE  FeedInv' /\ StepIsComplete
  <2>1. \A q \in Target : fill[q].by # 0 => fill'[q] = fill[q]
    BY <1>8, <1>9 DEF TakeTarget
  <2> QED
    BY <1>7, <1>9, <2>1, TakeKeeps
<1>10. CASE Connect
  <2>1. \A q \in Target : fill[q].by # 0 => fill'[q] = fill[q]
    BY <1>8, <1>10 DEF Connect
  <2> QED
    BY <1>7, <1>10, <2>1, ConnectKeeps
<1>11. ASSUME NEW t \in Target, ReadPage(t) PROVE FeedInv' /\ StepIsComplete
  <2>1. \A q \in Target : fill'[q].by = fill[q].by
    BY <1>8, <1>11 DEF ReadPage, FillRecord
  <2> QED
    BY <1>7, <1>11, <2>1, ReadPageKeeps
<1>12. ASSUME NEW t \in Target, PageArrives(t) PROVE FeedInv' /\ StepIsComplete
  BY <1>1, <1>12, PageKeeps DEF StepIsComplete, ListsGrow
<1>13. ASSUME NEW t \in Target, PageFails(t) PROVE FeedInv' /\ StepIsComplete
  BY <1>1, <1>13, PageFailsKeeps DEF StepIsComplete, ListsGrow
<1> QED
  BY <1>3, <1>4, <1>5, <1>6, <1>9, <1>10, <1>11, <1>12, <1>13 DEF FeedNext

LEMMA FeedTypes == FeedInv => FeedTypeOK
  BY DEF FeedInv, FeedShape, FeedTypeOK, FillRecord, FetchRecord

\* The browser's copy of a target loses nothing it had and shows nothing twice, and a backfill
\* that ends well has brought everything it owed: for any number of targets, pages and workers,
\* with live messages, pages of the history and reconnects in any order.
THEOREM FeedLosesNothing == FeedSpec => FeedIsComplete
<1>1. FeedInit => FeedInv
  BY FeedStarts
<1>2. FeedInv /\ [FeedNext]_feedVars => FeedInv' /\ StepIsComplete
  BY FeedSteps
<1>3. StepIsComplete =>
        /\ \A t \in Target :
             /\ logouts' = logouts => Shown(list, t) \subseteq Shown(list', t)
             /\ Len(list'[t]) = Cardinality(Shown(list', t))
        /\ \A t \in Target :
             (fill[t].by # 0 /\ fill'[t].by = 0 /\ fill'[t].end = "clean" /\ logouts = 0)
               => fill[t].owed \subseteq Shown(list', t)
  BY DEF StepIsComplete
<1> QED
  BY <1>1, <1>2, <1>3, PTL
     DEF FeedSpec, FeedIsComplete, ShownStaysShown, BackfillIsComplete
-----------------------------------------------------------------------------
(* Slots                                                                     *)

\* Division by a number that is not a constant, in the form the proofs below need.
LEMMA Division ==
  ASSUME NEW x \in Int, NEW m \in Nat \ {0}
  PROVE  \E q \in Int, k \in 0 .. m - 1 :
           x = m * q + k /\ q = x \div m /\ k = x % m
<1>1. x \div m \in Int /\ x % m \in 0 .. m - 1
  OBVIOUS
<1>2. PICK q \in Int : q = x \div m
  BY <1>1
<1>3. PICK k \in 0 .. m - 1 : k = x % m
  BY <1>1
<1>4. x = m * q + k
  BY <1>2, <1>3
<1> QED
  BY <1>2, <1>3, <1>4

LEMMA Remainder ==
  ASSUME NEW m \in Nat \ {0}, NEW q \in Int, NEW n \in 0 .. m - 1
  PROVE  (m * q + n) % m = n
<1>1. m * q + n \in Int
  OBVIOUS
<1>2. PICK d \in Int, k \in 0 .. m - 1 : m * q + n = m * d + k /\ k = (m * q + n) % m
  BY <1>1, Division
<1>3. CASE q = d
  BY <1>2, <1>3
<1>4. CASE q > d
  <2>1. m * (q - d) >= m
    BY <1>4
  <2>2. m * (q - d) = k - n
    BY <1>2
  <2> QED
    BY <2>1, <2>2
<1>5. CASE q < d
  <2>1. m * (d - q) >= m
    BY <1>5
  <2>2. m * (d - q) = n - k
    BY <1>2
  <2> QED
    BY <2>1, <2>2
<1> QED
  BY <1>3, <1>4, <1>5

LEMMA DailySlot ==
  ASSUME NEW from \in Nat, NEW n \in Nat, n < Day
  PROVE  \E s \in from + 1 .. from + Day : s % Day = n
<1>1. Day \in Nat \ {0} /\ from - n \in Int
  BY RemindersAssumption
<1>2. PICK q \in Int, k \in 0 .. Day - 1 : from - n = Day * q + k
  BY <1>1, Division
<1>3. (Day * (q + 1) + n) % Day = n
  BY <1>1, Remainder
<1>4. Day * (q + 1) + n = from + Day - k
  BY <1>1, <1>2
<1>5. from + Day - k \in from + 1 .. from + Day
  BY <1>1
<1> QED
  BY <1>3, <1>4, <1>5

\* A repeat rule has a next slot after any time, and only a repeat rule.
LEMMA NextSlot ==
  ASSUME NEW rule \in Rule, NEW from \in Nat
  PROVE  /\ NextFire(rule, from) \in Nat
         /\ rule.type = "once" => NextFire(rule, from) = 0
         /\ rule.type # "once" => NextFire(rule, from) > from
<1>1. rule.type \in {"once", "every", "daily"} /\ rule.n \in Nat
      /\ (rule.type = "every" => rule.n > 0) /\ (rule.type = "daily" => rule.n < Day)
      /\ Day \in Nat
  BY RemindersAssumption
<1>2. CASE rule.type = "daily"
  <2>1. PICK s \in from + 1 .. from + Day : s = NextFire(rule, from)
    BY <1>1, <1>2, DailySlot DEF NextFire
  <2> QED
    BY <1>1, <1>2, <2>1
<1>3. CASE rule.type = "every"
  BY <1>1, <1>3 DEF NextFire
<1>4. CASE rule.type = "once"
  BY <1>4 DEF NextFire
<1> QED
  BY <1>1, <1>2, <1>3, <1>4

\* What the scheduler puts a row on lies ahead, however late the fire was.
LEMMA SlotLiesAhead ==
  ASSUME NEW rule \in Rule, NEW fired \in Nat, NEW t \in Nat
  PROVE  /\ NextFireNoDrift(rule, fired, t) \in Nat
         /\ rule.type # "once" => NextFireNoDrift(rule, fired, t) > t
         /\ rule.type = "once" => NextFireNoDrift(rule, fired, t) = 0
<1> DEFINE first == NextFire(rule, fired)
<1>1. first \in Nat /\ (rule.type = "once" => first = 0) /\ (rule.type # "once" => first > fired)
  BY NextSlot
<1>2. CASE first = 0 \/ first > t
  BY <1>1, <1>2 DEF NextFireNoDrift
<1>3. CASE ~(first = 0 \/ first > t) /\ rule.type = "every"
  <2>1. rule.n \in Nat \ {0} /\ first = fired + rule.n /\ t - fired \in Int
    BY <1>3, RemindersAssumption DEF NextFire
  <2>2. PICK q \in Int, k \in 0 .. rule.n - 1 :
          t - fired = rule.n * q + k /\ q = (t - fired) \div rule.n
    BY <2>1, Division
  <2>3. NextFireNoDrift(rule, fired, t) = fired + (q + 1) * rule.n
    BY <1>3, <2>2 DEF NextFireNoDrift
  <2>4. (q + 1) * rule.n = rule.n * q + rule.n /\ rule.n * q \in Int
    BY <2>1
  <2> QED
    BY <1>1, <1>3, <2>1, <2>2, <2>3, <2>4
<1>4. CASE ~(first = 0 \/ first > t) /\ rule.type # "every"
  BY <1>1, <1>4, NextSlot DEF NextFireNoDrift
<1> QED
  BY <1>2, <1>3, <1>4

-----------------------------------------------------------------------------
(* The inductive invariant                                                   *)

\* A patrol has missed at most one more round unanswered than it has counted, and it counts up
\* to its limit only to be paused.
RowFits(row, missed, now) ==
  /\ row.last <= now /\ (row.last = 0 => missed = 0)
  /\ row.kind = "patrol" =>
       /\ missed <= row.silent + 1
       /\ \E limit \in SilenceLimits : row.silent <= limit /\ (~row.paused => row.silent < limit)

\* Nobody touched the row since it fired: its next slot lies after that fire.
SlotFits(row) == row.status = "scheduled" /\ row.last > 0 => row.fireAt > row.last

\* Some tick still has to put the fired row r on its next slot.
IsHeld(r, row, held) ==
  row.status = "fired" /\ row.rule.type # "once" /\ ~row.paused =>
    \E t \in Tick : \E c \in held[t] : c.row = r /\ c.rule = row.rule /\ ~c.autoPaused

RemindersShape ==
  /\ RemindersTypeOK /\ clock > 0
  /\ \A t \in Tick : \A c \in claimed[t] : Exists(c.row)
  /\ \A a \in asked : Exists(a.row)

RowsFit == \A r \in Reminder : IF Exists(r) THEN RowFits(rows[r], unanswered[r], clock)
                               ELSE unanswered[r] = 0

UntouchedFit ==
  \A r \in Reminder \ touched :
    Exists(r) => SlotFits(rows[r]) /\ (failures = 0 => IsHeld(r, rows[r], claimed))

RemindersInv == RemindersShape /\ RowsFit /\ UntouchedFit

LEMMA Limits ==
  /\ SilenceLimits # {} /\ \A limit \in SilenceLimits : limit \in Nat /\ limit > 0
  /\ \A rule \in Rule : rule.type \in {"once", "every", "daily"} /\ rule.n \in Nat
  BY RemindersAssumption

LEMMA RowParts ==
  ASSUME NEW row \in Row
  PROVE  /\ row # NoRow /\ row.status \in {"scheduled", "fired", "canceled"}
         /\ row.kind \in {"reminder", "patrol"} /\ row.rule \in Rule /\ row.fireAt \in Nat
         /\ row.paused \in BOOLEAN /\ row.silent \in Nat /\ row.limit \in SilenceLimits
         /\ row.last \in Nat
  BY DEF Row, NoRow

\* Every row but one stays as it is.
LEMMA EditKeeps ==
  ASSUME RemindersInv, NEW r \in Reminder, NEW row \in Row,
         rows' = [rows EXCEPT ![r] = row], UNCHANGED <<clock, failures>>,
         claimed' \in [Tick -> SUBSET ClaimRecord],
         \A t \in Tick : \A c \in claimed[t] : c \in claimed'[t] \/ c.row = r,
         \A t \in Tick : claimed'[t] \subseteq claimed[t],
         asked' \subseteq asked, spoke' \in [Reminder -> BOOLEAN], asks' \in Nat,
         unanswered' \in [Reminder -> Nat],
         \A q \in Reminder : q # r => unanswered'[q] = unanswered[q],
         RowFits(row, unanswered'[r], clock),
         touched \subseteq touched', touched' \subseteq Reminder,
         r \in touched' \/ (SlotFits(row) /\ (failures = 0 => IsHeld(r, row, claimed')))
  PROVE  RemindersInv'
<1>1. /\ rows' \in [Reminder -> Row \cup {NoRow}] /\ rows'[r] = row /\ row # NoRow
      /\ \A q \in Reminder : q # r => rows'[q] = rows[q]
  BY RowParts DEF RemindersInv, RemindersShape, RemindersTypeOK
<1>2. \A q \in Reminder : Exists(q) => Exists(q)'
  BY <1>1 DEF Exists
<1>3. RemindersShape'
  <2>1. RemindersTypeOK' /\ clock' > 0
    BY <1>1 DEF RemindersInv, RemindersShape, RemindersTypeOK
  <2>2. ASSUME NEW t \in Tick, NEW c \in claimed'[t] PROVE Exists(c.row)'
    BY <1>2 DEF RemindersInv, RemindersShape, RemindersTypeOK, ClaimRecord
  <2>3. ASSUME NEW a \in asked' PROVE Exists(a.row)'
    BY <1>2 DEF RemindersInv, RemindersShape, RemindersTypeOK
  <2> QED
    BY <2>1, <2>2, <2>3 DEF RemindersShape
<1>4. RowsFit'
  <2> SUFFICES ASSUME NEW q \in Reminder
               PROVE  IF Exists(q)' THEN RowFits(rows'[q], unanswered'[q], clock')
                      ELSE unanswered'[q] = 0
    BY DEF RowsFit
  <2>1. CASE q = r
    BY <1>1, <2>1 DEF Exists
  <2>2. CASE q # r
    BY <1>1, <2>2 DEF Exists, RemindersInv, RowsFit
  <2> QED
    BY <2>1, <2>2
<1>5. UntouchedFit'
  <2> SUFFICES ASSUME NEW q \in Reminder \ touched', Exists(q)'
               PROVE  SlotFits(rows'[q]) /\ (failures' = 0 => IsHeld(q, rows'[q], claimed'))
    BY DEF UntouchedFit
  <2>1. CASE q = r
    BY <1>1, <2>1
  <2>2. CASE q # r
    <3>1. rows'[q] = rows[q] /\ Exists(q) /\ q \notin touched
      BY <1>1, <2>2 DEF Exists
    <3>2. SlotFits(rows[q]) /\ (failures = 0 => IsHeld(q, rows[q], claimed))
      BY <3>1 DEF RemindersInv, UntouchedFit
    <3>3. IsHeld(q, rows[q], claimed) => IsHeld(q, rows[q], claimed')
      BY <2>2 DEF IsHeld
    <3> QED
      BY <3>1, <3>2, <3>3
  <2> QED
    BY <2>1, <2>2
<1> QED
  BY <1>3, <1>4, <1>5 DEF RemindersInv

LEMMA RemindersStart == RemindersInit => RemindersInv
<1> SUFFICES ASSUME RemindersInit PROVE RemindersInv
  OBVIOUS
<1> USE DEF RemindersInit
<1>1. \A r \in Reminder : ~Exists(r)
  BY DEF Exists
<1>2. RemindersShape
  BY DEF RemindersShape, RemindersTypeOK
<1> QED
  BY <1>1, <1>2 DEF RemindersInv, RowsFit, UntouchedFit

LEMMA DeliverKeeps == ASSUME RemindersInv, NEW t \in Tick, Deliver(t) PROVE RemindersInv'
<1>1. PICK c \in claimed[t] : /\ rows' = [rows EXCEPT ![c.row] = Rescheduled(c)]
                              /\ claimed' = [claimed EXCEPT ![t] = @ \ {c}]
  BY DEF Deliver
<1>2. UNCHANGED <<clock, asked, spoke, asks, failures, unanswered, touched>>
  BY DEF Deliver, history
<1>3. claimed \in [Tick -> SUBSET ClaimRecord] /\ c \in ClaimRecord
  BY DEF RemindersInv, RemindersShape, RemindersTypeOK
<1>4. PICK r \in Reminder : r = c.row
  BY <1>3 DEF ClaimRecord
<1>5. Exists(r) /\ rows[r] \in Row /\ clock \in Nat
  BY <1>4 DEF RemindersInv, RemindersShape, RemindersTypeOK, Exists
<1>6. /\ claimed' \in [Tick -> SUBSET ClaimRecord]
      /\ \A s \in Tick : /\ claimed'[s] \subseteq claimed[s]
                         /\ \A d \in claimed[s] : d \in claimed'[s] \/ (s = t /\ d = c)
  BY <1>1, <1>3
<1> DEFINE next == NextFireNoDrift(c.rule, c.fireAt, clock)
<1>7. c.rule \in Rule /\ c.fireAt \in Nat
  BY <1>3 DEF ClaimRecord
<1>8. next \in Nat /\ (next # 0 => next > clock) /\ (c.rule.type # "once" => next # 0)
  <2>1. PICK rule \in Rule, fired \in Nat, now \in Nat :
          rule = c.rule /\ fired = c.fireAt /\ now = clock
    BY <1>5, <1>7
  <2>2. /\ NextFireNoDrift(rule, fired, now) \in Nat
        /\ rule.type # "once" => NextFireNoDrift(rule, fired, now) > now
        /\ rule.type = "once" => NextFireNoDrift(rule, fired, now) = 0
    BY SlotLiesAhead
  <2>3. NextFireNoDrift(rule, fired, now) = next
    BY <2>1
  <2> HIDE DEF next
  <2> QED
    BY <2>1, <2>2, <2>3
<1>9. RowFits(rows[r], unanswered[r], clock)
  BY <1>5 DEF RemindersInv, RowsFit
<1>10. r \in touched
         \/ (SlotFits(rows[r]) /\ (failures = 0 => IsHeld(r, rows[r], claimed)))
  BY <1>5 DEF RemindersInv, UntouchedFit
<1>11. PICK row : row = Rescheduled(c)
  OBVIOUS
<1>12. row \in Row /\ RowFits(row, unanswered[r], clock)
       /\ (r \in touched
             \/ (SlotFits(row) /\ (failures = 0 => IsHeld(r, row, claimed'))))
  <2>1. CASE c.autoPaused \/ next = 0
    <3>1. row = rows[r]
      BY <1>4, <1>11, <2>1 DEF Rescheduled
    <3>2. IsHeld(r, row, claimed) => IsHeld(r, row, claimed')
      <4> SUFFICES ASSUME row.status = "fired", row.rule.type # "once", ~row.paused,
                          NEW s \in Tick, NEW d \in claimed[s],
                          d.row = r, d.rule = row.rule, ~d.autoPaused
                   PROVE  \E u \in Tick : \E e \in claimed'[u] :
                            e.row = r /\ e.rule = row.rule /\ ~e.autoPaused
        BY DEF IsHeld
      <4>1. ~(s = t /\ d = c)
        BY <1>8, <2>1
      <4> QED
        BY <1>6, <4>1
    <3> QED
      BY <1>5, <1>9, <1>10, <3>1, <3>2
  <2>2. CASE ~(c.autoPaused \/ next = 0)
    <3>1. row = [rows[r] EXCEPT !.status = "scheduled", !.fireAt = next]
      BY <1>4, <1>11, <2>2 DEF Rescheduled
    <3>2. /\ row \in Row /\ row.status = "scheduled" /\ row.fireAt = next
          /\ row.kind = rows[r].kind /\ row.paused = rows[r].paused
          /\ row.silent = rows[r].silent /\ row.last = rows[r].last
      BY <1>5, <1>8, <3>1 DEF Row
    <3>3. RowFits(row, unanswered[r], clock)
      BY <1>9, <3>2 DEF RowFits
    <3>4. SlotFits(row) /\ IsHeld(r, row, claimed')
      BY <1>5, <1>8, <1>9, <2>2, <3>2, RowParts DEF SlotFits, IsHeld, RowFits
    <3> QED
      BY <3>2, <3>3, <3>4
  <2> QED
    BY <2>1, <2>2
<1>13. rows' = [rows EXCEPT ![r] = row]
  BY <1>1, <1>4, <1>11
<1>14. \A s \in Tick : \A d \in claimed[s] : d \in claimed'[s] \/ d.row = r
  BY <1>4, <1>6
<1>15. /\ spoke' \in [Reminder -> BOOLEAN] /\ asks' \in Nat /\ unanswered' \in [Reminder -> Nat]
       /\ touched' \subseteq Reminder
  BY <1>2 DEF RemindersInv, RemindersShape, RemindersTypeOK
<1> QED
  BY <1>2, <1>6, <1>12, <1>13, <1>14, <1>15, EditKeeps

LEMMA ClaimKeeps == ASSUME RemindersInv, NEW t \in Tick, ClaimDue(t) PROVE RemindersInv'
<1>1. claimed[t] = {} /\ UNCHANGED <<clock, asked, asks, failures>>
  BY DEF ClaimDue
<1>2. PICK batch \in SUBSET Reminder :
        /\ IsBatch(batch)
        /\ rows' = [r \in Reminder |->
                     IF r \notin batch THEN rows[r]
                     ELSE [rows[r] EXCEPT !.status = "fired", !.last = clock,
                                          !.silent = Silent(r),
                                          !.paused = AutoPauses(r)]]
        /\ claimed' = [claimed EXCEPT ![t] =
                        {[row |-> r, rule |-> rows[r].rule, fireAt |-> rows[r].fireAt,
                          autoPaused |-> AutoPauses(r)] : r \in batch}]
        /\ spoke' = [r \in Reminder |-> spoke[r] /\ r \notin batch]
        /\ unanswered' = [r \in Reminder |->
                           IF r \notin batch THEN unanswered[r]
                           ELSE IF spoke[r] THEN 1 ELSE unanswered[r] + 1]
        /\ touched' = touched \ batch
  BY DEF ClaimDue
<1>3. \A r \in batch : /\ r \in Reminder /\ Exists(r) /\ rows[r] \in Row
                       /\ rows[r].status = "scheduled" /\ ~rows[r].paused
  BY <1>2 DEF IsBatch, Due, RemindersInv, RemindersShape, RemindersTypeOK, Exists
<1>4. \A r \in batch : Silent(r) \in Nat /\ AutoPauses(r) \in BOOLEAN
  BY <1>3, RowParts DEF Silent, AutoPauses
<1>5. \A r \in batch :
        /\ rows'[r] \in Row /\ rows'[r].status = "fired" /\ rows'[r].last = clock
        /\ rows'[r].silent = Silent(r) /\ rows'[r].paused = AutoPauses(r)
        /\ rows'[r].kind = rows[r].kind /\ rows'[r].rule = rows[r].rule
        /\ rows'[r].limit = rows[r].limit
  <2> SUFFICES ASSUME NEW r \in batch
               PROVE  /\ rows'[r] \in Row /\ rows'[r].status = "fired" /\ rows'[r].last = clock
                      /\ rows'[r].silent = Silent(r) /\ rows'[r].paused = AutoPauses(r)
                      /\ rows'[r].kind = rows[r].kind /\ rows'[r].rule = rows[r].rule
                      /\ rows'[r].limit = rows[r].limit
    OBVIOUS
  <2>1. rows'[r] = [rows[r] EXCEPT !.status = "fired", !.last = clock,
                                   !.silent = Silent(r), !.paused = AutoPauses(r)]
    BY <1>2, <1>3
  <2>2. clock \in Nat
    BY DEF RemindersInv, RemindersShape, RemindersTypeOK
  <2> QED
    BY <1>3, <1>4, <2>1, <2>2 DEF Row
<1>6. \A r \in Reminder : r \notin batch => rows'[r] = rows[r] /\ unanswered'[r] = unanswered[r]
  BY <1>2
<1>7. \A r \in Reminder : Exists(r)' <=> Exists(r)
  BY <1>3, <1>5, <1>6, RowParts DEF Exists
<1>8. RemindersTypeOK'
  <2>1. rows' \in [Reminder -> Row \cup {NoRow}]
    BY <1>2, <1>5, <1>6 DEF RemindersInv, RemindersShape, RemindersTypeOK
  <2>2. claimed' \in [Tick -> SUBSET ClaimRecord]
    <3>1. \A r \in batch : [row |-> r, rule |-> rows[r].rule, fireAt |-> rows[r].fireAt,
                            autoPaused |-> AutoPauses(r)] \in ClaimRecord
      BY <1>3, <1>4, RowParts DEF ClaimRecord
    <3> QED
      BY <1>2, <3>1 DEF RemindersInv, RemindersShape, RemindersTypeOK
  <2>3. spoke' \in [Reminder -> BOOLEAN] /\ unanswered' \in [Reminder -> Nat]
        /\ touched' \subseteq Reminder
    <3>1. spoke \in [Reminder -> BOOLEAN] /\ unanswered \in [Reminder -> Nat]
          /\ touched \subseteq Reminder
      BY DEF RemindersInv, RemindersShape, RemindersTypeOK
    <3>2. \A r \in Reminder : (spoke[r] /\ r \notin batch) \in BOOLEAN
      OBVIOUS
    <3>3. \A r \in Reminder : (IF r \notin batch THEN unanswered[r]
                               ELSE IF spoke[r] THEN 1 ELSE unanswered[r] + 1) \in Nat
      BY <3>1
    <3>4. spoke' \in [Reminder -> BOOLEAN]
      BY <1>2, <3>2
    <3>5. unanswered' \in [Reminder -> Nat]
      BY <1>2, <3>3
    <3> QED
      BY <1>2, <3>1, <3>4, <3>5
  <2> QED
    BY <1>1, <2>1, <2>2, <2>3 DEF RemindersInv, RemindersShape, RemindersTypeOK
<1>9. RemindersShape'
  <2>1. ASSUME NEW s \in Tick, NEW c \in claimed'[s] PROVE Exists(c.row)'
    <3>1. claimed \in [Tick -> SUBSET ClaimRecord]
      BY DEF RemindersInv, RemindersShape, RemindersTypeOK
    <3>2. CASE s = t
      <4>1. claimed'[s] = {[row |-> r, rule |-> rows[r].rule, fireAt |-> rows[r].fireAt,
                            autoPaused |-> AutoPauses(r)] : r \in batch}
        BY <1>2, <3>1, <3>2
      <4>2. PICK r \in batch : c.row = r
        BY <2>1, <4>1
      <4> QED
        BY <1>3, <1>7, <4>2
    <3>3. CASE s # t
      <4>1. c \in claimed[s] /\ c \in ClaimRecord
        BY <1>2, <2>1, <3>1, <3>3
      <4>2. c.row \in Reminder /\ Exists(c.row)
        BY <4>1 DEF RemindersInv, RemindersShape, ClaimRecord
      <4> QED
        BY <1>7, <4>2
    <3> QED
      BY <3>2, <3>3
  <2>2. ASSUME NEW a \in asked' PROVE Exists(a.row)'
    BY <1>1, <1>7 DEF RemindersInv, RemindersShape, RemindersTypeOK
  <2>3. clock' > 0
    BY <1>1 DEF RemindersInv, RemindersShape
  <2> QED
    BY <1>8, <2>1, <2>2, <2>3 DEF RemindersShape
<1>10. RowsFit'
  <2> SUFFICES ASSUME NEW r \in Reminder
               PROVE  IF Exists(r)' THEN RowFits(rows'[r], unanswered'[r], clock')
                      ELSE unanswered'[r] = 0
    BY DEF RowsFit
  <2>1. CASE r \notin batch
    BY <1>1, <1>6, <1>7, <2>1 DEF RemindersInv, RowsFit
  <2>2. CASE r \in batch
    <3>1. RowFits(rows[r], unanswered[r], clock) /\ clock \in Nat /\ clock > 0
          /\ unanswered[r] \in Nat
      BY <1>3, <2>2 DEF RemindersInv, RowsFit, RemindersShape, RemindersTypeOK
    <3>2. rows[r].silent \in Nat /\ rows[r].limit \in SilenceLimits /\ rows[r].last \in Nat
      BY <1>3, <2>2, RowParts
    <3>3. unanswered'[r] = IF spoke[r] THEN 1 ELSE unanswered[r] + 1
      BY <1>2, <2>2
    <3>4. ASSUME rows[r].kind = "patrol"
          PROVE  /\ unanswered'[r] <= Silent(r) + 1
                 /\ \E limit \in SilenceLimits :
                      Silent(r) <= limit /\ (~AutoPauses(r) => Silent(r) < limit)
      <4>1. PICK limit \in SilenceLimits : rows[r].silent < limit
        BY <1>3, <2>2, <3>1, <3>4 DEF RowFits
      <4>2. limit \in Nat /\ limit > 0 /\ rows[r].limit \in Nat /\ rows[r].limit > 0
        BY <3>2, Limits
      <4>3. CASE rows[r].last > 0 /\ ~spoke[r]
        <5>1. Silent(r) = rows[r].silent + 1 /\ (AutoPauses(r) <=> Silent(r) >= rows[r].limit)
          BY <3>4, <4>3 DEF Silent, AutoPauses
        <5>2. unanswered'[r] <= Silent(r) + 1
          BY <3>1, <3>2, <3>3, <3>4, <4>3, <5>1 DEF RowFits
        <5>3. CASE AutoPauses(r)
          BY <3>2, <4>1, <4>2, <5>1, <5>2, <5>3
        <5>4. CASE ~AutoPauses(r)
          BY <3>2, <4>1, <4>2, <5>1, <5>2, <5>4
        <5> QED
          BY <5>3, <5>4
      <4>4. CASE ~(rows[r].last > 0 /\ ~spoke[r])
        <5>1. Silent(r) = 0
          BY <4>4 DEF Silent
        <5>2. unanswered'[r] <= 1
          BY <3>1, <3>2, <3>3, <4>4 DEF RowFits
        <5> QED
          BY <4>2, <5>1, <5>2
      <4> QED
        BY <4>3, <4>4
    <3> QED
      BY <1>1, <1>3, <1>5, <1>7, <2>2, <3>1, <3>4 DEF RowFits
  <2> QED
    BY <2>1, <2>2
<1>11. UntouchedFit'
  <2> SUFFICES ASSUME NEW r \in Reminder \ touched', Exists(r)'
               PROVE  SlotFits(rows'[r]) /\ (failures' = 0 => IsHeld(r, rows'[r], claimed'))
    BY DEF UntouchedFit
  <2>1. CASE r \notin batch
    <3>1. SlotFits(rows[r]) /\ (failures = 0 => IsHeld(r, rows[r], claimed))
      BY <1>2, <1>7, <2>1 DEF RemindersInv, UntouchedFit
    <3>2. \A s \in Tick : claimed[s] # {} => claimed'[s] = claimed[s]
      BY <1>1, <1>2 DEF RemindersInv, RemindersShape, RemindersTypeOK
    <3>3. IsHeld(r, rows[r], claimed) => IsHeld(r, rows[r], claimed')
      BY <3>2 DEF IsHeld
    <3> QED
      BY <1>1, <1>6, <2>1, <3>1, <3>3
  <2>2. CASE r \in batch
    <3>1. SlotFits(rows'[r])
      BY <1>5, <2>2 DEF SlotFits
    <3>2. PICK c : c = [row |-> r, rule |-> rows[r].rule, fireAt |-> rows[r].fireAt,
                        autoPaused |-> AutoPauses(r)]
      OBVIOUS
    <3>3. c \in claimed'[t] /\ c.row = r /\ c.rule = rows'[r].rule
          /\ c.autoPaused = AutoPauses(r)
      BY <1>2, <1>5, <2>2, <3>2 DEF RemindersInv, RemindersShape, RemindersTypeOK
    <3>4. IsHeld(r, rows'[r], claimed')
      BY <1>5, <2>2, <3>3 DEF IsHeld
    <3> QED
      BY <3>1, <3>4
  <2> QED
    BY <2>1, <2>2
<1> QED
  BY <1>9, <1>10, <1>11 DEF RemindersInv

LEMMA TickFailsKeeps == ASSUME RemindersInv, NEW t \in Tick, TickFails(t) PROVE RemindersInv'
<1>1. UNCHANGED <<rows, clock, asked, spoke, asks, unanswered, touched>>
      /\ claimed' = [claimed EXCEPT ![t] = {}] /\ failures' = failures + 1
  BY DEF TickFails, history
<1>2. claimed \in [Tick -> SUBSET ClaimRecord] /\ failures \in Nat
  BY DEF RemindersInv, RemindersShape, RemindersTypeOK
<1>3. claimed' \in [Tick -> SUBSET ClaimRecord]
      /\ \A s \in Tick : claimed'[s] \subseteq claimed[s]
  BY <1>1, <1>2
<1>4. failures' \in Nat /\ failures' # 0
  BY <1>1, <1>2
<1>5. RemindersShape'
  BY <1>1, <1>3, <1>4 DEF RemindersInv, RemindersShape, RemindersTypeOK, Exists
<1>6. RowsFit' /\ UntouchedFit'
  BY <1>1, <1>4 DEF RemindersInv, RowsFit, UntouchedFit, Exists
<1> QED
  BY <1>5, <1>6 DEF RemindersInv

LEMMA Created ==
  ASSUME RemindersInv, NEW r \in Reminder, Create(r) PROVE RemindersInv'
<1>1. PICK kind \in {"reminder", "patrol"}, rule \in Rule, at \in {clock, clock + 1},
           limit \in SilenceLimits :
        rows' = [rows EXCEPT ![r] =
            [status |-> "scheduled", kind |-> kind, rule |-> rule, fireAt |-> at,
             paused |-> FALSE, silent |-> 0, limit |-> limit, last |-> 0]]
  BY DEF Create
<1>2. PICK row : row = [status |-> "scheduled", kind |-> kind, rule |-> rule, fireAt |-> at,
                        paused |-> FALSE, silent |-> 0, limit |-> limit, last |-> 0]
  OBVIOUS
<1>3. clock \in Nat /\ unanswered[r] = 0 /\ touched' = touched \cup {r} /\ asks' \in Nat
      /\ UNCHANGED <<clock, claimed, asked, spoke, failures, unanswered>>
  BY DEF Create, OnlyRows, Ask, RemindersInv, RemindersShape, RemindersTypeOK, RowsFit
<1>4. row \in Row
  BY <1>2, <1>3, Limits DEF Row
<1>5. RowFits(row, unanswered'[r], clock)
  BY <1>2, <1>3, Limits DEF RowFits
<1>6. rows' = [rows EXCEPT ![r] = row]
  BY <1>1, <1>2
<1>7. /\ claimed' \in [Tick -> SUBSET ClaimRecord] /\ spoke' \in [Reminder -> BOOLEAN]
      /\ unanswered' \in [Reminder -> Nat] /\ touched' \subseteq Reminder
      /\ r \in touched' /\ touched \subseteq touched'
  BY <1>3 DEF RemindersInv, RemindersShape, RemindersTypeOK
<1> QED
  BY <1>3, <1>4, <1>5, <1>6, <1>7, EditKeeps

\* An edit that leaves a row's fires, count and rounds alone, and either marks it as touched
\* or takes it off the schedule.
LEMMA PlainEditKeeps ==
  ASSUME RemindersInv, NEW r \in Reminder, Exists(r), NEW row \in Row,
         rows' = [rows EXCEPT ![r] = row], UNCHANGED <<clock, failures, claimed, spoke, unanswered>>,
         asked' \subseteq asked, asks' \in Nat,
         row.kind = rows[r].kind, row.last = rows[r].last, row.silent = rows[r].silent,
         rows[r].paused => row.paused,
         touched \subseteq touched', touched' \subseteq Reminder,
         \/ r \in touched'
         \/ row.status = "canceled"
         \/ row.paused /\ row.status = rows[r].status /\ row.fireAt = rows[r].fireAt
  PROVE  RemindersInv'
<1>1. rows[r] \in Row /\ RowFits(rows[r], unanswered[r], clock)
  BY DEF RemindersInv, RemindersShape, RemindersTypeOK, RowsFit, Exists
<1>2. RowFits(row, unanswered'[r], clock)
  BY <1>1 DEF RowFits
<1>3. r \in touched' \/ (SlotFits(row) /\ (failures = 0 => IsHeld(r, row, claimed')))
  <2> SUFFICES ASSUME r \notin touched' PROVE SlotFits(row) /\ IsHeld(r, row, claimed')
    OBVIOUS
  <2>1. CASE row.status = "canceled"
    BY <2>1 DEF SlotFits, IsHeld
  <2>2. CASE row.paused /\ row.status = rows[r].status /\ row.fireAt = rows[r].fireAt
    <3>1. SlotFits(rows[r])
      BY DEF RemindersInv, UntouchedFit
    <3> QED
      BY <2>2, <3>1 DEF SlotFits, IsHeld
  <2> QED
    BY <2>1, <2>2
<1>4. /\ claimed' \in [Tick -> SUBSET ClaimRecord] /\ spoke' \in [Reminder -> BOOLEAN]
      /\ unanswered' \in [Reminder -> Nat] /\ \A t \in Tick : claimed'[t] = claimed[t]
      /\ \A q \in Reminder : unanswered'[q] = unanswered[q]
  BY DEF RemindersInv, RemindersShape, RemindersTypeOK
<1> QED
  BY <1>2, <1>3, <1>4, EditKeeps

LEMMA ResumeKeeps == ASSUME RemindersInv, Resume PROVE RemindersInv'
<1>1. PICK a \in asked :
    /\ a.op = "resume" /\ asked' = asked \ {a}
    /\ rows' = [rows EXCEPT ![a.row].status = "scheduled", ![a.row].fireAt = a.fireAt,
                            ![a.row].paused = FALSE, ![a.row].silent = 0]
    /\ touched' = touched \cup {a.row}
    /\ unanswered' = [unanswered EXCEPT ![a.row] = 0]
    /\ UNCHANGED <<clock, claimed, spoke, asks, failures>>
  BY DEF Resume
<1>2. PICK r \in Reminder, at \in Nat : r = a.row /\ at = a.fireAt
  BY <1>1 DEF RemindersInv, RemindersShape, RemindersTypeOK
<1>3. Exists(r) /\ rows[r] \in Row /\ unanswered \in [Reminder -> Nat] /\ clock \in Nat
      /\ rows \in [Reminder -> Row \cup {NoRow}]
  BY <1>1, <1>2 DEF RemindersInv, RemindersShape, RemindersTypeOK, Exists
<1>4. PICK row : row = [rows[r] EXCEPT !.status = "scheduled", !.fireAt = at,
                                       !.paused = FALSE, !.silent = 0]
  OBVIOUS
<1>5. row \in Row /\ row.last = rows[r].last /\ row.silent = 0 /\ row.kind = rows[r].kind
  BY <1>3, <1>4 DEF Row
<1>6. rows' = [rows EXCEPT ![r] = row]
  BY <1>1, <1>2, <1>3, <1>4
<1>7. unanswered'[r] = 0 /\ RowFits(rows[r], unanswered[r], clock)
  BY <1>1, <1>2, <1>3 DEF RemindersInv, RowsFit
<1>8. RowFits(row, unanswered'[r], clock)
  BY <1>5, <1>7, Limits DEF RowFits
<1>9. /\ claimed' \in [Tick -> SUBSET ClaimRecord] /\ spoke' \in [Reminder -> BOOLEAN]
      /\ unanswered' \in [Reminder -> Nat] /\ touched' \subseteq Reminder /\ r \in touched'
      /\ asks' \in Nat /\ \A q \in Reminder : q # r => unanswered'[q] = unanswered[q]
  BY <1>1, <1>2, <1>3 DEF RemindersInv, RemindersShape, RemindersTypeOK
<1>10. claimed' = claimed /\ asked' \subseteq asked /\ touched \subseteq touched'
       /\ UNCHANGED <<clock, failures>>
  BY <1>1
<1> QED
  BY <1>3, <1>5, <1>6, <1>8, <1>9, <1>10, EditKeeps

LEMMA SnoozeKeeps == ASSUME RemindersInv, Snooze PROVE RemindersInv'
<1>1. PICK a \in asked :
    /\ asked' = asked \ {a}
    /\ rows' = [rows EXCEPT ![a.row].status = "scheduled", ![a.row].fireAt = a.fireAt]
    /\ touched' = touched \cup {a.row}
    /\ UNCHANGED <<clock, claimed, spoke, asks, failures, unanswered>>
  BY DEF Snooze
<1>2. PICK r \in Reminder, at \in Nat : r = a.row /\ at = a.fireAt
  BY <1>1 DEF RemindersInv, RemindersShape, RemindersTypeOK
<1>3. Exists(r) /\ rows[r] \in Row /\ rows \in [Reminder -> Row \cup {NoRow}]
  BY <1>1, <1>2 DEF RemindersInv, RemindersShape, RemindersTypeOK, Exists
<1>4. PICK row : row = [rows[r] EXCEPT !.status = "scheduled", !.fireAt = at]
  OBVIOUS
<1>5. row \in Row /\ row.last = rows[r].last /\ row.silent = rows[r].silent
      /\ row.kind = rows[r].kind /\ row.paused = rows[r].paused
  BY <1>3, <1>4 DEF Row
<1>6. rows' = [rows EXCEPT ![r] = row]
  BY <1>1, <1>2, <1>3, <1>4
<1>7. asks' \in Nat /\ touched' \subseteq Reminder /\ r \in touched' /\ touched \subseteq touched'
      /\ asked' \subseteq asked /\ UNCHANGED <<clock, failures, claimed, spoke, unanswered>>
  BY <1>1, <1>2 DEF RemindersInv, RemindersShape, RemindersTypeOK
<1> QED
  BY <1>3, <1>5, <1>6, <1>7, PlainEditKeeps

\* The requests of one statement on a row that is there.
LEMMA RequestKeeps ==
  ASSUME RemindersInv, NEW r \in Reminder, Delete(r) \/ Pause(r) \/ Patch(r) \/ UserSnooze(r)
  PROVE  RemindersInv'
<1>1. Exists(r) /\ rows[r] \in Row /\ rows \in [Reminder -> Row \cup {NoRow}]
      /\ clock \in Nat /\ asks' \in Nat /\ asks' = asks + 1
  BY DEF RemindersInv, RemindersShape, RemindersTypeOK, Exists, Delete, Pause, Patch, UserSnooze,
         Ask
<1>2. UNCHANGED <<clock, claimed, asked, spoke, failures, unanswered>>
  BY DEF Delete, Pause, Patch, UserSnooze, OnlyRows, history
<1>3. touched \subseteq touched' /\ touched' \subseteq Reminder
  BY DEF Delete, Pause, Patch, UserSnooze, history, RemindersInv, RemindersShape, RemindersTypeOK
<1>4. ASSUME NEW row \in Row, rows' = [rows EXCEPT ![r] = row],
             row.kind = rows[r].kind, row.last = rows[r].last, row.silent = rows[r].silent,
             rows[r].paused => row.paused,
             \/ r \in touched'
             \/ row.status = "canceled"
             \/ row.paused /\ row.status = rows[r].status /\ row.fireAt = rows[r].fireAt
      PROVE  RemindersInv'
  BY <1>1, <1>2, <1>3, <1>4, PlainEditKeeps
<1>5. CASE Delete(r)
  <2>1. PICK row : row = [rows[r] EXCEPT !.status = "canceled"]
    OBVIOUS
  <2>2. row \in Row /\ row.kind = rows[r].kind /\ row.last = rows[r].last
        /\ row.silent = rows[r].silent /\ row.paused = rows[r].paused /\ row.status = "canceled"
    BY <1>1, <2>1 DEF Row
  <2>3. rows' = [rows EXCEPT ![r] = row]
    BY <1>1, <1>5, <2>1 DEF Delete
  <2> QED
    BY <1>4, <2>2, <2>3
<1>6. CASE Pause(r)
  <2>1. PICK row : row = [rows[r] EXCEPT !.paused = TRUE]
    OBVIOUS
  <2>2. row \in Row /\ row.kind = rows[r].kind /\ row.last = rows[r].last
        /\ row.silent = rows[r].silent /\ row.paused /\ row.status = rows[r].status
        /\ row.fireAt = rows[r].fireAt
    BY <1>1, <2>1 DEF Row
  <2>3. rows' = [rows EXCEPT ![r] = row]
    BY <1>1, <1>6, <2>1 DEF Pause
  <2> QED
    BY <1>4, <2>2, <2>3
<1>7. CASE Patch(r) \/ UserSnooze(r)
  <2>1. r \in touched'
    BY <1>7 DEF Patch, UserSnooze
  <2>2. ASSUME NEW at \in Nat, rows' = [rows EXCEPT ![r].fireAt = at] PROVE RemindersInv'
    <3>1. PICK row : row = [rows[r] EXCEPT !.fireAt = at]
      OBVIOUS
    <3>2. row \in Row /\ row.kind = rows[r].kind /\ row.last = rows[r].last
          /\ row.silent = rows[r].silent /\ row.paused = rows[r].paused
      BY <1>1, <3>1 DEF Row
    <3>3. rows' = [rows EXCEPT ![r] = row]
      BY <1>1, <2>2, <3>1
    <3> QED
      BY <1>4, <2>1, <3>2, <3>3
  <2>3. ASSUME NEW rule \in Rule, rows' = [rows EXCEPT ![r].rule = rule] PROVE RemindersInv'
    <3>1. PICK row : row = [rows[r] EXCEPT !.rule = rule]
      OBVIOUS
    <3>2. row \in Row /\ row.kind = rows[r].kind /\ row.last = rows[r].last
          /\ row.silent = rows[r].silent /\ row.paused = rows[r].paused
      BY <1>1, <3>1 DEF Row
    <3>3. rows' = [rows EXCEPT ![r] = row]
      BY <1>1, <2>3, <3>1
    <3> QED
      BY <1>4, <2>1, <3>2, <3>3
  <2>4. ASSUME NEW limit \in SilenceLimits, rows' = [rows EXCEPT ![r].limit = limit]
        PROVE RemindersInv'
    <3>1. PICK row : row = [rows[r] EXCEPT !.limit = limit]
      OBVIOUS
    <3>2. row \in Row /\ row.kind = rows[r].kind /\ row.last = rows[r].last
          /\ row.silent = rows[r].silent /\ row.paused = rows[r].paused
      BY <1>1, <3>1 DEF Row
    <3>3. rows' = [rows EXCEPT ![r] = row]
      BY <1>1, <2>4, <3>1
    <3> QED
      BY <1>4, <2>1, <3>2, <3>3
  <2>5. clock \in Nat /\ clock + 1 \in Nat
    BY <1>1
  <2> QED
    BY <1>7, <2>2, <2>3, <2>4, <2>5 DEF Patch, UserSnooze
<1> QED
  BY <1>5, <1>6, <1>7

\* What leaves the table and the claims alone.
LEMMA ClockKeeps ==
  ASSUME RemindersInv, UNCHANGED <<rows, claimed, failures, unanswered, touched>>,
         clock' \in Nat, clock <= clock', spoke' \in [Reminder -> BOOLEAN], asks' \in Nat,
         asked' \subseteq [op : {"snooze", "resume"}, row : Reminder, fireAt : Nat],
         \A a \in asked' : Exists(a.row)
  PROVE  RemindersInv'
<1>1. RemindersShape'
  BY DEF RemindersInv, RemindersShape, RemindersTypeOK, Exists
<1>2. \A r \in Reminder : rows'[r] = rows[r] /\ unanswered'[r] = unanswered[r]
                          /\ (Exists(r)' <=> Exists(r))
  BY DEF Exists
<1>3. RowsFit'
  <2>1. \A r \in Reminder : Exists(r) => RowFits(rows[r], unanswered[r], clock')
    <3> SUFFICES ASSUME NEW r \in Reminder, Exists(r) PROVE RowFits(rows[r], unanswered[r], clock')
      OBVIOUS
    <3>1. RowFits(rows[r], unanswered[r], clock) /\ rows[r] \in Row /\ clock \in Nat
      BY DEF RemindersInv, RowsFit, RemindersShape, RemindersTypeOK, Exists
    <3> QED
      BY <3>1, RowParts DEF RowFits
  <2> QED
    BY <1>2, <2>1 DEF RowsFit, RemindersInv
<1>4. UntouchedFit'
  BY <1>2 DEF RemindersInv, UntouchedFit
<1> QED
  BY <1>1, <1>3, <1>4 DEF RemindersInv

LEMMA AskKeeps ==
  ASSUME RemindersInv, NEW r \in Reminder, AskSnooze(r) \/ AskResume(r)
  PROVE  RemindersInv'
<1>1. Exists(r) /\ rows[r] \in Row /\ clock \in Nat /\ asks' \in Nat
  BY DEF RemindersInv, RemindersShape, RemindersTypeOK, Exists, AskSnooze, AskResume, Ask
<1>2. rows[r].fireAt \in Nat /\ rows[r].rule \in Rule
  BY <1>1, RowParts
<1>3. PICK op \in {"snooze", "resume"}, at \in Nat :
        asked' = asked \cup {[op |-> op, row |-> r, fireAt |-> at]}
  <2>1. CASE AskSnooze(r)
    <3>1. (IF clock > rows[r].fireAt THEN clock ELSE rows[r].fireAt) + 1 \in Nat
      BY <1>1, <1>2
    <3> QED
      BY <2>1, <3>1 DEF AskSnooze
  <2>2. CASE AskResume(r)
    <3>1. NextFire(rows[r].rule, clock) \in Nat
      BY <1>1, <1>2, NextSlot
    <3>2. (IF NextFire(rows[r].rule, clock) = 0 THEN clock
           ELSE NextFire(rows[r].rule, clock)) \in Nat
      BY <1>1, <3>1
    <3> QED
      BY <2>2, <3>2 DEF AskResume
  <2> QED
    BY <2>1, <2>2
<1>4. UNCHANGED <<rows, claimed, failures, unanswered, touched, clock, spoke>>
  BY DEF AskSnooze, AskResume, history
<1>5. asked' \subseteq [op : {"snooze", "resume"}, row : Reminder, fireAt : Nat]
      /\ \A a \in asked' : Exists(a.row)
  BY <1>1, <1>3 DEF RemindersInv, RemindersShape, RemindersTypeOK
<1>6. spoke' \in [Reminder -> BOOLEAN]
  BY <1>4 DEF RemindersInv, RemindersShape, RemindersTypeOK
<1> QED
  BY <1>1, <1>4, <1>5, <1>6, ClockKeeps

LEMMA RemindersSteps == ASSUME RemindersInv, [RemindersNext]_reminderVars PROVE RemindersInv'
<1>1. ASSUME NEW t \in Tick, ClaimDue(t) \/ Deliver(t) \/ TickFails(t) PROVE RemindersInv'
  BY <1>1, ClaimKeeps, DeliverKeeps, TickFailsKeeps
<1>2. ASSUME NEW r \in Reminder,
             \/ Create(r) \/ Delete(r) \/ Pause(r) \/ AskSnooze(r)
             \/ AskResume(r) \/ Patch(r) \/ UserSnooze(r)
      PROVE  RemindersInv'
  BY <1>2, Created, RequestKeeps, AskKeeps
<1>3. ASSUME NEW r \in Reminder, AgentPosts(r) PROVE RemindersInv'
  <2>1. spoke' \in [Reminder -> BOOLEAN]
        /\ UNCHANGED <<rows, clock, claimed, asked, asks, failures, unanswered, touched>>
    BY <1>3 DEF AgentPosts, history, RemindersInv, RemindersShape, RemindersTypeOK
  <2>2. asked \subseteq [op : {"snooze", "resume"}, row : Reminder, fireAt : Nat]
        /\ (\A a \in asked : Exists(a.row)) /\ clock \in Nat /\ asks \in Nat
    BY DEF RemindersInv, RemindersShape, RemindersTypeOK
  <2> QED
    BY <2>1, <2>2, ClockKeeps
<1>4. Snooze \/ Resume => RemindersInv'
  BY SnoozeKeeps, ResumeKeeps
<1>5. ASSUME Elapse PROVE RemindersInv'
  <2>1. clock \in Nat /\ clock' = clock + 1
        /\ UNCHANGED <<rows, claimed, asked, spoke, asks, failures, unanswered, touched>>
    BY <1>5 DEF Elapse, history, RemindersInv, RemindersShape, RemindersTypeOK
  <2>2. asked \subseteq [op : {"snooze", "resume"}, row : Reminder, fireAt : Nat]
        /\ (\A a \in asked : Exists(a.row)) /\ spoke \in [Reminder -> BOOLEAN] /\ asks \in Nat
    BY DEF RemindersInv, RemindersShape, RemindersTypeOK
  <2> QED
    BY <2>1, <2>2, ClockKeeps
<1>6. ASSUME UNCHANGED reminderVars PROVE RemindersInv'
  BY <1>6 DEF reminderVars, RemindersInv, RemindersShape, RemindersTypeOK, RowsFit, UntouchedFit,
              Exists
<1> QED
  BY <1>1, <1>2, <1>3, <1>4, <1>5, <1>6 DEF RemindersNext

LEMMA RemindersFollow == RemindersInv => RemindersTypeOK /\ IdlePatrolIsCut /\ RecurringIsNotStranded
<1> SUFFICES ASSUME RemindersInv PROVE RemindersTypeOK /\ IdlePatrolIsCut /\ RecurringIsNotStranded
  OBVIOUS
<1>1. ASSUME NEW r \in Reminder, Exists(r), rows[r].kind = "patrol"
      PROVE  \E limit \in SilenceLimits : unanswered[r] <= limit + 1
  <2>1. rows[r].silent \in Nat /\ unanswered[r] \in Nat
    BY <1>1, RowParts DEF RemindersInv, RemindersShape, RemindersTypeOK, Exists
  <2>2. PICK limit \in SilenceLimits :
          rows[r].silent <= limit /\ unanswered[r] <= rows[r].silent + 1
    BY <1>1 DEF RemindersInv, RowsFit, RowFits
  <2>3. limit \in Nat
    BY Limits
  <2>4. unanswered[r] <= limit + 1
    BY <2>1, <2>2, <2>3
  <2> QED
    BY <2>4
<1>2. RecurringIsNotStranded
  BY DEF RemindersInv, UntouchedFit, IsHeld, RecurringIsNotStranded
<1> QED
  BY <1>1, <1>2 DEF RemindersInv, RemindersShape, IdlePatrolIsCut

\* Only a claim makes a row fire, and it takes only rows whose slot has come.
LEMMA MissedSlotsAreSkipped ==
  ASSUME RemindersInv, [RemindersNext]_reminderVars PROVE SkipsMissedSlots
<1> SUFFICES ASSUME NEW r \in Reminder \ touched, Exists(r), rows[r].last > 0,
                    NEW t \in Tick, NEW c \in claimed'[t] \ claimed[t], c.row = r
             PROVE  rows[r].fireAt > rows[r].last
  BY DEF SkipsMissedSlots, FiresNow
<1>1. claimed \in [Tick -> SUBSET ClaimRecord]
  BY DEF RemindersInv, RemindersShape, RemindersTypeOK
<1>2. ASSUME NEW s \in Tick, ClaimDue(s) PROVE rows[r].status = "scheduled"
  <2>1. PICK batch \in SUBSET Reminder :
          /\ IsBatch(batch)
          /\ claimed' = [claimed EXCEPT ![s] =
                          {[row |-> q, rule |-> rows[q].rule, fireAt |-> rows[q].fireAt,
                            autoPaused |-> AutoPauses(q)] : q \in batch}]
    BY <1>2 DEF ClaimDue
  <2>2. PICK q \in batch : c.row = q
    BY <1>1, <2>1
  <2> QED
    BY <2>1, <2>2 DEF IsBatch, Due
<1>3. ASSUME NEW s \in Tick, Deliver(s) \/ TickFails(s) PROVE FALSE
  BY <1>1, <1>3 DEF Deliver, TickFails
<1>4. ASSUME UNCHANGED claimed PROVE FALSE
  BY <1>4
<1>5. \A q \in Reminder :
        (\/ Create(q) \/ Delete(q) \/ Pause(q) \/ AskSnooze(q)
         \/ AskResume(q) \/ Patch(q) \/ UserSnooze(q) \/ AgentPosts(q)) => UNCHANGED claimed
  BY DEF Create, Delete, Pause, AskSnooze, AskResume, Patch, UserSnooze, AgentPosts, OnlyRows
<1>6. Snooze \/ Resume \/ Elapse \/ UNCHANGED reminderVars => UNCHANGED claimed
  BY DEF Snooze, Resume, Elapse, reminderVars
<1>7. rows[r].status = "scheduled"
  <2>1. CASE \E s \in Tick : ClaimDue(s) \/ Deliver(s) \/ TickFails(s)
    BY <1>2, <1>3, <2>1
  <2>2. CASE \E q \in Reminder :
               \/ Create(q) \/ Delete(q) \/ Pause(q) \/ AskSnooze(q)
               \/ AskResume(q) \/ Patch(q) \/ UserSnooze(q) \/ AgentPosts(q)
    BY <1>4, <1>5, <2>2
  <2>3. CASE Snooze \/ Resume \/ Elapse \/ UNCHANGED reminderVars
    BY <1>4, <1>6, <2>3
  <2> QED
    BY <2>1, <2>2, <2>3 DEF RemindersNext
<1> QED
  BY <1>7 DEF RemindersInv, UntouchedFit, SlotFits

\* Whatever ticks, snoozes, pauses and patches do, a patrol nobody answers is cut off, a
\* repeating reminder is not stranded, and none fires for a slot it has missed: for any number
\* of reminders, overlapping ticks, rules and limits.
THEOREM RemindersKeepTheirWay == RemindersSpec => RemindersGoTheirWay
<1>1. RemindersInit => RemindersInv
  BY RemindersStart
<1>2. RemindersInv /\ [RemindersNext]_reminderVars => RemindersInv'
  BY RemindersSteps
<1>3. RemindersInv => IdlePatrolIsCut /\ RecurringIsNotStranded
  BY RemindersFollow
<1>4. RemindersInv' => IdlePatrolIsCut' /\ RecurringIsNotStranded'
  BY <1>3, PTL
<1>5. RemindersInv /\ [RemindersNext]_reminderVars => SkipsMissedSlots
  BY MissedSlotsAreSkipped
<1> QED
  BY <1>1, <1>2, <1>4, <1>5, PTL DEF RemindersSpec, RemindersGoTheirWay
=============================================================================
