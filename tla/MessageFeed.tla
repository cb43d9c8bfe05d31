------------------------------ MODULE MessageFeed ------------------------------
(* How the browser keeps its copy of a target's top-level messages: live frames of  *)
(* a socket that comes and goes, the newest page of the history, and the backfill    *)
(* that a reconnect starts.  The server numbers messages of all targets in one       *)
(* sequence; a row is visible when its transaction commits and is broadcast some      *)
(* time after that, to the sockets registered then.                                  *)
EXTENDS Integers, Sequences, FiniteSets

CONSTANTS
  Target,
  MaxSeq, MaxConnects,
  MaxVisits,   \* bounds; the last for histories asked for and logouts together
  FillPage, FillMaxPages, FillWorkers,   \* BACKFILL_PAGE_LIMIT, _MAX_PAGES, _CONCURRENCY
  NewestPage                             \* messages of one fetchHistory

ASSUME FeedAssumption ==
  /\ MaxSeq \in Nat /\ MaxConnects \in Nat /\ MaxVisits \in Nat
  /\ FillPage \in Nat \ {0} /\ FillMaxPages \in Nat /\ FillWorkers \in Nat /\ NewestPage \in Nat

Seqs == 1 .. MaxSeq             \* a message stands for its seq
Reconnect == 1 .. MaxConnects
NoAnswer == [rows |-> {}, more |-> FALSE]
NoFill == [by |-> 0, after |-> 0, page |-> 0, stage |-> "off", answer |-> NoAnswer,
           owed |-> {}, end |-> "none"]
NoFetch == [stage |-> "off", page |-> {}]

VARIABLES
  lastNo,     \* the sequence of messages.seq
  writing,    \* <<target, seq, person>> of transactions that have not committed
  visible,      \* target -> visible messages
  fanout,     \* <<target, seq>>: broadcast under way
  socket,     \* "down", "up" (open at the browser) or "live" (registered at the server)
  connects,
  list,       \* messagesByTarget; the key exists when the target is in known
  known, seen,   \* seen: lastSeenSeq
  fetching,   \* target -> fetchHistory at work
  fetches,
  fill,       \* target -> backfillTarget at work; by: the backfillAll it runs for
  unfilled,   \* history: target -> what a backfill owed when it failed
  left,       \* backfillAll -> targets its workers have not taken
  logouts

feedServer == <<lastNo, writing, visible, fanout>>
feedStore == <<list, known, seen>>
feedFill == <<fill, left, unfilled>>
feedVars == <<lastNo, writing, visible, fanout, socket, connects, list, known, seen,
              fetching, fetches, fill, left, unfilled, logouts>>

FeedInit ==
  /\ lastNo = 0 /\ writing = {} /\ visible = [t \in Target |-> {}] /\ fanout = {}
  /\ socket = "down" /\ connects = 0
  /\ list = [t \in Target |-> <<>>] /\ known = {} /\ seen = [t \in Target |-> 0]
  /\ fetching = [t \in Target |-> NoFetch] /\ fetches = 0
  /\ fill = [t \in Target |-> NoFill] /\ left = [k \in Reconnect |-> {}]
  /\ unfilled = [t \in Target |-> {}]
  /\ logouts = 0

Shown(l, t) == {l[t][i] : i \in DOMAIN l[t]}
Sorted(s) == CHOOSE q \in [1 .. Cardinality(s) -> s] :
               \A i, j \in DOMAIN q : i < j => q[i] < q[j]
Larger(a, b) == IF a > b THEN a ELSE b
\* the k smallest (greatest) members of s
Lowest(s, k) == {n \in s : Cardinality({m \in s : m < n}) < k}
Highest(s, k) == {n \in s : Cardinality({m \in s : m > n}) < k}
Greatest(s) == IF s = {} THEN 0 ELSE CHOOSE n \in s : \A m \in s : m <= n
-----------------------------------------------------------------------------
(* The server                                                                *)

\* people's messages of one target are written one after the other, agents' are not
InsertRow(t, person) ==
  /\ lastNo < MaxSeq /\ lastNo' = lastNo + 1
  /\ person => ~\E n \in Seqs : <<t, n, TRUE>> \in writing
  /\ writing' = writing \cup {<<t, lastNo + 1, person>>}
  /\ UNCHANGED <<visible, fanout, socket, connects, feedStore, fetching, fetches, feedFill, logouts>>

CommitRow ==
  /\ \E w \in writing :
       /\ writing' = writing \ {w} /\ visible' = [visible EXCEPT ![w[1]] = @ \cup {w[2]}]
       /\ fanout' = fanout \cup {<<w[1], w[2]>>}
  /\ UNCHANGED <<lastNo, socket, connects, feedStore, fetching, fetches, feedFill, logouts>>
-----------------------------------------------------------------------------
(* The store                                                                 *)

Receive(st, t, n) ==
  IF n \in Shown(st.list, t) THEN st
  ELSE [list |-> [st.list EXCEPT ![t] = Append(@, n)],
        seen |-> [st.seen EXCEPT ![t] = Larger(n, @)]]

\* receiveMessage for each row of an ascending page
ReceiveAll(t, page) ==
  LET new == page \ Shown(list, t)
  IN  [list |-> [list EXCEPT ![t] = @ \o Sorted(new)],
       seen |-> [seen EXCEPT ![t] = Larger(Greatest(new), @)]]

SetStore(st) == list' = st.list /\ seen' = st.seen

\* agent:deliver reaches the browser, or goes to no registered socket
LiveMessage(t, n) ==
  /\ <<t, n>> \in fanout /\ fanout' = fanout \ {<<t, n>>}
  /\ IF socket = "live"
     THEN SetStore(Receive([list |-> list, seen |-> seen], t, n)) /\ known' = known \cup {t}
     ELSE UNCHANGED feedStore
  /\ UNCHANGED <<lastNo, writing, visible, socket, connects, fetching, fetches, feedFill, logouts>>

AskHistory(t) ==
  /\ fetching[t].stage = "off" /\ fetches + logouts < MaxVisits
  /\ fetches' = fetches + 1 /\ fetching' = [fetching EXCEPT ![t].stage = "asked"]
  /\ UNCHANGED <<feedServer, socket, connects, feedStore, feedFill, logouts>>

ReadHistory(t) ==
  /\ fetching[t].stage = "asked"
  /\ fetching' = [fetching EXCEPT ![t] = [stage |-> "answered",
                                          page |-> Highest(visible[t], NewestPage)]]
  /\ UNCHANGED <<feedServer, socket, connects, feedStore, fetches, feedFill, logouts>>

MergePage(t, page) == list' = [list EXCEPT ![t] = Sorted(page \cup Shown(list, t))]

HistoryArrives(t) ==
  /\ fetching[t].stage = "answered"
  /\ fetching' = [fetching EXCEPT ![t] = NoFetch] /\ known' = known \cup {t}
  /\ MergePage(t, fetching[t].page)
  /\ seen' = [seen EXCEPT ![t] = Larger(Greatest(fetching[t].page), @)]
  /\ UNCHANGED <<feedServer, socket, connects, fetches, feedFill, logouts>>

HistoryFails(t) ==
  /\ fetching[t].stage # "off" /\ fetching' = [fetching EXCEPT ![t] = NoFetch]
  /\ UNCHANGED <<feedServer, socket, connects, feedStore, fetches, feedFill, logouts>>
-----------------------------------------------------------------------------
(* Connection and backfill                                                   *)

Busy(k) == Cardinality({t \in Target : fill[t].by = k})

\* a worker of backfillAll k takes a target; one that is being filled is skipped
TakeTarget(k, t) ==
  /\ t \in left[k] /\ Busy(k) < FillWorkers
  /\ left' = [left EXCEPT ![k] = @ \ {t}]
  /\ fill' = IF fill[t].by # 0 THEN fill
             ELSE [fill EXCEPT ![t] = [NoFill EXCEPT !.by = k, !.after = seen[t],
                     !.stage = "asked", !.owed = {n \in visible[t] : n > seen[t]}]]
  /\ UNCHANGED <<feedServer, socket, connects, feedStore, fetching, fetches, unfilled, logouts>>

\* onConnect; a first connection fills nothing.  The workers start at once.
Connect ==
  /\ socket = "down" /\ connects < MaxConnects
  /\ socket' = "up" /\ connects' = connects + 1
  /\ \E first \in SUBSET known :
       /\ IF connects = 0 THEN first = {}
          ELSE Cardinality(first) = IF Cardinality(known) < FillWorkers
                                    THEN Cardinality(known) ELSE FillWorkers
       /\ left' = [left EXCEPT ![connects + 1] = IF connects = 0 THEN {} ELSE known \ first]
       /\ fill' = [t \in Target |->
            IF t \notin first \/ fill[t].by # 0 THEN fill[t]
            ELSE [NoFill EXCEPT !.by = connects + 1, !.after = seen[t], !.stage = "asked",
                    !.owed = {n \in visible[t] : n > seen[t]}]]
  /\ UNCHANGED <<feedServer, feedStore, fetching, fetches, unfilled, logouts>>

RegisterBrowser ==
  /\ socket = "up" /\ socket' = "live"
  /\ UNCHANGED <<feedServer, connects, feedStore, fetching, fetches, feedFill, logouts>>

Disconnect ==
  /\ socket # "down" /\ socket' = "down"
  /\ UNCHANGED <<feedServer, connects, feedStore, fetching, fetches, feedFill, logouts>>

ReadPage(t) ==
  /\ fill[t].stage = "asked"
  /\ LET above == {n \in visible[t] : n > fill[t].after}
         page == Lowest(above, FillPage)
     IN  fill' = [fill EXCEPT ![t].stage = "answered",
                    ![t].answer = [rows |-> page, more |-> Cardinality(page) >= FillPage]]
  /\ UNCHANGED <<feedServer, socket, connects, feedStore, fetching, fetches, left, unfilled, logouts>>

EndFill(t, end) == [fill EXCEPT ![t] = [NoFill EXCEPT !.end = end]]

\* a plausible fault: the cursor follows lastSeenSeq, which live messages raise
NextCursorIsSeen(t, page, st) == st.seen[t]
NextCursor(t, page, st) == Greatest(page)

PageArrives(t) ==
  /\ fill[t].stage = "answered"
  /\ LET page == fill[t].answer.rows
         st == ReceiveAll(t, page)
     IN  /\ SetStore(st) /\ known' = IF page = {} THEN known ELSE known \cup {t}
         /\ fill' = IF ~fill[t].answer.more THEN EndFill(t, "clean")
                    ELSE IF fill[t].page + 1 >= FillMaxPages THEN EndFill(t, "capped")
                    ELSE [fill EXCEPT ![t].stage = "asked", ![t].page = @ + 1,
                            ![t].after = NextCursor(t, page, st), ![t].answer = NoAnswer]
  /\ UNCHANGED <<feedServer, socket, connects, fetching, fetches, left, unfilled, logouts>>

PageFails(t) ==
  /\ fill[t].stage # "off" /\ fill' = EndFill(t, "failed")
  /\ unfilled' = [unfilled EXCEPT ![t] = @ \cup fill[t].owed]
  /\ UNCHANGED <<feedServer, socket, connects, feedStore, fetching, fetches, left, logouts>>

\* clearMessageCaches; what is under way goes on
ClearFeed ==
  /\ fetches + logouts < MaxVisits /\ logouts' = logouts + 1
  /\ list' = [t \in Target |-> <<>>] /\ known' = {} /\ seen' = [t \in Target |-> 0]
  /\ UNCHANGED <<feedServer, socket, connects, fetching, fetches, feedFill>>

FeedNext ==
  \/ CommitRow \/ Connect \/ RegisterBrowser \/ Disconnect \/ ClearFeed
  \/ \E t \in Target :
       \/ AskHistory(t) \/ ReadHistory(t) \/ HistoryArrives(t) \/ HistoryFails(t)
       \/ ReadPage(t) \/ PageArrives(t) \/ PageFails(t)
       \/ \E person \in BOOLEAN : InsertRow(t, person)
       \/ \E n \in Seqs : LiveMessage(t, n)
       \/ \E k \in Reconnect : TakeTarget(k, t)

FeedSpec == FeedInit /\ [][FeedNext]_feedVars
-----------------------------------------------------------------------------
(* Properties                                                                *)

\* Types of the server's rows, the socket, the list and the backfills.
FeedTypeOK ==
  /\ lastNo \in 0 .. MaxSeq /\ writing \subseteq Target \X Seqs \X BOOLEAN
  /\ visible \in [Target -> SUBSET Seqs] /\ fanout \subseteq Target \X Seqs
  /\ socket \in {"down", "up", "live"} /\ connects \in 0 .. MaxConnects
  /\ \A t \in Target : list[t] \in Seq(Seqs) /\ seen[t] \in 0 .. MaxSeq
  /\ known \subseteq Target /\ fetches \in 0 .. MaxVisits
  /\ fetching \in [Target -> [stage : {"off", "asked", "answered"}, page : SUBSET Seqs]]
  /\ \A t \in Target :
       /\ fill[t].by \in 0 .. MaxConnects /\ fill[t].after \in 0 .. MaxSeq
       /\ fill[t].page \in 0 .. FillMaxPages
       /\ fill[t].stage \in {"off", "asked", "answered"} /\ fill[t].answer.rows \subseteq Seqs
       /\ (fill[t].by = 0) = (fill[t].stage = "off") /\ fill[t].owed \subseteq Seqs
       /\ fill[t].end \in {"none", "clean", "capped", "failed"}
  /\ left \in [Reconnect -> SUBSET Target] /\ unfilled \in [Target -> SUBSET Seqs] /\ logouts \in 0 .. MaxVisits

\* A message that is shown stays shown, once, whatever page or live frame arrives
\* after it, until the user logs out.
ShownStaysShown ==
  [][\A t \in Target :
       /\ logouts' = logouts => Shown(list, t) \subseteq Shown(list', t)
       /\ Len(list'[t]) = Cardinality(Shown(list', t))]_feedVars

\* A backfill that ends well has brought everything that was there, above the point it
\* started from, when it began - live messages or not.
BackfillIsComplete ==
  [][\A t \in Target :
       (fill[t].by # 0 /\ fill'[t].by = 0 /\ fill'[t].end = "clean" /\ logouts = 0)
         => fill[t].owed \subseteq Shown(list', t)]_feedVars

\* The list of a channel loses nothing it had and nothing a backfill vouches for.
FeedIsComplete == ShownStaysShown /\ BackfillIsComplete

\* "a failure is silent: ... made good at the next reconnect" (messageStore.ts:214)
FailureIsMadeGood ==
  [][\A t \in Target :
       (fill[t].by # 0 /\ fill'[t].by = 0 /\ fill'[t].end = "clean" /\ logouts = 0)
         => unfilled[t] \subseteq Shown(list', t)]_feedVars
=============================================================================
