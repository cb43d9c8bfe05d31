---------------------------- MODULE RosterProofs ----------------------------
(* Why the daemon's list agrees with the server's rows.  The argument is about the     *)
(* sequence of events on their way: what it says of a name ends with the name's row,     *)
(* and each move of the sequence (an event told, sent, overtaken, lost or handled) is      *)
(* described once, as a map from its new positions to the old ones.                          *)
EXTENDS Roster, WellFoundedInduction, TLAPS
-----------------------------------------------------------------------------
(* The invariant                                                             *)

\* what is on its way about the agents, in the order it will arrive
OnItsWay == link.wire \o outgoing

Untold(events, n) == \A i \in DOMAIN events : events[i].name # n
LastOf(events, n, i) ==
  /\ i \in DOMAIN events /\ events[i].name = n
  /\ \A j \in DOMAIN events : events[j].name = n => j <= i
NextOf(events, n, i, j) ==
  /\ i \in DOMAIN events /\ j \in DOMAIN events /\ i < j
  /\ events[i].name = n /\ events[j].name = n
  /\ \A k \in DOMAIN events : events[k].name = n => k <= i \/ j <= k
OnlyOf(events, n, j) ==
  events[j].name = n /\ \A i \in DOMAIN events : events[i].name = n => i = j
\* a start whose profile nothing after it changes; nothing that changes a profile
StartStands(events, n, i) ==
  /\ events[i].name = n /\ events[i].type = "start"
  /\ \A j \in DOMAIN events : events[j].name = n /\ j > i => events[j].type = "duty_on"
NoNews(events, n) ==
  \A i \in DOMAIN events : events[i].name = n => events[i].type = "duty_on"

LivesAs(rows, a, n) == rows[a].duty \in {"on", "off"} /\ rows[a].name = n
Serves(rows, a, n) == rows[a].duty = "on" /\ rows[a].name = n
NobodyHas(rows, n) == \A a \in Agent : ~LivesAs(rows, a, n)
OnlyHas(rows, a, n) == \A b \in Agent : LivesAs(rows, b, n) => b = a

\* an event says what its row says now
TellsTheRow(rows, event, n) ==
  /\ event.type = "stop" => NobodyHas(rows, n)
  /\ event.type = "duty_off" => LivesAs(rows, event.agent, n) /\ rows[event.agent].duty = "off"
  /\ event.type \in {"start", "duty_on"} => Serves(rows, event.agent, n)

\* what is on its way about a name ends with its row; a name is taken again by a start
\* only, and a stop follows something of the same agent
EventsFit(rows, events, n) ==
  /\ \A i \in DOMAIN events : LastOf(events, n, i) => TellsTheRow(rows, events[i], n)
  /\ \A i, j \in DOMAIN events : NextOf(events, n, i, j) =>
       /\ events[i].type = "stop" => events[j].type = "start"
       /\ events[j].type = "stop" =>
            events[i].type # "stop" /\ events[i].agent = events[j].agent
  /\ \A i \in DOMAIN events, a \in Agent :
       StartStands(events, n, i) /\ Serves(rows, a, n) => events[i].profile = rows[a].profile

\* and the daemon's entry is what its row says, as far as nothing is to come
EntryFits(rows, entry, events, n) ==
  /\ Untold(events, n) => (entry.registered <=> \E a \in Agent : Serves(rows, a, n))
  /\ \A a \in Agent : Serves(rows, a, n) =>
       /\ Untold(events, n) => entry.id = a
       /\ NoNews(events, n) => entry.profile \in {rows[a].profile, NoProfile}
  /\ \A j \in DOMAIN events :
       OnlyOf(events, n, j) /\ events[j].type = "stop" /\ entry.registered
         => entry.id = events[j].agent

\* an agent is known by the name of its row; another name it had has raced, and so has the
\* one it has
KnownBy(rows, races, a, n) ==
  /\ rows[a].duty # "unborn"
  /\ rows[a].name = n \/ {rows[a].name, n} \subseteq races

LinkType == [up : BOOLEAN, wire : Seq(Event)]
LoadType == [at : {"asked", "read", "done", "failed"}, seen : [Agent -> AgentRow]]

RosterTyped ==
  /\ RosterTypeOK /\ link \in LinkType /\ load \in LoadType
  /\ \A i \in DOMAIN OnItsWay :
       OnItsWay[i].type = "start" <=> OnItsWay[i].profile # NoProfile
  /\ \A n \in AgentName : ~listed[n].registered => listed[n] = Unlisted
  /\ ~link.up => link.wire = <<>>

NamesAreFit ==
  /\ \A a \in Agent : a \in Living(agents) => OnlyHas(agents, a, agents[a].name)
  /\ \A i \in DOMAIN OnItsWay : KnownBy(agents, raced, OnItsWay[i].agent, OnItsWay[i].name)
  /\ \A n \in AgentName, a \in Agent : listed[n].id = a => KnownBy(agents, raced, a, n)
  /\ \A a \in Agent : load.seen[a].duty # "unborn" => agents[a].duty # "unborn"
  /\ \A edit \in edits : agents[edit.agent].duty # "unborn"

RosterInv ==
  /\ RosterTyped /\ NamesAreFit
  /\ \A n \in AgentName \ raced : EventsFit(agents, OnItsWay, n)
  /\ load.at = "done" =>
       \A n \in AgentName \ (raced \cup lost) : EntryFits(agents, listed[n], OnItsWay, n)

\* the events about a name in one sequence are the last ones about it in another
Follows(new, old, n, f) ==
  /\ \A j \in DOMAIN new : new[j].name = n => f[j] \in DOMAIN old /\ new[j] = old[f[j]]
  /\ \A i, j \in DOMAIN new :
       new[i].name = n /\ new[j].name = n => (i < j <=> f[i] < f[j])
  /\ \A j \in DOMAIN new, i \in DOMAIN old :
       new[j].name = n /\ old[i].name = n /\ f[j] < i
         => \E k \in DOMAIN new : new[k].name = n /\ f[k] = i
\* they are all of them
Whole(new, old, n, f) ==
  \A i \in DOMAIN old : old[i].name = n => \E k \in DOMAIN new : new[k].name = n /\ f[k] = i

\* What fits the rows still does when what is on its way of the name is a later part of it.
LEMMA EventsFollow ==
  ASSUME NEW rows, NEW new \in Seq(Event), NEW old \in Seq(Event), NEW n, NEW f,
         Follows(new, old, n, f), EventsFit(rows, old, n)
  PROVE  EventsFit(rows, new, n)
<1>1. DOMAIN new \subseteq Nat /\ DOMAIN old \subseteq Nat
  OBVIOUS
<1>2. ASSUME NEW i \in DOMAIN new, LastOf(new, n, i)
      PROVE  LastOf(old, n, f[i]) /\ new[i] = old[f[i]] /\ f[i] \in DOMAIN old
  <2>1. new[i].name = n /\ f[i] \in DOMAIN old /\ new[i] = old[f[i]]
    BY <1>2 DEF LastOf, Follows
  <2>2. ASSUME NEW k \in DOMAIN old, old[k].name = n PROVE k <= f[i]
    <3>1. SUFFICES ASSUME f[i] < k PROVE FALSE
      BY <1>1, <2>1
    <3>2. PICK l \in DOMAIN new : new[l].name = n /\ f[l] = k
      BY <2>1, <2>2, <3>1 DEF Follows
    <3>3. i < l
      BY <2>1, <3>1, <3>2 DEF Follows
    <3>4. QED
      BY <1>1, <1>2, <3>2, <3>3 DEF LastOf
  <2>3. QED
    BY <2>1, <2>2 DEF LastOf
<1>3. ASSUME NEW i \in DOMAIN new, NEW j \in DOMAIN new, NextOf(new, n, i, j)
      PROVE  /\ NextOf(old, n, f[i], f[j]) /\ new[i] = old[f[i]] /\ new[j] = old[f[j]]
             /\ f[i] \in DOMAIN old /\ f[j] \in DOMAIN old
  <2>1. /\ new[i].name = n /\ new[j].name = n /\ i < j
        /\ f[i] \in DOMAIN old /\ new[i] = old[f[i]]
        /\ f[j] \in DOMAIN old /\ new[j] = old[f[j]]
    BY <1>3 DEF NextOf, Follows
  <2>2. f[i] < f[j]
    BY <2>1 DEF Follows
  <2>3. ASSUME NEW k \in DOMAIN old, old[k].name = n PROVE k <= f[i] \/ f[j] <= k
    <3>1. SUFFICES ASSUME f[i] < k, k < f[j] PROVE FALSE
      BY <1>1, <2>1
    <3>2. PICK l \in DOMAIN new : new[l].name = n /\ f[l] = k
      BY <2>1, <2>3, <3>1 DEF Follows
    <3>3. i < l /\ l < j
      BY <2>1, <3>1, <3>2 DEF Follows
    <3>4. QED
      BY <1>1, <1>3, <3>2, <3>3 DEF NextOf
  <2>4. QED
    BY <2>1, <2>2, <2>3 DEF NextOf
<1>4. ASSUME NEW i \in DOMAIN new, StartStands(new, n, i)
      PROVE  StartStands(old, n, f[i]) /\ new[i] = old[f[i]] /\ f[i] \in DOMAIN old
  <2>1. /\ new[i].name = n /\ f[i] \in DOMAIN old /\ new[i] = old[f[i]]
    BY <1>4 DEF StartStands, Follows
  <2>2. ASSUME NEW k \in DOMAIN old, old[k].name = n, k > f[i] PROVE old[k].type = "duty_on"
    <3>1. PICK l \in DOMAIN new : new[l].name = n /\ f[l] = k
      BY <1>1, <2>1, <2>2 DEF Follows
    <3>2. i < l /\ new[l] = old[k]
      BY <1>1, <2>1, <2>2, <3>1 DEF Follows
    <3>3. QED
      BY <1>1, <1>4, <3>1, <3>2 DEF StartStands
  <2>3. QED
    BY <1>4, <2>1, <2>2 DEF StartStands
<1>5. QED
  BY <1>2, <1>3, <1>4 DEF EventsFit

\* And the daemon's entry too, when nothing of the name is missing.
LEMMA EntryFollows ==
  ASSUME NEW rows, NEW entry, NEW new \in Seq(Event), NEW old \in Seq(Event), NEW n, NEW f,
         Follows(new, old, n, f), Whole(new, old, n, f), EntryFits(rows, entry, old, n)
  PROVE  EntryFits(rows, entry, new, n)
<1>1. Untold(new, n) => Untold(old, n)
  BY DEF Untold, Whole
<1>2. NoNews(new, n) => NoNews(old, n)
  BY DEF NoNews, Whole, Follows
<1>3. ASSUME NEW j \in DOMAIN new, OnlyOf(new, n, j)
      PROVE  OnlyOf(old, n, f[j]) /\ new[j] = old[f[j]] /\ f[j] \in DOMAIN old
  <2>1. f[j] \in DOMAIN old /\ new[j] = old[f[j]] /\ new[j].name = n
    BY <1>3 DEF OnlyOf, Follows
  <2>2. ASSUME NEW i \in DOMAIN old, old[i].name = n PROVE i = f[j]
    <3>1. PICK k \in DOMAIN new : new[k].name = n /\ f[k] = i
      BY <2>2 DEF Whole
    <3>2. QED
      BY <1>3, <3>1 DEF OnlyOf
  <2>3. QED
    BY <2>1, <2>2 DEF OnlyOf
<1>4. QED
  BY <1>1, <1>2, <1>3 DEF EntryFits

\* Rows that have nothing to do with a name do not matter for it, nor what else is said of
\* an agent off duty.
SameFor(rows, rows2, n) ==
  \A a \in Agent :
    \/ rows2[a] = rows[a]
    \/ /\ ~Serves(rows, a, n) /\ ~Serves(rows2, a, n)
       /\ LivesAs(rows, a, n) <=> LivesAs(rows2, a, n)

\* The same agents have the name, and the same one serves under it.
LEMMA ServesAsBefore ==
  ASSUME NEW rows, NEW rows2, NEW n, SameFor(rows, rows2, n), NEW a \in Agent
  PROVE  /\ LivesAs(rows2, a, n) <=> LivesAs(rows, a, n)
         /\ Serves(rows2, a, n) <=> Serves(rows, a, n)
         /\ LivesAs(rows, a, n) => rows2[a].duty = rows[a].duty
         /\ Serves(rows, a, n) => rows2[a] = rows[a]
BY DEF SameFor, LivesAs, Serves

\* So events and entry of such a name fit the new rows as they fitted the old.
LEMMA RowsRest ==
  ASSUME NEW rows, NEW rows2, NEW n, NEW events \in Seq(Event), NEW entry,
         SameFor(rows, rows2, n)
  PROVE  /\ EventsFit(rows, events, n) => EventsFit(rows2, events, n)
         /\ EntryFits(rows, entry, events, n) => EntryFits(rows2, entry, events, n)
<1>1. \A a \in Agent : /\ LivesAs(rows2, a, n) <=> LivesAs(rows, a, n)
                       /\ Serves(rows2, a, n) <=> Serves(rows, a, n)
                       /\ LivesAs(rows, a, n) => rows2[a].duty = rows[a].duty
                       /\ Serves(rows, a, n) => rows2[a] = rows[a]
  BY ServesAsBefore
<1>2. ASSUME NEW i \in DOMAIN events PROVE events[i].agent \in Agent
  <2>1. events[i] \in Event
    OBVIOUS
  <2>2. QED
    BY <2>1 DEF Event
<1>3. ASSUME NEW i \in DOMAIN events, TellsTheRow(rows, events[i], n)
      PROVE  TellsTheRow(rows2, events[i], n)
  BY <1>1, <1>2, <1>3 DEF TellsTheRow, NobodyHas
<1>4. EventsFit(rows, events, n) => EventsFit(rows2, events, n)
  BY <1>1, <1>3 DEF EventsFit
<1>5. EntryFits(rows, entry, events, n) => EntryFits(rows2, entry, events, n)
  BY <1>1 DEF EntryFits
<1>6. QED
  BY <1>4, <1>5

\* One more event about a name.
LEMMA EventAppended ==
  ASSUME NEW rows, NEW rows2, NEW n, NEW events \in Seq(Event), NEW e \in Event, e.name = n,
         EventsFit(rows, events, n), TellsTheRow(rows2, e, n),
         \A i \in DOMAIN events : LastOf(events, n, i) =>
            /\ events[i].type = "stop" => e.type = "start"
            /\ e.type = "stop" => events[i].type # "stop" /\ events[i].agent = e.agent,
         \A a \in Agent : Serves(rows2, a, n) =>
            /\ e.type = "start" => e.profile = rows2[a].profile
            /\ e.type = "duty_on" => \A i \in DOMAIN events : StartStands(events, n, i) =>
                                       events[i].profile = rows2[a].profile
  PROVE  EventsFit(rows2, Append(events, e), n)
<1> DEFINE more == Append(events, e)
           last == Len(events) + 1
<1>1. /\ more \in Seq(Event) /\ DOMAIN more = DOMAIN events \cup {last} /\ more[last] = e
      /\ \A i \in DOMAIN events : more[i] = events[i] /\ i < last /\ i \in Nat
      /\ last \in Nat /\ last \notin DOMAIN events
  OBVIOUS
<1> HIDE DEF more, last
<1>2. ASSUME NEW i \in DOMAIN more, LastOf(more, n, i) PROVE i = last
  BY <1>1, <1>2 DEF LastOf
<1>3. ASSUME NEW i \in DOMAIN more, NEW j \in DOMAIN more, NextOf(more, n, i, j)
      PROVE  /\ more[i].type = "stop" => more[j].type = "start"
             /\ more[j].type = "stop" => more[i].type # "stop" /\ more[i].agent = more[j].agent
  <2>1. i \in DOMAIN events /\ more[i] = events[i]
    BY <1>1, <1>3 DEF NextOf
  <2>2. CASE j = last
    <3>1. LastOf(events, n, i)
      BY <1>1, <1>3, <2>1, <2>2 DEF NextOf, LastOf
    <3>2. QED
      BY <1>1, <2>1, <2>2, <3>1
  <2>3. CASE j # last
    <3>1. j \in DOMAIN events /\ more[j] = events[j]
      BY <1>1, <2>3
    <3>2. NextOf(events, n, i, j)
      BY <1>1, <1>3, <2>1, <3>1 DEF NextOf
    <3>3. QED
      BY <2>1, <3>1, <3>2 DEF EventsFit
  <2>4. QED
    BY <2>2, <2>3
<1>4. ASSUME NEW i \in DOMAIN more, NEW a \in Agent, StartStands(more, n, i), Serves(rows2, a, n)
      PROVE  more[i].profile = rows2[a].profile
  <2>1. CASE i = last
    BY <1>1, <1>4, <2>1 DEF StartStands
  <2>2. CASE i # last
    <3>1. i \in DOMAIN events /\ more[i] = events[i]
      BY <1>1, <2>2
    <3>2. e.type = "duty_on" /\ StartStands(events, n, i)
      BY <1>1, <1>4, <3>1 DEF StartStands
    <3>3. QED
      BY <1>4, <3>1, <3>2
  <2>3. QED
    BY <2>1, <2>2
<1>5. EventsFit(rows2, more, n)
  BY <1>1, <1>2, <1>3, <1>4 DEF EventsFit
<1>6. QED
  BY <1>5 DEF more

\* An event told of a name: the entry need not fit but for what the event does not change.
LEMMA EntryAppended ==
  ASSUME NEW rows2, NEW entry, NEW n, NEW events \in Seq(Event), NEW e \in Event, e.name = n,
         \A a \in Agent : Serves(rows2, a, n) /\ e.type = "duty_on" /\ NoNews(events, n) =>
            entry.profile \in {rows2[a].profile, NoProfile},
         e.type = "stop" /\ Untold(events, n) /\ entry.registered => entry.id = e.agent
  PROVE  EntryFits(rows2, entry, Append(events, e), n)
<1> DEFINE more == Append(events, e)
           last == Len(events) + 1
<1>1. /\ more \in Seq(Event) /\ DOMAIN more = DOMAIN events \cup {last} /\ more[last] = e
      /\ \A i \in DOMAIN events : more[i] = events[i] /\ i # last
  OBVIOUS
<1> HIDE DEF more, last
<1>2. ~Untold(more, n)
  BY <1>1 DEF Untold
<1>3. NoNews(more, n) => e.type = "duty_on" /\ NoNews(events, n)
  BY <1>1 DEF NoNews
<1>4. \A j \in DOMAIN more : OnlyOf(more, n, j) => j = last /\ Untold(events, n)
  BY <1>1 DEF OnlyOf, Untold
<1>5. EntryFits(rows2, entry, more, n)
  BY <1>1, <1>2, <1>3, <1>4 DEF EntryFits
<1>6. QED
  BY <1>5 DEF more

\* An event about another name changes nothing.
LEMMA AppendFollows ==
  ASSUME NEW events \in Seq(Event), NEW e \in Event, NEW n, e.name # n
  PROVE  \E f : Follows(Append(events, e), events, n, f) /\ Whole(Append(events, e), events, n, f)
<1> DEFINE more == Append(events, e)
           last == Len(events) + 1
           f == [j \in DOMAIN more |-> j]
<1>1. /\ DOMAIN more = DOMAIN events \cup {last} /\ more[last] = e
      /\ \A i \in DOMAIN events : more[i] = events[i]
      /\ \A j \in DOMAIN more : f[j] = j
  OBVIOUS
<1> HIDE DEF more, last, f
<1>2. Follows(more, events, n, f) /\ Whole(more, events, n, f)
  BY <1>1 DEF Follows, Whole
<1>3. QED
  BY <1>2 DEF more

\* The first event is taken.
LEMMA TailFollows ==
  ASSUME NEW events \in Seq(Event), events # <<>>, NEW n
  PROVE  \E f : /\ Follows(Tail(events), events, n, f)
                /\ events[1].name # n => Whole(Tail(events), events, n, f)
<1> DEFINE rest == Tail(events)
           f == [j \in DOMAIN rest |-> j + 1]
<1>1. /\ Len(events) \in Nat /\ DOMAIN rest = 1 .. Len(events) - 1 /\ DOMAIN events = 1 .. Len(events)
      /\ \A j \in DOMAIN rest : rest[j] = events[j + 1] /\ f[j] = j + 1
  OBVIOUS
<1> HIDE DEF rest, f
<1>2. \A i \in DOMAIN events : i # 1 => \E k \in DOMAIN rest : f[k] = i /\ rest[k] = events[i]
  <2>1. ASSUME NEW i \in DOMAIN events, i # 1
        PROVE  i - 1 \in DOMAIN rest /\ f[i - 1] = i /\ rest[i - 1] = events[i]
    BY <1>1, <2>1
  <2>2. QED
    BY <2>1
<1>3. Follows(rest, events, n, f)
  <2>1. \A j \in DOMAIN rest : f[j] \in DOMAIN events /\ rest[j] = events[f[j]]
    BY <1>1
  <2>2. \A i, j \in DOMAIN rest : i < j <=> f[i] < f[j]
    BY <1>1
  <2>3. \A j \in DOMAIN rest, i \in DOMAIN events : f[j] < i => i # 1
    BY <1>1
  <2>4. QED
    BY <1>2, <2>1, <2>2, <2>3 DEF Follows
<1>4. events[1].name # n => Whole(rest, events, n, f)
  BY <1>2 DEF Whole
<1>5. QED
  BY <1>3, <1>4 DEF rest

\* The events on the wire are lost, the others are not.
LEMMA WireFollows ==
  ASSUME NEW wire \in Seq(Event), NEW waiting \in Seq(Event), NEW n
  PROVE  \E f : /\ Follows(waiting, wire \o waiting, n, f)
                /\ n \notin NamesIn(wire) => Whole(waiting, wire \o waiting, n, f)
<1> DEFINE all == wire \o waiting
           w == Len(wire)
           f == [j \in DOMAIN waiting |-> j + w]
<1>1. /\ w \in Nat /\ Len(waiting) \in Nat /\ DOMAIN waiting = 1 .. Len(waiting)
      /\ DOMAIN all = 1 .. w + Len(waiting)
      /\ DOMAIN wire = 1 .. w
      /\ \A j \in DOMAIN waiting : f[j] = j + w /\ all[j + w] = waiting[j]
      /\ \A j \in DOMAIN wire : all[j] = wire[j]
  OBVIOUS
<1> HIDE DEF all, w, f
<1>2. \A i \in DOMAIN all : i > w => \E k \in DOMAIN waiting : f[k] = i /\ waiting[k] = all[i]
  <2>1. ASSUME NEW i \in DOMAIN all, i > w
        PROVE  i - w \in DOMAIN waiting /\ f[i - w] = i /\ waiting[i - w] = all[i]
    <3>1. i - w \in DOMAIN waiting /\ (i - w) + w = i
      BY <1>1, <2>1
    <3>2. QED
      BY <1>1, <3>1
  <2>2. QED
    BY <2>1
<1>3. Follows(waiting, all, n, f)
  <2>1. \A j \in DOMAIN waiting : f[j] \in DOMAIN all /\ waiting[j] = all[f[j]]
    BY <1>1
  <2>2. \A i, j \in DOMAIN waiting : i < j <=> f[i] < f[j]
    BY <1>1
  <2>3. \A j \in DOMAIN waiting, i \in DOMAIN all : f[j] < i => i > w
    BY <1>1
  <2>4. QED
    BY <1>2, <2>1, <2>2, <2>3 DEF Follows
<1>4. n \notin NamesIn(wire) => Whole(waiting, all, n, f)
  <2>1. ASSUME n \notin NamesIn(wire), NEW i \in DOMAIN all, all[i].name = n PROVE i > w
    BY <1>1, <2>1 DEF NamesIn
  <2>2. QED
    BY <1>2, <2>1 DEF Whole
<1>5. QED
  BY <1>3, <1>4 DEF all

\* One sequence is another without its k-th event, or with that moved to the front at m.
Lacks(new, old, k) ==
  /\ k \in 1 .. Len(old) /\ Len(new) = Len(old) - 1
  /\ \A j \in 1 .. Len(new) : new[j] = old[IF j < k THEN j ELSE j + 1]
Advances(new, old, m, k) ==
  /\ m \in 1 .. k /\ k \in 1 .. Len(old) /\ Len(new) = Len(old)
  /\ \A j \in 1 .. Len(new) : new[j] = old[IF j = m THEN k ELSE IF m < j /\ j <= k THEN j - 1 ELSE j]

\* An event dropped was not overtaking another of its name, or the name has raced.
LEMMA LacksFollows ==
  ASSUME NEW new \in Seq(Event), NEW old \in Seq(Event), NEW n, NEW k, Lacks(new, old, k),
         old[k].name = n => \A j \in 1 .. k - 1 : old[j].name # n
  PROVE  \E f : Follows(new, old, n, f) /\ (old[k].name # n => Whole(new, old, n, f))
<1> DEFINE f == [j \in DOMAIN new |-> IF j < k THEN j ELSE j + 1]
<1>1. /\ DOMAIN new = 1 .. Len(new) /\ DOMAIN old = 1 .. Len(old) /\ Len(old) \in Nat
      /\ Len(new) = Len(old) - 1 /\ k \in 1 .. Len(old)
      /\ \A j \in DOMAIN new : f[j] = (IF j < k THEN j ELSE j + 1) /\ new[j] = old[f[j]]
  BY DEF Lacks
<1> HIDE DEF f
<1>2. ASSUME NEW i \in DOMAIN old, i # k PROVE \E l \in DOMAIN new : f[l] = i /\ new[l] = old[i]
  <2>1. CASE i < k
    <3>1. i \in DOMAIN new
      BY <1>1, <2>1
    <3>2. f[i] = i
      BY <1>1, <2>1, <3>1
    <3>3. QED
      BY <1>1, <3>1, <3>2
  <2>2. CASE i > k
    <3>1. i - 1 \in DOMAIN new /\ ~(i - 1 < k) /\ (i - 1) + 1 = i
      BY <1>1, <2>2
    <3>2. f[i - 1] = i
      BY <1>1, <3>1
    <3>3. QED
      BY <1>1, <3>1, <3>2
  <2>3. QED
    BY <1>1, <1>2, <2>1, <2>2
<1>3. \A j \in DOMAIN new : f[j] \in DOMAIN old /\ new[j] = old[f[j]]
  BY <1>1
<1>4. \A i, j \in DOMAIN new : i < j <=> f[i] < f[j]
  BY <1>1
<1>5. ASSUME NEW j \in DOMAIN new, new[j].name = n, NEW i \in DOMAIN old, old[i].name = n, f[j] < i
      PROVE  i # k
  <2>1. SUFFICES ASSUME i = k PROVE FALSE
    OBVIOUS
  <2>2. f[j] \in 1 .. k - 1 /\ old[f[j]].name = n
    BY <1>1, <1>3, <1>5, <2>1
  <2>3. QED
    BY <1>5, <2>1, <2>2
<1>6. Follows(new, old, n, f)
  <2>1. ASSUME NEW j \in DOMAIN new, NEW i \in DOMAIN old, new[j].name = n, old[i].name = n, f[j] < i
        PROVE  \E l \in DOMAIN new : new[l].name = n /\ f[l] = i
    <3>1. i # k
      BY <1>5, <2>1
    <3>2. QED
      BY <1>2, <2>1, <3>1
  <2>2. QED
    BY <1>3, <1>4, <2>1 DEF Follows
<1>7. old[k].name # n => Whole(new, old, n, f)
  BY <1>2 DEF Whole
<1>8. QED
  BY <1>6, <1>7

\* So with an event sent before those in front of it.
LEMMA AdvancesFollows ==
  ASSUME NEW new \in Seq(Event), NEW old \in Seq(Event), NEW n, NEW m, NEW k,
         Advances(new, old, m, k),
         old[k].name = n => \A j \in m .. k - 1 : old[j].name # n
  PROVE  \E f : Follows(new, old, n, f) /\ Whole(new, old, n, f)
<1> DEFINE f == [j \in DOMAIN new |-> IF j = m THEN k ELSE IF m < j /\ j <= k THEN j - 1 ELSE j]
<1>1. /\ DOMAIN new = 1 .. Len(old) /\ DOMAIN old = 1 .. Len(old) /\ Len(old) \in Nat
      /\ m \in 1 .. k /\ k \in 1 .. Len(old)
      /\ \A j \in DOMAIN new : /\ f[j] = (IF j = m THEN k ELSE IF m < j /\ j <= k THEN j - 1 ELSE j)
                               /\ new[j] = old[f[j]]
  BY DEF Advances
<1> HIDE DEF f
<1>2. ASSUME NEW i \in DOMAIN old PROVE \E l \in DOMAIN new : f[l] = i /\ new[l] = old[i]
  <2>1. CASE i = k
    <3>1. m \in DOMAIN new /\ f[m] = i
      BY <1>1, <2>1
    <3>2. QED
      BY <1>1, <3>1
  <2>2. CASE m <= i /\ i < k
    <3>1. i + 1 \in DOMAIN new /\ i + 1 # m /\ m < i + 1 /\ i + 1 <= k /\ (i + 1) - 1 = i
      BY <1>1, <2>2
    <3>2. f[i + 1] = i
      BY <1>1, <3>1
    <3>3. QED
      BY <1>1, <3>1, <3>2
  <2>3. CASE i < m \/ i > k
    <3>1. i \in DOMAIN new /\ f[i] = i
      BY <1>1, <2>3
    <3>2. QED
      BY <1>1, <3>1
  <2>4. QED
    BY <1>1, <2>1, <2>2, <2>3
<1>3. \A j \in DOMAIN new : f[j] \in DOMAIN old /\ new[j] = old[f[j]]
  BY <1>1
<1>4. ASSUME NEW i \in DOMAIN new, NEW j \in DOMAIN new, new[i].name = n, new[j].name = n
      PROVE  i < j <=> f[i] < f[j]
  <2>1. CASE i # m /\ j # m
    BY <1>1, <2>1
  <2>2. CASE i = m /\ j = m
    BY <1>1, <2>2
  <2>3. ASSUME NEW l \in DOMAIN new, l # m, new[l].name = n, new[m].name = n
        PROVE  (l < m <=> f[l] < f[m]) /\ (m < l <=> f[m] < f[l])
    <3>1. old[k].name = n /\ f[m] = k /\ m \in DOMAIN new
      BY <1>1, <2>3
    <3>2. f[l] \notin m .. k - 1
      BY <1>3, <2>3, <3>1
    <3>3. ~(m < l /\ l <= k)
      BY <1>1, <2>3, <3>2
    <3>4. QED
      BY <1>1, <2>3, <3>1, <3>3
  <2>4. QED
    BY <1>4, <2>1, <2>2, <2>3
<1>5. Follows(new, old, n, f) /\ Whole(new, old, n, f)
  <2>1. ASSUME NEW i \in DOMAIN old, old[i].name = n
        PROVE  \E l \in DOMAIN new : new[l].name = n /\ f[l] = i
    BY <1>2, <2>1
  <2>2. QED
    BY <1>3, <1>4, <2>1 DEF Follows, Whole
<1>6. QED
  BY <1>5

\* What sendToAgentDaemon does to the events that wait, in these words.
LEMMA RemovedAt ==
  ASSUME NEW waiting \in Seq(Event), NEW i \in DOMAIN waiting
  PROVE  /\ RemoveAt(waiting, i) \in Seq(Event)
         /\ Len(RemoveAt(waiting, i)) = Len(waiting) - 1
         /\ \A j \in 1 .. Len(waiting) - 1 :
              RemoveAt(waiting, i)[j] = waiting[IF j < i THEN j ELSE j + 1]
<1> DEFINE front == SubSeq(waiting, 1, i - 1)
           back == SubSeq(waiting, i + 1, Len(waiting))
<1>1. /\ front \in Seq(Event) /\ Len(front) = i - 1 /\ i \in 1 .. Len(waiting) /\ Len(waiting) \in Nat
      /\ \A j \in 1 .. i - 1 : front[j] = waiting[j]
  OBVIOUS
<1>2. /\ back \in Seq(Event) /\ Len(back) = Len(waiting) - i
      /\ \A j \in 1 .. Len(waiting) - i : back[j] = waiting[i + j]
  OBVIOUS
<1> HIDE DEF front, back
<1>3. /\ front \o back \in Seq(Event) /\ Len(front \o back) = Len(waiting) - 1
      /\ \A j \in 1 .. Len(waiting) - 1 :
           (front \o back)[j] = IF j < i THEN front[j] ELSE back[j - (i - 1)]
  BY <1>1, <1>2
<1>4. ASSUME NEW j \in 1 .. Len(waiting) - 1
      PROVE  (front \o back)[j] = waiting[IF j < i THEN j ELSE j + 1]
  <2>1. CASE j < i
    BY <1>1, <1>3, <2>1
  <2>2. CASE ~(j < i)
    <3>1. j - (i - 1) \in 1 .. Len(waiting) - i /\ i + (j - (i - 1)) = j + 1
      BY <1>1, <2>2
    <3>2. QED
      BY <1>2, <1>3, <2>2, <3>1
  <2>3. QED
    BY <2>1, <2>2
<1>5. QED
  BY <1>3, <1>4 DEF RemoveAt, front, back

\* Where the elements of a concatenation come from.
LEMMA ConcatIndex ==
  ASSUME NEW s \in Seq(Event), NEW t \in Seq(Event)
  PROVE  /\ s \o t \in Seq(Event) /\ Len(s \o t) = Len(s) + Len(t)
         /\ \A j \in 1 .. Len(s) + Len(t) :
              (s \o t)[j] = IF j <= Len(s) THEN s[j] ELSE t[j - Len(s)]
OBVIOUS

\* An event sent: it moves from its place among the waiting to the end of the wire.
LEMMA SentAdvances ==
  ASSUME NEW wire \in Seq(Event), NEW waiting \in Seq(Event), NEW i \in DOMAIN waiting
  PROVE  /\ Advances(Append(wire, waiting[i]) \o RemoveAt(waiting, i), wire \o waiting,
                     Len(wire) + 1, Len(wire) + i)
         /\ Append(wire, waiting[i]) \o RemoveAt(waiting, i) \in Seq(Event)
         /\ (wire \o waiting)[Len(wire) + i] = waiting[i]
         /\ \A j \in Len(wire) + 1 .. Len(wire) + i - 1 :
              (wire \o waiting)[j] = waiting[j - Len(wire)]
<1> DEFINE gone == RemoveAt(waiting, i)
           sent == Append(wire, waiting[i])
           w == Len(wire)
           l == Len(waiting)
           new == sent \o gone
           old == wire \o waiting
<1>1. /\ gone \in Seq(Event) /\ Len(gone) = l - 1
      /\ \A j \in 1 .. l - 1 : gone[j] = waiting[IF j < i THEN j ELSE j + 1]
  BY RemovedAt
<1>2. /\ w \in Nat /\ l \in Nat /\ i \in 1 .. l /\ sent \in Seq(Event) /\ Len(sent) = w + 1
      /\ sent[w + 1] = waiting[i] /\ \A j \in 1 .. w : sent[j] = wire[j]
  OBVIOUS
<1>3. /\ old \in Seq(Event) /\ Len(old) = w + l
      /\ \A j \in 1 .. w + l : old[j] = IF j <= w THEN wire[j] ELSE waiting[j - w]
  OBVIOUS
<1> HIDE DEF gone, sent
<1>4. /\ new \in Seq(Event) /\ Len(new) = w + l
      /\ \A j \in 1 .. w + l : new[j] = IF j <= w + 1 THEN sent[j] ELSE gone[j - (w + 1)]
  <2>1. /\ new \in Seq(Event) /\ Len(new) = Len(sent) + Len(gone)
        /\ \A j \in 1 .. Len(sent) + Len(gone) :
             new[j] = IF j <= Len(sent) THEN sent[j] ELSE gone[j - Len(sent)]
    BY <1>1, <1>2, ConcatIndex
  <2>2. (w + 1) + (l - 1) = w + l
    BY <1>2
  <2>3. QED
    BY <1>1, <1>2, <2>1, <2>2
<1> HIDE DEF new, old, w, l
<1>5. ASSUME NEW j \in 1 .. w + l
      PROVE  new[j] = old[IF j = w + 1 THEN w + i ELSE IF w + 1 < j /\ j <= w + i THEN j - 1 ELSE j]
  <2>1. CASE j <= w
    <3>1. j \in 1 .. w /\ j <= w + 1 /\ j # w + 1 /\ ~(w + 1 < j)
      BY <1>2, <2>1
    <3>2. new[j] = wire[j] /\ old[j] = wire[j]
      BY <1>2, <1>3, <1>4, <2>1, <3>1
    <3>3. QED
      BY <3>1, <3>2
  <2>2. CASE j = w + 1
    <3>1. old[w + i] = waiting[i]
      <4>1. w + i \in 1 .. w + l /\ ~(w + i <= w) /\ (w + i) - w = i
        BY <1>2
      <4>2. QED
        BY <1>3, <4>1
    <3>2. QED
      BY <1>2, <1>4, <2>2, <3>1
  <2>3. CASE w + 1 < j /\ j <= w + i
    <3>1. j - (w + 1) \in 1 .. l - 1 /\ j - (w + 1) < i /\ ~(j <= w + 1)
      BY <1>2, <2>3
    <3>2. new[j] = waiting[j - (w + 1)]
      BY <1>1, <1>4, <3>1
    <3>3. j - 1 \in 1 .. w + l /\ ~(j - 1 <= w) /\ (j - 1) - w = j - (w + 1)
      BY <1>2, <2>3
    <3>4. old[j - 1] = waiting[j - (w + 1)]
      BY <1>3, <3>3
    <3>5. QED
      BY <1>2, <2>3, <3>2, <3>4
  <2>4. CASE j > w + i
    <3>1. j - (w + 1) \in 1 .. l - 1 /\ ~(j - (w + 1) < i) /\ (j - (w + 1)) + 1 = j - w /\ ~(j <= w + 1)
      BY <1>2, <2>4
    <3>2. new[j] = waiting[j - w]
      BY <1>1, <1>4, <3>1
    <3>3. old[j] = waiting[j - w]
      BY <1>2, <1>3, <2>4
    <3>4. QED
      BY <1>2, <2>4, <3>2, <3>3
  <2>5. QED
    BY <1>2, <2>1, <2>2, <2>3, <2>4
<1>6. Advances(new, old, w + 1, w + i)
  BY <1>2, <1>3, <1>4, <1>5 DEF Advances
<1>7. old[w + i] = waiting[i] /\ \A j \in w + 1 .. w + i - 1 : old[j] = waiting[j - w]
  <2>1. w + i \in 1 .. w + l /\ ~(w + i <= w) /\ (w + i) - w = i
    BY <1>2
  <2>2. \A j \in w + 1 .. w + i - 1 : j \in 1 .. w + l /\ ~(j <= w)
    BY <1>2
  <2>3. QED
    BY <1>3, <2>1, <2>2
<1>8. QED
  BY <1>4, <1>6, <1>7 DEF new, old, w, l, sent, gone

\* Whatever is on its way is of events.
LEMMA OnItsWayIsTyped ==
  ASSUME RosterTyped
  PROVE  /\ link.wire \in Seq(Event) /\ outgoing \in Seq(Event) /\ OnItsWay \in Seq(Event)
         /\ DOMAIN OnItsWay = 1 .. Len(link.wire) + Len(outgoing)
         /\ \A j \in 1 .. Len(link.wire) + Len(outgoing) :
              OnItsWay[j] = IF j <= Len(link.wire) THEN link.wire[j]
                            ELSE outgoing[j - Len(link.wire)]
<1>1. link.wire \in Seq(Event) /\ outgoing \in Seq(Event)
  BY DEF RosterTyped, RosterTypeOK, LinkType
<1>2. QED
  BY <1>1, ConcatIndex DEF OnItsWay

\* To append to what waits is to append to all that is on its way.
LEMMA AppendedBehind ==
  ASSUME NEW s \in Seq(Event), NEW t \in Seq(Event), NEW e \in Event
  PROVE  s \o Append(t, e) = Append(s \o t, e)
<1> DEFINE longer == Append(t, e)
           both == s \o t
<1>1. /\ longer \in Seq(Event) /\ Len(longer) = Len(t) + 1 /\ longer[Len(t) + 1] = e
      /\ \A j \in 1 .. Len(t) : longer[j] = t[j]
      /\ Len(s) \in Nat /\ Len(t) \in Nat
  OBVIOUS
<1>2. /\ both \in Seq(Event) /\ Len(both) = Len(s) + Len(t)
      /\ \A j \in 1 .. Len(s) + Len(t) : both[j] = IF j <= Len(s) THEN s[j] ELSE t[j - Len(s)]
  BY ConcatIndex
<1> HIDE DEF longer, both
<1> DEFINE left == s \o longer
           right == Append(both, e)
<1>3. /\ left \in Seq(Event) /\ Len(left) = Len(s) + (Len(t) + 1)
      /\ \A j \in 1 .. Len(s) + (Len(t) + 1) : left[j] = IF j <= Len(s) THEN s[j] ELSE longer[j - Len(s)]
  <2>1. /\ left \in Seq(Event) /\ Len(left) = Len(s) + Len(longer)
        /\ \A j \in 1 .. Len(s) + Len(longer) : left[j] = IF j <= Len(s) THEN s[j] ELSE longer[j - Len(s)]
    <3>1. longer \in Seq(Event)
      BY <1>1
    <3>2. QED
      BY <3>1, ConcatIndex
  <2>2. QED
    BY <1>1, <2>1
<1>4. /\ right \in Seq(Event) /\ Len(right) = Len(s) + Len(t) + 1
      /\ \A j \in 1 .. Len(s) + Len(t) : right[j] = both[j]
      /\ right[Len(s) + Len(t) + 1] = e
  <2>1. /\ right \in Seq(Event) /\ Len(right) = Len(both) + 1 /\ right[Len(both) + 1] = e
        /\ \A j \in 1 .. Len(both) : right[j] = both[j]
    <3>1. both \in Seq(Event)
      BY <1>2
    <3>2. QED
      BY <3>1
  <2>2. QED
    BY <1>2, <2>1
<1> HIDE DEF left, right
<1>5. ASSUME NEW j \in 1 .. Len(s) + (Len(t) + 1) PROVE left[j] = right[j]
  <2>1. CASE j <= Len(s)
    <3>1. j \in 1 .. Len(s) + Len(t)
      BY <1>1, <2>1
    <3>2. left[j] = s[j]
      BY <1>3, <2>1
    <3>3. right[j] = s[j]
      BY <1>2, <1>4, <2>1, <3>1
    <3>4. QED
      BY <3>2, <3>3
  <2>2. CASE Len(s) < j /\ j <= Len(s) + Len(t)
    <3>1. j \in 1 .. Len(s) + Len(t) /\ j - Len(s) \in 1 .. Len(t) /\ ~(j <= Len(s))
      BY <1>1, <2>2
    <3>2. left[j] = t[j - Len(s)]
      BY <1>1, <1>3, <3>1
    <3>3. right[j] = t[j - Len(s)]
      BY <1>2, <1>4, <3>1
    <3>4. QED
      BY <3>2, <3>3
  <2>3. CASE j = Len(s) + Len(t) + 1
    <3>1. j - Len(s) = Len(t) + 1 /\ ~(j <= Len(s))
      BY <1>1, <2>3
    <3>2. QED
      BY <1>1, <1>3, <1>4, <2>3, <3>1
  <2>4. QED
    BY <1>1, <2>1, <2>2, <2>3
<1>6. Len(left) = Len(right)
  BY <1>1, <1>3, <1>4
<1>7. left = right
  BY <1>3, <1>4, <1>5, <1>6
<1>8. QED
  BY <1>7 DEF left, right, longer, both

\* Of the events about a name one comes last.
LEMMA LastExists ==
  ASSUME NEW events \in Seq(Event), NEW n, NEW i \in DOMAIN events, events[i].name = n
  PROVE  \E j \in DOMAIN events : LastOf(events, n, j) /\ i <= j
<1> DEFINE left == {Len(events) - k : k \in {l \in DOMAIN events : events[l].name = n}}
<1>1. Len(events) \in Nat /\ DOMAIN events = 1 .. Len(events)
  OBVIOUS
<1>2. left \in SUBSET Nat /\ Len(events) - i \in left
  BY <1>1
<1> HIDE DEF left
<1>3. PICK m \in left : \A k \in left : m <= k
  <2> DEFINE before == OpToRel(<, Nat)
  <2>1. \A k, l \in Nat : <<k, l>> \in before <=> k < l
    BY DEF OpToRel
  <2>2. IsWellFoundedOn(before, Nat)
    BY NatLessThanWellFounded
  <2> HIDE DEF before
  <2>3. PICK m \in left : \A k \in left : ~ (<<k, m>> \in before)
    <3>1. left \subseteq Nat /\ left # {}
      BY <1>2
    <3>2. QED
      BY <2>2, <3>1, WFMin, Zenon
  <2>4. ASSUME NEW k \in left PROVE m <= k
    <3>1. k \in Nat /\ m \in Nat
      BY <1>2
    <3>2. ~ (k < m)
      BY <2>1, <2>3, <3>1, Zenon
    <3>3. QED
      BY <3>1, <3>2
  <2>5. QED
    BY <2>4
<1>4. PICK j \in DOMAIN events : events[j].name = n /\ m = Len(events) - j
  BY <1>3 DEF left
<1>5. ASSUME NEW k \in DOMAIN events, events[k].name = n PROVE k <= j
  <2>1. Len(events) - k \in left
    BY <1>5 DEF left
  <2>2. Len(events) - j <= Len(events) - k
    BY <1>3, <1>4, <2>1
  <2>3. QED
    BY <1>1, <2>2
<1>6. QED
  BY <1>4, <1>5 DEF LastOf

\* So an event that is told comes last.
LEMMA ToldLast ==
  ASSUME RosterTyped, NEW e \in Event, link' = link, outgoing' = Append(outgoing, e)
  PROVE  /\ OnItsWay' = Append(OnItsWay, e) /\ outgoing' \in Seq(Event)
         /\ \A i \in DOMAIN OnItsWay' : OnItsWay'[i] = e \/ \E j \in DOMAIN OnItsWay : OnItsWay'[i] = OnItsWay[j]
<1>1. link.wire \in Seq(Event) /\ outgoing \in Seq(Event) /\ OnItsWay \in Seq(Event)
  BY OnItsWayIsTyped
<1>2. link.wire \o Append(outgoing, e) = Append(link.wire \o outgoing, e)
  BY <1>1, AppendedBehind
<1>3. OnItsWay' = Append(OnItsWay, e)
  BY <1>2 DEF OnItsWay
<1>4. \A i \in DOMAIN Append(OnItsWay, e) :
        Append(OnItsWay, e)[i] = e \/ \E j \in DOMAIN OnItsWay : Append(OnItsWay, e)[i] = OnItsWay[j]
  BY <1>1
<1>5. QED
  BY <1>1, <1>3, <1>4

\* An agent stays known by the names it was known by.
LEMMA KnownStays ==
  ASSUME NEW a \in Agent, NEW n, KnownBy(agents, raced, a, n), raced \subseteq raced',
         agents'[a].duty # "unborn",
         agents'[a].name = agents[a].name \/ {agents[a].name, agents'[a].name} \subseteq raced'
  PROVE  KnownBy(agents', raced', a, n)
BY DEF KnownBy

\* What a step must do for the names to stay fit.
LEMMA NamesKeep ==
  ASSUME RosterInv, raced \subseteq raced',
         \A a \in Agent : agents[a].duty # "unborn" =>
            /\ agents'[a].duty # "unborn"
            /\ agents'[a].name = agents[a].name \/ {agents[a].name, agents'[a].name} \subseteq raced',
         \A a \in Agent : a \in Living(agents') => OnlyHas(agents', a, agents'[a].name),
         \A i \in DOMAIN OnItsWay' :
            \/ KnownBy(agents', raced', OnItsWay'[i].agent, OnItsWay'[i].name)
            \/ \E j \in DOMAIN OnItsWay : OnItsWay'[i] = OnItsWay[j],
         \A n \in AgentName, a \in Agent :
            listed'[n].id = a => listed[n].id = a \/ KnownBy(agents', raced', a, n),
         \A a \in Agent : load'.seen[a].duty # "unborn" =>
            load.seen[a].duty # "unborn" \/ agents'[a].duty # "unborn",
         \A edit \in edits' : edit \in edits \/ agents'[edit.agent].duty # "unborn"
  PROVE  NamesAreFit'
<1>1. /\ \A i \in DOMAIN OnItsWay : KnownBy(agents, raced, OnItsWay[i].agent, OnItsWay[i].name)
      /\ \A n \in AgentName, a \in Agent : listed[n].id = a => KnownBy(agents, raced, a, n)
      /\ \A a \in Agent : load.seen[a].duty # "unborn" => agents[a].duty # "unborn"
      /\ \A edit \in edits : agents[edit.agent].duty # "unborn" /\ edit.agent \in Agent
      /\ OnItsWay \in Seq(Event)
  BY OnItsWayIsTyped DEF RosterInv, NamesAreFit, RosterTyped, RosterTypeOK
<1>2. ASSUME NEW a \in Agent, NEW n, KnownBy(agents, raced, a, n) PROVE KnownBy(agents', raced', a, n)
  <2>1. agents[a].duty # "unborn"
    BY <1>2 DEF KnownBy
  <2>2. QED
    BY <1>2, <2>1, KnownStays
<1>3. ASSUME NEW i \in DOMAIN OnItsWay'
      PROVE  KnownBy(agents', raced', OnItsWay'[i].agent, OnItsWay'[i].name)
  <2>1. ASSUME NEW j \in DOMAIN OnItsWay
        PROVE  KnownBy(agents', raced', OnItsWay[j].agent, OnItsWay[j].name)
    <3>1. OnItsWay[j] \in Event
      BY <1>1
    <3>2. OnItsWay[j].agent \in Agent
      BY <3>1 DEF Event
    <3>3. QED
      BY <1>1, <1>2, <3>2
  <2>2. QED
    BY <2>1
<1>4. \A n \in AgentName, a \in Agent : listed'[n].id = a => KnownBy(agents', raced', a, n)
  BY <1>1, <1>2
<1>5. \A a \in Agent : load'.seen[a].duty # "unborn" => agents'[a].duty # "unborn"
  BY <1>1
<1>6. \A edit \in edits' : agents'[edit.agent].duty # "unborn"
  BY <1>1
<1>7. QED
  BY <1>3, <1>4, <1>5, <1>6 DEF NamesAreFit

\* And for the types.
LEMMA TypesKeep ==
  ASSUME RosterInv, RosterTypeOK', link' \in LinkType, load' \in LoadType,
         \A i \in DOMAIN OnItsWay' :
            \/ OnItsWay'[i].type = "start" <=> OnItsWay'[i].profile # NoProfile
            \/ \E j \in DOMAIN OnItsWay : OnItsWay'[i] = OnItsWay[j],
         \A n \in AgentName : ~listed'[n].registered => listed'[n] \in {Unlisted, listed[n]},
         ~link'.up => link'.wire = <<>>
  PROVE  RosterTyped'
<1>1. /\ \A i \in DOMAIN OnItsWay : OnItsWay[i].type = "start" <=> OnItsWay[i].profile # NoProfile
      /\ \A n \in AgentName : ~listed[n].registered => listed[n] = Unlisted
  BY DEF RosterInv, RosterTyped
<1>2. \A i \in DOMAIN OnItsWay' : OnItsWay'[i].type = "start" <=> OnItsWay'[i].profile # NoProfile
  BY <1>1
<1>3. \A n \in AgentName : ~listed'[n].registered => listed'[n] = Unlisted
  BY <1>1
<1>4. QED
  BY <1>2, <1>3 DEF RosterTyped

\* A name that a step has nothing to do with.
LEMMA OthersKeep ==
  ASSUME RosterInv, NEW n \in AgentName, n \notin raced, SameFor(agents, agents', n),
         NEW f, Follows(OnItsWay', OnItsWay, n, f), OnItsWay' \in Seq(Event)
  PROVE  /\ EventsFit(agents', OnItsWay', n)
         /\ Whole(OnItsWay', OnItsWay, n, f) /\ n \notin lost /\ load.at = "done"
              => EntryFits(agents', listed[n], OnItsWay', n)
<1>1. OnItsWay \in Seq(Event)
  BY OnItsWayIsTyped DEF RosterInv
<1>2. EventsFit(agents', OnItsWay', n)
  <2>1. EventsFit(agents, OnItsWay, n)
    BY DEF RosterInv
  <2>2. EventsFit(agents, OnItsWay', n)
    BY <1>1, <2>1, EventsFollow
  <2>3. QED
    BY <2>2, RowsRest
<1>3. ASSUME Whole(OnItsWay', OnItsWay, n, f), n \notin lost, load.at = "done"
      PROVE  EntryFits(agents', listed[n], OnItsWay', n)
  <2>1. EntryFits(agents, listed[n], OnItsWay, n)
    BY <1>3 DEF RosterInv
  <2>2. EntryFits(agents, listed[n], OnItsWay', n)
    BY <1>1, <1>3, <2>1, EntryFollows
  <2>3. QED
    BY <2>2, RowsRest
<1>4. QED
  BY <1>2, <1>3
\* A row changed, and its event told.
LEMMA RowTold ==
  ASSUME RosterInv, RosterTypeOK', NEW a \in Agent, NEW e \in Event, e.agent = a,
         link' = link, load' = load, listed' = listed, lost' = lost,
         outgoing' = Append(outgoing, e), edits' \subseteq edits, raced \subseteq raced',
         \A b \in Agent : b # a => agents'[b] = agents[b],
         agents'[a].duty # "unborn", agents'[a].name = e.name,
         agents[a].duty # "unborn" /\ agents[a].name # e.name
           => {agents[a].name, e.name} \subseteq raced',
         a \in Living(agents') => \A b \in Living(agents) : b # a => agents[b].name # e.name,
         e.type = "start" <=> e.profile # NoProfile,
         e.name \notin raced' =>
           /\ TellsTheRow(agents', e, e.name)
           /\ \A i \in DOMAIN OnItsWay : LastOf(OnItsWay, e.name, i) =>
                /\ OnItsWay[i].type = "stop" => e.type = "start"
                /\ e.type = "stop" => OnItsWay[i].type # "stop" /\ OnItsWay[i].agent = e.agent
           /\ \A b \in Agent : Serves(agents', b, e.name) =>
                /\ e.type = "start" => e.profile = agents'[b].profile
                /\ e.type = "duty_on" =>
                     \A i \in DOMAIN OnItsWay : StartStands(OnItsWay, e.name, i) =>
                       OnItsWay[i].profile = agents'[b].profile
           /\ load.at = "done" /\ e.name \notin lost =>
                /\ \A b \in Agent :
                     Serves(agents', b, e.name) /\ e.type = "duty_on" /\ NoNews(OnItsWay, e.name)
                       => listed[e.name].profile \in {agents'[b].profile, NoProfile}
                /\ e.type = "stop" /\ Untold(OnItsWay, e.name) /\ listed[e.name].registered
                     => listed[e.name].id = e.agent
  PROVE  RosterInv'
<1>1. /\ OnItsWay' = Append(OnItsWay, e) /\ OnItsWay \in Seq(Event) /\ OnItsWay' \in Seq(Event)
      /\ \A i \in DOMAIN OnItsWay' : OnItsWay'[i] = e \/ \E j \in DOMAIN OnItsWay : OnItsWay'[i] = OnItsWay[j]
  <2>1. RosterTyped
    BY DEF RosterInv
  <2>2. OnItsWay \in Seq(Event)
    BY <2>1, OnItsWayIsTyped
  <2>3. Append(OnItsWay, e) \in Seq(Event)
    BY <2>2
  <2>4. QED
    BY <2>1, <2>2, <2>3, ToldLast
<1>2. KnownBy(agents', raced', e.agent, e.name)
  BY DEF KnownBy
<1>3. \A b \in Agent : b \in Living(agents') => OnlyHas(agents', b, agents'[b].name)
  <2>1. \A b, c \in Living(agents) : agents[b].name = agents[c].name => b = c
    BY DEF RosterInv, NamesAreFit, OnlyHas, LivesAs, Living
  <2>2. ASSUME NEW b \in Living(agents'), NEW c \in Living(agents'), agents'[b].name = agents'[c].name
        PROVE  b = c
    <3>1. \A d \in Living(agents') : d # a => d \in Living(agents) /\ agents'[d] = agents[d]
      BY DEF Living
    <3>2. QED
      BY <2>1, <2>2, <3>1
  <2>3. QED
    BY <2>2 DEF OnlyHas, LivesAs, Living
<1>4. NamesAreFit'
  <2>1. \A b \in Agent : agents[b].duty # "unborn" =>
            /\ agents'[b].duty # "unborn"
            /\ agents'[b].name = agents[b].name \/ {agents[b].name, agents'[b].name} \subseteq raced'
    OBVIOUS
  <2>2. \A i \in DOMAIN OnItsWay' :
            \/ KnownBy(agents', raced', OnItsWay'[i].agent, OnItsWay'[i].name)
            \/ \E j \in DOMAIN OnItsWay : OnItsWay'[i] = OnItsWay[j]
    BY <1>1, <1>2
  <2>3. /\ \A n \in AgentName, b \in Agent :
             listed'[n].id = b => listed[n].id = b \/ KnownBy(agents', raced', b, n)
        /\ \A b \in Agent : load'.seen[b].duty # "unborn" =>
             load.seen[b].duty # "unborn" \/ agents'[b].duty # "unborn"
        /\ \A edit \in edits' : edit \in edits \/ agents'[edit.agent].duty # "unborn"
    OBVIOUS
  <2>4. QED
    BY <1>3, <2>1, <2>2, <2>3, NamesKeep
<1>5. RosterTyped'
  <2>1. link' \in LinkType /\ load' \in LoadType /\ (~link'.up => link'.wire = <<>>)
    BY DEF RosterInv, RosterTyped
  <2>2. \A i \in DOMAIN OnItsWay' :
            \/ OnItsWay'[i].type = "start" <=> OnItsWay'[i].profile # NoProfile
            \/ \E j \in DOMAIN OnItsWay : OnItsWay'[i] = OnItsWay[j]
    BY <1>1
  <2>3. \A n \in AgentName : ~listed'[n].registered => listed'[n] \in {Unlisted, listed[n]}
    OBVIOUS
  <2>4. QED
    BY <2>1, <2>2, <2>3, TypesKeep
<1>6. ASSUME NEW n \in AgentName, n \notin raced', n # e.name
      PROVE  /\ EventsFit(agents', OnItsWay', n)
             /\ load'.at = "done" /\ n \notin lost' => EntryFits(agents', listed'[n], OnItsWay', n)
  <2>1. SameFor(agents, agents', n)
    <3>1. ~LivesAs(agents', a, n)
      BY <1>6 DEF LivesAs
    <3>2. ~LivesAs(agents, a, n)
      BY <1>6 DEF LivesAs
    <3>3. QED
      BY <3>1, <3>2 DEF SameFor, Serves, LivesAs
  <2>2. PICK f : Follows(OnItsWay', OnItsWay, n, f) /\ Whole(OnItsWay', OnItsWay, n, f)
    BY <1>1, <1>6, AppendFollows
  <2>3. n \notin raced
    BY <1>6
  <2>4. QED
    BY <1>1, <2>1, <2>2, <2>3, OthersKeep
<1>7. ASSUME e.name \notin raced'
      PROVE  /\ EventsFit(agents', OnItsWay', e.name)
             /\ load'.at = "done" /\ e.name \notin lost' =>
                  EntryFits(agents', listed'[e.name], OnItsWay', e.name)
  <2>1. e.name \in AgentName /\ EventsFit(agents, OnItsWay, e.name)
    <3>1. e.name \in AgentName /\ e.name \notin raced
      BY <1>7 DEF Event
    <3>2. QED
      BY <3>1 DEF RosterInv
  <2>2. EventsFit(agents', Append(OnItsWay, e), e.name)
    BY <1>1, <1>7, <2>1, EventAppended
  <2>3. ASSUME load.at = "done", e.name \notin lost
        PROVE  EntryFits(agents', listed[e.name], Append(OnItsWay, e), e.name)
    BY <1>1, <1>7, <2>3, EntryAppended
  <2>4. QED
    BY <1>1, <2>2, <2>3
<1>8. QED
  BY <1>4, <1>5, <1>6, <1>7 DEF RosterInv

\* A row changed that no event need tell of.
LEMMA RowKept ==
  ASSUME RosterInv, RosterTypeOK', UNCHANGED <<link, load, listed, lost, outgoing>>,
         raced \subseteq raced',
         \A b \in Agent : agents[b].duty # "unborn" =>
            /\ agents'[b].duty # "unborn"
            /\ agents'[b].name = agents[b].name \/ {agents[b].name, agents'[b].name} \subseteq raced',
         \A b \in Agent : b \in Living(agents') => OnlyHas(agents', b, agents'[b].name),
         \A edit \in edits' : edit \in edits \/ agents'[edit.agent].duty # "unborn",
         \A n \in AgentName \ raced' : SameFor(agents, agents', n)
  PROVE  RosterInv'
<1>1. OnItsWay' = OnItsWay /\ OnItsWay \in Seq(Event)
  BY OnItsWayIsTyped DEF OnItsWay, RosterInv
<1>2. NamesAreFit'
  BY <1>1, NamesKeep
<1>3. RosterTyped'
  <2>1. link' \in LinkType /\ load' \in LoadType /\ (~link'.up => link'.wire = <<>>)
    BY DEF RosterInv, RosterTyped
  <2>2. QED
    BY <1>1, <2>1, TypesKeep
<1>4. ASSUME NEW n \in AgentName, n \notin raced'
      PROVE  /\ EventsFit(agents', OnItsWay', n)
             /\ load'.at = "done" /\ n \notin lost' => EntryFits(agents', listed'[n], OnItsWay', n)
  <2>1. SameFor(agents, agents', n) /\ n \notin raced
    BY <1>4
  <2>2. EventsFit(agents, OnItsWay, n)
    BY <2>1 DEF RosterInv
  <2>3. load.at = "done" /\ n \notin lost => EntryFits(agents, listed[n], OnItsWay, n)
    BY <2>1 DEF RosterInv
  <2>4. QED
    BY <1>1, <2>1, <2>2, <2>3, RowsRest
<1>5. QED
  BY <1>2, <1>3, <1>4 DEF RosterInv
\* Who lives has its name alone, and what is said last of it is said of its agent.
LEMMA LivingHas ==
  ASSUME RosterInv, NEW a \in Living(agents)
  PROVE  /\ agents[a] \in AgentRow /\ agents[a].name \in AgentName /\ agents[a].duty \in {"on", "off"}
         /\ a \in Agent
         /\ LivesAs(agents, a, agents[a].name) /\ OnlyHas(agents, a, agents[a].name)
<1>1. a \in Agent /\ agents[a].duty \in {"on", "off"}
  BY DEF Living
<1>2. agents[a] \in AgentRow
  BY <1>1 DEF RosterInv, RosterTyped, RosterTypeOK
<1>3. OnlyHas(agents, a, agents[a].name)
  BY <1>1 DEF RosterInv, NamesAreFit
<1>4. agents[a].name \in AgentName
  BY <1>2 DEF AgentRow
<1>5. QED
  BY <1>1, <1>2, <1>3, <1>4 DEF LivesAs

\* The last event about the name of a living agent is about this agent, and no stop.
LEMMA LastSaid ==
  ASSUME RosterInv, NEW a \in Living(agents), agents[a].name \notin raced,
         NEW i \in DOMAIN OnItsWay, LastOf(OnItsWay, agents[a].name, i)
  PROVE  /\ OnItsWay[i].type # "stop" /\ OnItsWay[i].agent = a
         /\ OnItsWay[i].type \in {"start", "duty_on"} => Serves(agents, a, agents[a].name)
<1> DEFINE n == agents[a].name
<1>1. /\ n \in AgentName /\ a \in Agent
      /\ LivesAs(agents, a, n) /\ OnlyHas(agents, a, n)
  BY LivingHas
<1>2. TellsTheRow(agents, OnItsWay[i], n)
  BY <1>1 DEF RosterInv, EventsFit
<1>3. OnItsWay[i].agent \in Agent /\ OnItsWay[i].type \in {"start", "duty_on", "duty_off", "stop"}
  <2>1. OnItsWay[i] \in Event
    BY OnItsWayIsTyped DEF RosterInv
  <2>2. QED
    BY <2>1 DEF Event
<1>4. OnItsWay[i].type # "stop"
  BY <1>1, <1>2 DEF TellsTheRow, NobodyHas
<1>5. OnItsWay[i].type = "duty_off" => LivesAs(agents, OnItsWay[i].agent, n)
  BY <1>2 DEF TellsTheRow
<1>6. OnItsWay[i].type \in {"start", "duty_on"} =>
        Serves(agents, OnItsWay[i].agent, n) /\ LivesAs(agents, OnItsWay[i].agent, n)
  BY <1>2 DEF TellsTheRow, Serves, LivesAs
<1>7. OnItsWay[i].agent = a
  BY <1>1, <1>3, <1>4, <1>5, <1>6 DEF OnlyHas
<1>8. QED
  BY <1>4, <1>6, <1>7

\* POST /agents (routes/agents-public.ts), and the start it tells the daemon.
LEMMA CreateKeeps ==
  ASSUME RosterInv, NEW a \in Agent, NEW n \in AgentName, NEW p \in Profile, CreateAgent(a, n, p)
  PROVE  RosterInv'
<1> DEFINE e == [type |-> "start", agent |-> a, name |-> n, profile |-> p]
<1>0. RosterTypeOK /\ agents \in [Agent -> AgentRow]
  BY DEF RosterInv, RosterTyped, RosterTypeOK
<1>1. /\ agents'[a] = [duty |-> "on", name |-> n, profile |-> p]
      /\ \A b \in Agent : b # a => agents'[b] = agents[b]
      /\ agents[a].duty = "unborn" /\ FreeName(n)
      /\ UNCHANGED <<edits, link, listed, load, outages, lost, raced>>
      /\ agents' \in [Agent -> AgentRow]
  BY <1>0 DEF CreateAgent, AgentRow
<1>2. e \in Event /\ outgoing' = Append(outgoing, e)
  <2>1. e \in Event
    BY DEF Event
  <2>2. outgoing' = Append(outgoing, [type |-> "start", agent |-> a, name |-> agents'[a].name, profile |-> p])
    BY DEF CreateAgent, Tell
  <2>3. agents'[a].name = n
    BY <1>1
  <2>4. QED
    BY <2>1, <2>2, <2>3
<1>3. RosterTypeOK'
  <2>1. requested' \in 0 .. MaxRequestsForAgents
    BY <1>0, RosterAssumption DEF CreateAgent, Requested, RosterTypeOK
  <2>2. outgoing' \in Seq(Event)
    BY <1>0, <1>2 DEF RosterTypeOK
  <2>3. QED
    BY <1>0, <1>1, <2>1, <2>2 DEF RosterTypeOK
<1>4. e.type = "start" /\ e.agent = a /\ e.name = n /\ e.profile = p /\ e.profile # NoProfile
  BY RosterAssumption
<1> HIDE DEF e
<1>5. \A b \in Agent : Serves(agents', b, n) => b = a
  BY <1>1 DEF Serves, FreeName, Living
<1>6. TellsTheRow(agents', e, n)
  BY <1>1, <1>4 DEF TellsTheRow, Serves
<1>7. \A b \in Living(agents) : b # a => agents[b].name # e.name
  BY <1>1, <1>4 DEF FreeName
<1>8. \A b \in Agent : Serves(agents', b, n) => e.profile = agents'[b].profile
  BY <1>1, <1>4, <1>5
<1>9. QED
  BY <1>1, <1>2, <1>3, <1>4, <1>6, <1>7, <1>8, RowTold

\* setAgentDuty (lib/agent-duty.ts).
LEMMA DutyKeeps ==
  ASSUME RosterInv, NEW a \in Agent, NEW duty \in {"on", "off"}, SetAgentDuty(a, duty)
  PROVE  RosterInv'
<1> DEFINE n == agents[a].name
           e == [type |-> IF duty = "on" THEN "duty_on" ELSE "duty_off", agent |-> a,
                 name |-> n, profile |-> NoProfile]
<1>0. RosterTypeOK /\ agents \in [Agent -> AgentRow]
  BY DEF RosterInv, RosterTyped, RosterTypeOK
<1>1. /\ a \in Living(agents) /\ n \in AgentName /\ agents[a].duty \in {"on", "off"}
      /\ LivesAs(agents, a, n) /\ OnlyHas(agents, a, n)
  BY LivingHas DEF SetAgentDuty
<1>2. /\ agents'[a].duty = duty /\ agents'[a].name = n /\ agents'[a].profile = agents[a].profile
      /\ \A b \in Agent : b # a => agents'[b] = agents[b]
      /\ UNCHANGED <<edits, link, listed, load, outages, lost, raced>>
      /\ agents' \in [Agent -> AgentRow]
  BY <1>0 DEF SetAgentDuty, AgentRow
<1>3. e \in Event /\ outgoing' = Append(outgoing, e)
  <2>1. e \in Event
    BY <1>1 DEF Event
  <2>2. outgoing' = Append(outgoing, [type |-> IF duty = "on" THEN "duty_on" ELSE "duty_off", agent |-> a,
                                      name |-> agents'[a].name, profile |-> NoProfile])
    BY DEF SetAgentDuty, Tell
  <2>3. QED
    BY <1>2, <2>1, <2>2
<1>4. RosterTypeOK'
  <2>1. requested' \in 0 .. MaxRequestsForAgents
    BY <1>0, RosterAssumption DEF SetAgentDuty, Requested, RosterTypeOK
  <2>2. outgoing' \in Seq(Event)
    BY <1>0, <1>3 DEF RosterTypeOK
  <2>3. QED
    BY <1>0, <1>2, <2>1, <2>2 DEF RosterTypeOK
<1>5. /\ e.type = IF duty = "on" THEN "duty_on" ELSE "duty_off"
      /\ e.agent = a /\ e.name = n /\ e.profile = NoProfile
  OBVIOUS
<1> HIDE DEF e
<1>6. \A b \in Agent : Serves(agents', b, n) => b = a /\ duty = "on"
  BY <1>1, <1>2 DEF Serves, LivesAs, OnlyHas
<1>7. TellsTheRow(agents', e, n)
  BY <1>2, <1>5 DEF TellsTheRow, Serves, LivesAs
<1>8. \A b \in Living(agents) : b # a => agents[b].name # n
  BY <1>1 DEF Living, OnlyHas, LivesAs
<1>9. ASSUME n \notin raced, NEW i \in DOMAIN OnItsWay, LastOf(OnItsWay, n, i)
      PROVE  OnItsWay[i].type # "stop" /\ (OnItsWay[i].type \in {"start", "duty_on"} => Serves(agents, a, n))
  BY <1>1, <1>9, LastSaid
<1>10. OnItsWay \in Seq(Event) /\ DOMAIN OnItsWay \subseteq Nat
  BY OnItsWayIsTyped DEF RosterInv
<1>11. ASSUME n \notin raced, NEW i \in DOMAIN OnItsWay, StartStands(OnItsWay, n, i)
       PROVE  OnItsWay[i].profile = agents[a].profile
  <2>1. OnItsWay[i].name = n
    BY <1>11 DEF StartStands
  <2>2. PICK j \in DOMAIN OnItsWay : LastOf(OnItsWay, n, j) /\ i <= j
    BY <1>10, <2>1, LastExists
  <2>3. OnItsWay[j].type \in {"start", "duty_on"}
    BY <1>10, <1>11, <2>2 DEF StartStands, LastOf
  <2>4. Serves(agents, a, n)
    BY <1>9, <1>11, <2>2, <2>3
  <2>5. QED
    BY <1>1, <1>11, <2>4 DEF RosterInv, EventsFit
<1>12. ASSUME n \notin raced, n \notin lost, load.at = "done", NoNews(OnItsWay, n)
       PROVE  listed[n].profile \in {agents[a].profile, NoProfile}
  <2>1. EntryFits(agents, listed[n], OnItsWay, n)
    BY <1>1, <1>12 DEF RosterInv
  <2>2. CASE Serves(agents, a, n)
    BY <1>12, <2>1, <2>2 DEF EntryFits
  <2>3. CASE ~Serves(agents, a, n)
    <3>1. Untold(OnItsWay, n)
      <4>1. SUFFICES ASSUME NEW i \in DOMAIN OnItsWay, OnItsWay[i].name = n PROVE FALSE
        BY DEF Untold
      <4>2. PICK j \in DOMAIN OnItsWay : LastOf(OnItsWay, n, j) /\ i <= j
        BY <1>10, <4>1, LastExists
      <4>3. OnItsWay[j].type = "duty_on"
        BY <1>12, <4>2 DEF NoNews, LastOf
      <4>4. QED
        BY <1>9, <1>12, <2>3, <4>2, <4>3
    <3>2. ~listed[n].registered
      <4>1. \A b \in Agent : ~Serves(agents, b, n)
        BY <1>1, <2>3 DEF Serves, LivesAs, OnlyHas
      <4>2. QED
        BY <2>1, <3>1, <4>1 DEF EntryFits
    <3>3. listed[n] = Unlisted
      BY <1>1, <3>2 DEF RosterInv, RosterTyped
    <3>4. QED
      BY <3>3 DEF Unlisted
  <2>4. QED
    BY <2>2, <2>3
<1>13. e.type # "start" /\ e.type # "stop"
  BY <1>5
<1>14. agents[a].duty # "unborn" /\ agents'[a].duty # "unborn" /\ agents'[a].name = e.name /\ agents[a].name = e.name
  BY <1>1, <1>2, <1>5
<1>15. e.name \notin raced' =>
           /\ TellsTheRow(agents', e, e.name)
           /\ \A i \in DOMAIN OnItsWay : LastOf(OnItsWay, e.name, i) =>
                /\ OnItsWay[i].type = "stop" => e.type = "start"
                /\ e.type = "stop" => OnItsWay[i].type # "stop" /\ OnItsWay[i].agent = e.agent
           /\ \A b \in Agent : Serves(agents', b, e.name) =>
                /\ e.type = "start" => e.profile = agents'[b].profile
                /\ e.type = "duty_on" =>
                     \A i \in DOMAIN OnItsWay : StartStands(OnItsWay, e.name, i) =>
                       OnItsWay[i].profile = agents'[b].profile
           /\ load.at = "done" /\ e.name \notin lost =>
                /\ \A b \in Agent :
                     Serves(agents', b, e.name) /\ e.type = "duty_on" /\ NoNews(OnItsWay, e.name)
                       => listed[e.name].profile \in {agents'[b].profile, NoProfile}
                /\ e.type = "stop" /\ Untold(OnItsWay, e.name) /\ listed[e.name].registered
                     => listed[e.name].id = e.agent
  BY <1>2, <1>5, <1>6, <1>7, <1>9, <1>11, <1>12, <1>13
<1>16. (e.type = "start" <=> e.profile # NoProfile) /\ e.agent = a
  BY <1>5
<1>17. QED
  BY <1>2, <1>3, <1>4, <1>5, <1>8, <1>14, <1>15, <1>16, RowTold
\* DELETE /agents/:agentId (routes/agents-public.ts): the stop is told of whoever was there.
LEMMA DeleteKeeps ==
  ASSUME RosterInv, NEW a \in Agent, DeleteAgent(a)
  PROVE  RosterInv'
<1> DEFINE n == agents[a].name
           e == [type |-> "stop", agent |-> a, name |-> n, profile |-> NoProfile]
<1>0. RosterTypeOK /\ agents \in [Agent -> AgentRow]
  BY DEF RosterInv, RosterTyped, RosterTypeOK
<1>1. /\ a \in Living(agents) /\ n \in AgentName /\ agents[a].duty \in {"on", "off"}
      /\ LivesAs(agents, a, n) /\ OnlyHas(agents, a, n)
  BY LivingHas DEF DeleteAgent
<1>2. /\ agents'[a].duty = "gone" /\ agents'[a].name = n
      /\ \A b \in Agent : b # a => agents'[b] = agents[b]
      /\ UNCHANGED <<edits, link, listed, load, outages, lost, raced>>
      /\ agents' \in [Agent -> AgentRow]
  BY <1>0 DEF DeleteAgent, AgentRow
<1>3. e \in Event /\ outgoing' = Append(outgoing, e)
  <2>1. e \in Event
    BY <1>1 DEF Event
  <2>2. outgoing' = Append(outgoing, [type |-> "stop", agent |-> a, name |-> agents'[a].name,
                                      profile |-> NoProfile])
    BY DEF DeleteAgent, Tell
  <2>3. QED
    BY <1>2, <2>1, <2>2
<1>4. RosterTypeOK'
  <2>1. requested' \in 0 .. MaxRequestsForAgents
    BY <1>0, RosterAssumption DEF DeleteAgent, Requested, RosterTypeOK
  <2>2. outgoing' \in Seq(Event)
    BY <1>0, <1>3 DEF RosterTypeOK
  <2>3. QED
    BY <1>0, <1>2, <2>1, <2>2 DEF RosterTypeOK
<1>5. e.type = "stop" /\ e.agent = a /\ e.name = n /\ e.profile = NoProfile
  OBVIOUS
<1> HIDE DEF e
<1>6. NobodyHas(agents', n)
  <2>1. ASSUME NEW b \in Agent, LivesAs(agents', b, n) PROVE FALSE
    <3>1. b # a
      BY <1>2, <2>1 DEF LivesAs
    <3>2. LivesAs(agents, b, n)
      BY <1>2, <2>1, <3>1 DEF LivesAs
    <3>3. QED
      BY <1>1, <3>1, <3>2 DEF OnlyHas
  <2>2. QED
    BY <2>1 DEF NobodyHas
<1>7. TellsTheRow(agents', e, n)
  BY <1>5, <1>6 DEF TellsTheRow
<1>8. \A b \in Agent : ~Serves(agents', b, n)
  BY <1>6 DEF NobodyHas, Serves, LivesAs
<1>9. a \notin Living(agents')
  BY <1>2 DEF Living
<1>10. ASSUME n \notin raced, NEW i \in DOMAIN OnItsWay, LastOf(OnItsWay, n, i)
       PROVE  OnItsWay[i].type # "stop" /\ OnItsWay[i].agent = a
  BY <1>1, <1>10, LastSaid
<1>11. ASSUME n \notin raced, n \notin lost, load.at = "done", Untold(OnItsWay, n), listed[n].registered
       PROVE  listed[n].id = a
  <2>1. EntryFits(agents, listed[n], OnItsWay, n)
    BY <1>1, <1>11 DEF RosterInv
  <2>2. PICK b \in Agent : Serves(agents, b, n)
    BY <1>11, <2>1 DEF EntryFits
  <2>3. b = a
    BY <1>1, <2>2 DEF OnlyHas, Serves, LivesAs
  <2>4. QED
    BY <1>11, <2>1, <2>2, <2>3 DEF EntryFits
<1>12. agents[a].duty # "unborn" /\ agents'[a].duty # "unborn" /\ agents'[a].name = e.name /\ agents[a].name = e.name
  BY <1>1, <1>2, <1>5
<1>13. e.name \notin raced' =>
           /\ TellsTheRow(agents', e, e.name)
           /\ \A i \in DOMAIN OnItsWay : LastOf(OnItsWay, e.name, i) =>
                /\ OnItsWay[i].type = "stop" => e.type = "start"
                /\ e.type = "stop" => OnItsWay[i].type # "stop" /\ OnItsWay[i].agent = e.agent
           /\ \A b \in Agent : Serves(agents', b, e.name) =>
                /\ e.type = "start" => e.profile = agents'[b].profile
                /\ e.type = "duty_on" =>
                     \A i \in DOMAIN OnItsWay : StartStands(OnItsWay, e.name, i) =>
                       OnItsWay[i].profile = agents'[b].profile
           /\ load.at = "done" /\ e.name \notin lost =>
                /\ \A b \in Agent :
                     Serves(agents', b, e.name) /\ e.type = "duty_on" /\ NoNews(OnItsWay, e.name)
                       => listed[e.name].profile \in {agents'[b].profile, NoProfile}
                /\ e.type = "stop" /\ Untold(OnItsWay, e.name) /\ listed[e.name].registered
                     => listed[e.name].id = e.agent
  BY <1>2, <1>5, <1>7, <1>8, <1>10, <1>11
<1>14. (e.type = "start" <=> e.profile # NoProfile) /\ e.agent = a
  BY <1>5
<1>15. QED
  BY <1>2, <1>3, <1>4, <1>9, <1>12, <1>13, <1>14, RowTold

\* The SELECT of PATCH /agents/:agentId (routes/agents-public.ts).
LEMMA ReadKeeps ==
  ASSUME RosterInv, NEW a \in Agent, ReadForEdit(a)
  PROVE  RosterInv'
<1>1. RosterTypeOK
  BY DEF RosterInv, RosterTyped
<1>2. RosterTypeOK'
  <2>1. requested' \in 0 .. MaxRequestsForAgents
    BY <1>1, RosterAssumption DEF ReadForEdit, Requested, RosterTypeOK
  <2>2. edits' \subseteq [agent : Agent, wasOff : BOOLEAN]
    <3> DEFINE wasOff == agents[a].duty = "off"
    <3>1. wasOff \in BOOLEAN
      OBVIOUS
    <3>2. edits' = edits \cup {[agent |-> a, wasOff |-> wasOff]}
      BY DEF ReadForEdit
    <3> HIDE DEF wasOff
    <3>3. [agent |-> a, wasOff |-> wasOff] \in [agent : Agent, wasOff : BOOLEAN]
      BY <3>1
    <3>4. QED
      BY <1>1, <3>2, <3>3 DEF RosterTypeOK
  <2>3. QED
    BY <1>1, <2>1, <2>2 DEF ReadForEdit, RosterTypeOK
<1>3. UNCHANGED <<agents, outgoing, link, listed, load, outages, lost, raced>>
  BY DEF ReadForEdit
<1>4. \A edit \in edits' : edit \in edits \/ agents'[edit.agent].duty # "unborn"
  BY <1>3 DEF ReadForEdit, Living
<1>5. \A b \in Agent : b \in Living(agents') => OnlyHas(agents', b, agents'[b].name)
  BY <1>3 DEF RosterInv, NamesAreFit
<1>6. \A n : SameFor(agents, agents', n)
  BY <1>3 DEF SameFor
<1>7. QED
  BY <1>2, <1>3, <1>4, <1>5, <1>6, RowKept

\* Its UPDATE, and the start it pushes to whoever is on duty.
LEMMA WriteKeeps ==
  ASSUME RosterInv, NEW edit \in edits, NEW n \in AgentName, NEW p \in Profile, WriteEdit(edit, n, p)
  PROVE  RosterInv'
<1> DEFINE a == edit.agent
<1>0. RosterTypeOK /\ agents \in [Agent -> AgentRow] /\ a \in Agent /\ edit.wasOff \in BOOLEAN
  BY DEF RosterInv, RosterTyped, RosterTypeOK
<1>1. UNCHANGED <<link, listed, load, requested, outages, lost>> /\ edits' \subseteq edits
  BY DEF WriteEdit
<1>2. CASE agents[a].duty = "gone"
  <2>1. UNCHANGED <<agents, outgoing, raced>>
    BY <1>2 DEF WriteEdit
  <2>2. RosterTypeOK'
    BY <1>0, <1>1, <2>1 DEF RosterTypeOK
  <2>3. \A b \in Agent : b \in Living(agents') => OnlyHas(agents', b, agents'[b].name)
    BY <2>1 DEF RosterInv, NamesAreFit
  <2>4. \A m : SameFor(agents, agents', m)
    BY <2>1 DEF SameFor
  <2>5. QED
    BY <1>1, <2>1, <2>2, <2>3, <2>4, RowKept
<1>3. CASE agents[a].duty # "gone"
  <2>1. /\ n = agents[a].name \/ FreeName(n)
        /\ agents' = [agents EXCEPT ![a].name = n, ![a].profile = p]
        /\ raced' = IF EditRaces(edit, n) THEN raced \cup {n, agents[a].name} ELSE raced
        /\ IF PushesStart(edit) THEN Tell("start", a, p) ELSE UNCHANGED outgoing
    BY <1>3 DEF WriteEdit
  <2>2. a \in Living(agents) /\ agents[a].name \in AgentName
    <3>1. agents[a].duty # "unborn"
      BY DEF RosterInv, NamesAreFit
    <3>2. agents[a].duty \in {"unborn", "on", "off", "gone"} /\ agents[a].name \in AgentName
      BY <1>0 DEF AgentRow
    <3>3. QED
      BY <1>0, <1>3, <3>1, <3>2 DEF Living
  <2>3. /\ agents'[a].duty = agents[a].duty /\ agents'[a].name = n /\ agents'[a].profile = p
        /\ \A b \in Agent : b # a => agents'[b] = agents[b]
        /\ agents' \in [Agent -> AgentRow]
    BY <1>0, <2>1 DEF AgentRow
  <2>4. /\ raced \subseteq raced' /\ raced' \subseteq AgentName
        /\ n # agents[a].name => {agents[a].name, n} \subseteq raced'
    BY <1>0, <2>1, <2>2 DEF EditRaces, RosterTypeOK
  <2>5. \A b \in Living(agents) : b # a => agents[b].name # n
    <3>1. OnlyHas(agents, a, agents[a].name)
      BY <2>2, LivingHas
    <3>2. QED
      BY <2>1, <3>1 DEF FreeName, OnlyHas, LivesAs, Living
  <2>6. a \in Living(agents') /\ agents[a].duty # "unborn" /\ agents'[a].duty # "unborn"
    BY <2>2, <2>3 DEF Living
  <2>7. CASE PushesStart(edit)
    <3> DEFINE e == [type |-> "start", agent |-> a, name |-> n, profile |-> p]
    <3>1. e \in Event /\ outgoing' = Append(outgoing, e)
      <4>1. e \in Event
        BY <1>0 DEF Event
      <4>2. outgoing' = Append(outgoing, [type |-> "start", agent |-> a, name |-> agents'[a].name,
                                          profile |-> p])
        BY <2>1, <2>7 DEF Tell
      <4>3. QED
        BY <2>3, <4>1, <4>2
    <3>2. RosterTypeOK'
      <4>1. outgoing' \in Seq(Event)
        BY <1>0, <3>1 DEF RosterTypeOK
      <4>2. QED
        BY <1>0, <1>1, <2>3, <2>4, <4>1 DEF RosterTypeOK
    <3>3. e.type = "start" /\ e.agent = a /\ e.name = n /\ e.profile = p /\ e.profile # NoProfile
      BY RosterAssumption
    <3> HIDE DEF e
    <3>4. agents[a].duty = "on"
      BY <2>2, <2>7 DEF PushesStart, Living
    <3>5. TellsTheRow(agents', e, n)
      BY <2>3, <3>3, <3>4 DEF TellsTheRow, Serves
    <3>6. \A b \in Agent : Serves(agents', b, n) => e.profile = agents'[b].profile
      <4>1. ASSUME NEW b \in Agent, Serves(agents', b, n), b # a PROVE FALSE
        <5>1. b \in Living(agents) /\ agents[b].name = n
          BY <2>3, <4>1 DEF Serves, Living
        <5>2. QED
          BY <2>5, <4>1, <5>1
      <4>2. QED
        BY <2>3, <3>3, <4>1
    <3>7. QED
      BY <1>0, <1>1, <2>3, <2>4, <2>5, <2>6, <3>1, <3>2, <3>3, <3>5, <3>6, RowTold
  <2>8. CASE ~PushesStart(edit)
    <3>1. outgoing' = outgoing
      BY <2>1, <2>8
    <3>2. RosterTypeOK'
      BY <1>0, <1>1, <2>3, <2>4, <3>1 DEF RosterTypeOK
    <3>3. \A b \in Agent : b \in Living(agents') => OnlyHas(agents', b, agents'[b].name)
      <4>1. \A b, c \in Living(agents) : agents[b].name = agents[c].name => b = c
        BY DEF RosterInv, NamesAreFit, OnlyHas, LivesAs, Living
      <4>2. ASSUME NEW b \in Living(agents'), NEW c \in Living(agents'), agents'[b].name = agents'[c].name
            PROVE  b = c
        <5>1. \A d \in Living(agents') : d # a => d \in Living(agents) /\ agents'[d] = agents[d]
          BY <2>3 DEF Living
        <5>2. QED
          BY <2>3, <2>5, <4>1, <4>2, <5>1
      <4>3. QED
        BY <4>2 DEF OnlyHas, LivesAs, Living
    <3>4. ASSUME NEW m \in AgentName \ raced' PROVE SameFor(agents, agents', m)
      <4>1. CASE n = agents[a].name
        <5>1. CASE m = n
          <6>1. agents[a].duty = "off"
            <7>1. ~EditRaces(edit, n)
              BY <2>1, <3>4, <5>1
            <7>2. agents[a].duty \in {"on", "off"}
              BY <2>2 DEF Living
            <7>3. QED
              BY <2>8, <7>1, <7>2 DEF EditRaces, PushesStart
          <6>2. QED
            BY <2>3, <4>1, <6>1 DEF SameFor, Serves, LivesAs
        <5>2. CASE m # n
          BY <2>3, <4>1, <5>2 DEF SameFor, Serves, LivesAs
        <5>3. QED
          BY <5>1, <5>2
      <4>2. CASE n # agents[a].name
        <5>1. m # n /\ m # agents[a].name
          BY <2>4, <3>4, <4>2
        <5>2. QED
          BY <2>3, <5>1 DEF SameFor, Serves, LivesAs
      <4>3. QED
        BY <4>1, <4>2
    <3>5. \A b \in Agent : agents[b].duty # "unborn" =>
            /\ agents'[b].duty # "unborn"
            /\ agents'[b].name = agents[b].name \/ {agents[b].name, agents'[b].name} \subseteq raced'
      BY <2>3, <2>4
    <3>6. QED
      BY <1>1, <2>4, <3>1, <3>2, <3>3, <3>4, <3>5, RowKept
  <2>9. QED
    BY <2>7, <2>8
<1>4. QED
  BY <1>2, <1>3
\* A step that leaves the rows and the daemon's list alone.
LEMMA WireMoves ==
  ASSUME RosterInv, RosterTypeOK', UNCHANGED <<agents, edits, listed>>, raced \subseteq raced',
         link' \in LinkType, ~link'.up => link'.wire = <<>>, load' \in LoadType,
         \A a \in Agent : load'.seen[a].duty # "unborn" =>
            load.seen[a].duty # "unborn" \/ agents[a].duty # "unborn",
         OnItsWay' \in Seq(Event),
         \A i \in DOMAIN OnItsWay' : \E j \in DOMAIN OnItsWay : OnItsWay'[i] = OnItsWay[j],
         \A n \in AgentName \ raced' : \E f :
            /\ Follows(OnItsWay', OnItsWay, n, f)
            /\ load'.at = "done" /\ n \notin lost' =>
                 load.at = "done" /\ n \notin lost /\ Whole(OnItsWay', OnItsWay, n, f)
  PROVE  RosterInv'
<1>1. NamesAreFit'
  <2>1. \A a \in Agent : a \in Living(agents') => OnlyHas(agents', a, agents'[a].name)
    BY DEF RosterInv, NamesAreFit
  <2>2. QED
    BY <2>1, NamesKeep
<1>2. RosterTyped'
  BY TypesKeep
<1>3. ASSUME NEW n \in AgentName, n \notin raced'
      PROVE  /\ EventsFit(agents', OnItsWay', n)
             /\ load'.at = "done" /\ n \notin lost' => EntryFits(agents', listed'[n], OnItsWay', n)
  <2>1. n \notin raced /\ SameFor(agents, agents', n)
    BY <1>3 DEF SameFor
  <2>2. PICK f :
            /\ Follows(OnItsWay', OnItsWay, n, f)
            /\ load'.at = "done" /\ n \notin lost' =>
                 load.at = "done" /\ n \notin lost /\ Whole(OnItsWay', OnItsWay, n, f)
    BY <1>3
  <2>3. QED
    BY <2>1, <2>2, OthersKeep
<1>4. QED
  BY <1>1, <1>2, <1>3 DEF RosterInv

\* A sequence that does not move follows itself.
LEMMA SelfFollows ==
  ASSUME NEW events \in Seq(Event), NEW n
  PROVE  \E f : Follows(events, events, n, f) /\ Whole(events, events, n, f)
<1> DEFINE f == [j \in DOMAIN events |-> j]
<1>1. \A j \in DOMAIN events : f[j] = j
  OBVIOUS
<1> HIDE DEF f
<1>2. QED
  BY <1>1 DEF Follows, Whole

\* With an empty wire, what waits is all that is on its way.
LEMMA NothingBefore ==
  ASSUME NEW s \in Seq(Event)
  PROVE  <<>> \o s = s
<1> DEFINE t == <<>> \o s
<1>1. t \in Seq(Event) /\ Len(t) = Len(s) /\ \A j \in 1 .. Len(s) : t[j] = s[j]
  OBVIOUS
<1> HIDE DEF t
<1>2. t = s
  BY <1>1
<1>3. QED
  BY <1>2 DEF t

\* sendToAgentDaemon (ws/handler.ts): to a daemon that is there, or to nobody.
LEMMA SendKeeps ==
  ASSUME RosterInv, NEW i \in DOMAIN outgoing, SendToAgentDaemon(i)
  PROVE  RosterInv'
<1> DEFINE event == outgoing[i]
           earlier == {e \in ToSet(SubSeq(outgoing, 1, i - 1)) : e.agent = event.agent \/ e.name = event.name}
<1>1. /\ link.wire \in Seq(Event) /\ outgoing \in Seq(Event) /\ OnItsWay \in Seq(Event)
      /\ event \in Event /\ event.name \in AgentName /\ i \in 1 .. Len(outgoing) /\ Len(outgoing) \in Nat
      /\ Len(link.wire) \in Nat
  <2>1. /\ link.wire \in Seq(Event) /\ outgoing \in Seq(Event) /\ OnItsWay \in Seq(Event)
    BY OnItsWayIsTyped DEF RosterInv
  <2>2. event \in Event
    BY <2>1
  <2>3. QED
    BY <2>1, <2>2 DEF Event
<1>2. RosterTypeOK /\ link \in LinkType /\ load \in LoadType /\ (~link.up => link.wire = <<>>)
  BY DEF RosterInv, RosterTyped
<1>3. /\ outgoing' = RemoveAt(outgoing, i) /\ outgoing' \in Seq(Event)
      /\ UNCHANGED <<agents, edits, listed, load, requested, outages>>
      /\ Len(outgoing') = Len(outgoing) - 1
      /\ \A j \in 1 .. Len(outgoing) - 1 : outgoing'[j] = outgoing[IF j < i THEN j ELSE j + 1]
  BY <1>1, RemovedAt DEF SendToAgentDaemon
<1>4. /\ link' = IF link.up THEN [link EXCEPT !.wire = Append(@, event)] ELSE link
      /\ lost' = IF link.up \/ load.at = "asked" THEN lost ELSE lost \cup {event.name}
      /\ raced' = IF earlier = {} THEN raced
                  ELSE raced \cup {event.name} \cup {e.name : e \in earlier}
  BY DEF SendToAgentDaemon
<1>5. /\ raced \subseteq raced'
      /\ \A j \in 1 .. i - 1 : outgoing[j].name = event.name => event.name \in raced'
  <2>1. ASSUME NEW j \in 1 .. i - 1, outgoing[j].name = event.name PROVE outgoing[j] \in earlier
    <3> DEFINE before == SubSeq(outgoing, 1, i - 1)
    <3>1. j \in DOMAIN before /\ before[j] = outgoing[j]
      BY <1>1
    <3>2. outgoing[j] \in ToSet(before)
      BY <3>1 DEF ToSet
    <3>3. QED
      BY <2>1, <3>2
  <2> HIDE DEF earlier
  <2>2. QED
    BY <1>4, <2>1
<1>6. earlier \subseteq Event
  <2>1. SubSeq(outgoing, 1, i - 1) \in Seq(Event)
    BY <1>1
  <2>2. ToSet(SubSeq(outgoing, 1, i - 1)) \subseteq Event
    BY <2>1 DEF ToSet
  <2>3. QED
    BY <2>2
<1>7. link' \in LinkType /\ (~link'.up => link'.wire = <<>>) /\ link'.wire \in Seq(Event) /\ link'.up \in BOOLEAN
  <2>1. Append(link.wire, event) \in Seq(Event)
    BY <1>1
  <2>2. QED
    BY <1>2, <1>4, <2>1 DEF LinkType
<1>8. RosterTypeOK'
  <2>1. lost' \subseteq AgentName
    BY <1>1, <1>2, <1>4 DEF RosterTypeOK
  <2>2. raced' \subseteq AgentName
    <3>1. {e.name : e \in earlier} \subseteq AgentName
      BY <1>6 DEF Event
    <3> HIDE DEF earlier
    <3>2. QED
      BY <1>1, <1>2, <1>4, <3>1 DEF RosterTypeOK
  <2>3. QED
    BY <1>2, <1>3, <1>7, <2>1, <2>2 DEF RosterTypeOK
<1> HIDE DEF earlier
<1>9. CASE link.up
  <2>1. link'.wire = Append(link.wire, event)
    BY <1>2, <1>4, <1>9 DEF LinkType
  <2>2. OnItsWay' = Append(link.wire, event) \o RemoveAt(outgoing, i)
    BY <1>3, <2>1 DEF OnItsWay
  <2>3. /\ Advances(OnItsWay', OnItsWay, Len(link.wire) + 1, Len(link.wire) + i)
        /\ OnItsWay' \in Seq(Event)
        /\ OnItsWay[Len(link.wire) + i] = event
        /\ \A j \in Len(link.wire) + 1 .. Len(link.wire) + i - 1 : OnItsWay[j] = outgoing[j - Len(link.wire)]
    BY <1>1, <2>2, SentAdvances DEF OnItsWay
  <2>4. ASSUME NEW j \in DOMAIN OnItsWay' PROVE \E k \in DOMAIN OnItsWay : OnItsWay'[j] = OnItsWay[k]
    <3> DEFINE w == Len(link.wire)
               k == IF j = w + 1 THEN w + i ELSE IF w + 1 < j /\ j <= w + i THEN j - 1 ELSE j
    <3>1. j \in 1 .. Len(OnItsWay') /\ DOMAIN OnItsWay = 1 .. Len(OnItsWay)
      BY <1>1, <2>3
    <3>2. OnItsWay'[j] = OnItsWay[k] /\ k \in 1 .. Len(OnItsWay)
      BY <1>1, <2>3, <3>1 DEF Advances
    <3>3. QED
      BY <3>1, <3>2
  <2>5. ASSUME NEW n \in AgentName, n \notin raced'
        PROVE  \E f : Follows(OnItsWay', OnItsWay, n, f) /\ Whole(OnItsWay', OnItsWay, n, f)
    <3>1. ASSUME event.name = n, NEW j \in Len(link.wire) + 1 .. Len(link.wire) + i - 1
          PROVE  OnItsWay[j].name # n
      <4>1. j - Len(link.wire) \in 1 .. i - 1
        BY <1>1
      <4>2. OnItsWay[j] = outgoing[j - Len(link.wire)]
        BY <2>3, <3>1
      <4>3. event.name \notin raced'
        BY <2>5, <3>1
      <4>4. outgoing[j - Len(link.wire)].name # event.name
        BY <1>5, <4>1, <4>3
      <4>5. QED
        BY <3>1, <4>2, <4>4
    <3> DEFINE k == Len(link.wire) + i
               m == Len(link.wire) + 1
    <3>2. Advances(OnItsWay', OnItsWay, m, k) /\ OnItsWay[k] = event
      BY <2>3
    <3>3. ASSUME OnItsWay[k].name = n PROVE \A j \in m .. k - 1 : OnItsWay[j].name # n
      <4>1. event.name = n
        BY <3>2, <3>3
      <4>2. QED
        BY <3>1, <4>1
    <3> HIDE DEF k, m
    <3>4. QED
      BY <1>1, <2>3, <3>2, <3>3, AdvancesFollows
  <2>6. lost' = lost
    BY <1>4, <1>9
  <2>7. \A a \in Agent : load'.seen[a].duty # "unborn" =>
            load.seen[a].duty # "unborn" \/ agents[a].duty # "unborn"
    BY <1>3
  <2>8. \A n \in AgentName \ raced' : \E f :
            /\ Follows(OnItsWay', OnItsWay, n, f)
            /\ load'.at = "done" /\ n \notin lost' =>
                 load.at = "done" /\ n \notin lost /\ Whole(OnItsWay', OnItsWay, n, f)
    BY <1>3, <2>5, <2>6
  <2>9. QED
    BY <1>2, <1>3, <1>5, <1>7, <1>8, <2>3, <2>4, <2>7, <2>8, WireMoves
<1>10. CASE ~link.up
  <2>1. OnItsWay = outgoing /\ OnItsWay' = outgoing'
    BY <1>1, <1>2, <1>3, <1>4, <1>10, NothingBefore DEF OnItsWay
  <2>2. Lacks(OnItsWay', OnItsWay, i)
    BY <1>1, <1>3, <2>1 DEF Lacks
  <2>3. ASSUME NEW j \in DOMAIN OnItsWay' PROVE \E k \in DOMAIN OnItsWay : OnItsWay'[j] = OnItsWay[k]
    <3> DEFINE k == IF j < i THEN j ELSE j + 1
    <3>1. j \in 1 .. Len(outgoing) - 1 /\ DOMAIN OnItsWay = 1 .. Len(outgoing)
      BY <1>1, <1>3, <2>1
    <3>2. OnItsWay'[j] = OnItsWay[k] /\ k \in 1 .. Len(outgoing)
      BY <1>1, <1>3, <2>1, <3>1
    <3>3. QED
      BY <3>1, <3>2
  <2>4. ASSUME NEW n \in AgentName, n \notin raced'
        PROVE  \E f : Follows(OnItsWay', OnItsWay, n, f) /\ (event.name # n => Whole(OnItsWay', OnItsWay, n, f))
    <3>1. event.name = n => \A j \in 1 .. i - 1 : outgoing[j].name # n
      BY <1>5, <2>4
    <3>2. QED
      BY <1>1, <1>3, <2>1, <2>2, <3>1, LacksFollows
  <2>5. load.at = "done" => event.name \in lost'
    BY <1>4, <1>10
  <2>6. lost \subseteq lost'
    BY <1>4
  <2>7. \A a \in Agent : load'.seen[a].duty # "unborn" =>
            load.seen[a].duty # "unborn" \/ agents[a].duty # "unborn"
    BY <1>3
  <2>8. \A n \in AgentName \ raced' : \E f :
            /\ Follows(OnItsWay', OnItsWay, n, f)
            /\ load'.at = "done" /\ n \notin lost' =>
                 load.at = "done" /\ n \notin lost /\ Whole(OnItsWay', OnItsWay, n, f)
    BY <1>3, <2>4, <2>5, <2>6
  <2>9. OnItsWay' \in Seq(Event)
    BY <1>3, <2>1
  <2>10. QED
    BY <1>2, <1>3, <1>5, <1>7, <1>8, <2>3, <2>7, <2>8, <2>9, WireMoves
<1>11. QED
  BY <1>9, <1>10

\* The rows a daemon has seen before it asked.
LEMMA NoRowsAreTyped ==
  NoRows \in [Agent -> AgentRow] /\ \A a \in Agent : NoRows[a].duty = "unborn"
<1>1. (CHOOSE n \in AgentName : TRUE) \in AgentName /\ (CHOOSE p \in Profile : TRUE) \in Profile
  BY RosterAssumption
<1>2. QED
  BY <1>1 DEF NoRows, AgentRow

\* What the daemon's connection and its one read of the rows do.
LEMMA QuietKeeps ==
  ASSUME RosterInv, ConnectDaemon \/ LoadAnswered \/ LoadFails
  PROVE  RosterInv'
<1>1. /\ RosterTypeOK /\ link \in LinkType /\ load \in LoadType /\ (~link.up => link.wire = <<>>)
      /\ OnItsWay \in Seq(Event)
  BY OnItsWayIsTyped DEF RosterInv, RosterTyped
<1>2. NoRows \in [Agent -> AgentRow] /\ \A a \in Agent : NoRows[a].duty = "unborn"
  BY NoRowsAreTyped
<1>3. /\ UNCHANGED <<agents, edits, outgoing, listed, requested, outages, lost, raced>>
      /\ link'.wire = link.wire /\ link' \in LinkType /\ (~link'.up => link'.wire = <<>>)
      /\ link'.wire \in Seq(Event) /\ link'.up \in BOOLEAN
  <2>1. CASE ConnectDaemon
    BY <1>1, <2>1 DEF ConnectDaemon, LinkType
  <2>2. CASE LoadAnswered \/ LoadFails
    BY <1>1, <2>2 DEF LoadAnswered, LoadFails, LinkType
  <2>3. QED
    BY <2>1, <2>2
<1>4. /\ load' \in LoadType /\ (load'.at = "done" => load.at = "done")
      /\ load'.at \in {"asked", "read", "done", "failed"} /\ load'.seen \in [Agent -> AgentRow]
      /\ \A a \in Agent : load'.seen[a].duty # "unborn" =>
            load.seen[a].duty # "unborn" \/ agents[a].duty # "unborn"
  <2>1. CASE ConnectDaemon
    BY <1>1, <2>1 DEF ConnectDaemon, LoadType
  <2>2. CASE LoadAnswered
    BY <1>1, <2>2 DEF LoadAnswered, LoadType, RosterTypeOK
  <2>3. CASE LoadFails
    BY <1>1, <1>2, <2>3 DEF LoadFails, LoadType
  <2>4. QED
    BY <2>1, <2>2, <2>3
<1>5. OnItsWay' = OnItsWay
  BY <1>3 DEF OnItsWay
<1>6. RosterTypeOK'
  BY <1>1, <1>3, <1>4 DEF RosterTypeOK
<1>7. \A n \in AgentName \ raced' : \E f :
            /\ Follows(OnItsWay', OnItsWay, n, f)
            /\ load'.at = "done" /\ n \notin lost' =>
                 load.at = "done" /\ n \notin lost /\ Whole(OnItsWay', OnItsWay, n, f)
  BY <1>1, <1>3, <1>4, <1>5, SelfFollows
<1>8. QED
  BY <1>1, <1>3, <1>4, <1>5, <1>6, <1>7, WireMoves

\* The socket closes: what was on the wire is gone.
LEMMA LoseKeeps ==
  ASSUME RosterInv, LoseConnection
  PROVE  RosterInv'
<1>1. /\ RosterTypeOK /\ link \in LinkType /\ load \in LoadType
      /\ link.wire \in Seq(Event) /\ outgoing \in Seq(Event) /\ OnItsWay \in Seq(Event)
      /\ DOMAIN OnItsWay = 1 .. Len(link.wire) + Len(outgoing)
      /\ \A j \in 1 .. Len(link.wire) + Len(outgoing) :
              OnItsWay[j] = IF j <= Len(link.wire) THEN link.wire[j]
                            ELSE outgoing[j - Len(link.wire)]
  BY OnItsWayIsTyped DEF RosterInv, RosterTyped
<1>2. /\ UNCHANGED <<agents, edits, outgoing, listed, load, requested, raced>>
      /\ link' = [up |-> FALSE, wire |-> <<>>]
      /\ lost' = IF load.at = "asked" THEN lost ELSE lost \cup NamesIn(link.wire)
  BY DEF LoseConnection
<1>3. link' \in LinkType /\ link'.wire = <<>> /\ link'.wire \in Seq(Event) /\ link'.up \in BOOLEAN
  <2>1. <<>> \in Seq(Event)
    OBVIOUS
  <2>2. QED
    BY <1>2, <2>1 DEF LinkType
<1>4. RosterTypeOK'
  <2>1. NamesIn(link.wire) \subseteq AgentName
    <3>1. \A j \in DOMAIN link.wire : link.wire[j] \in Event
      BY <1>1
    <3>2. QED
      BY <3>1 DEF NamesIn, Event
  <2>2. outages' \in 0 .. MaxOutages
    BY <1>1, RosterAssumption DEF LoseConnection, Outage, RosterTypeOK
  <2>3. QED
    BY <1>1, <1>2, <1>3, <2>1, <2>2 DEF RosterTypeOK
<1>5. OnItsWay' = outgoing
  BY <1>1, <1>2, <1>3, NothingBefore DEF OnItsWay
<1>6. ASSUME NEW i \in DOMAIN OnItsWay' PROVE \E j \in DOMAIN OnItsWay : OnItsWay'[i] = OnItsWay[j]
  <2>1. i \in 1 .. Len(outgoing) /\ Len(link.wire) \in Nat /\ Len(outgoing) \in Nat
    BY <1>1, <1>5
  <2>2. /\ i + Len(link.wire) \in 1 .. Len(link.wire) + Len(outgoing)
        /\ ~(i + Len(link.wire) <= Len(link.wire)) /\ (i + Len(link.wire)) - Len(link.wire) = i
    BY <2>1
  <2>3. OnItsWay[i + Len(link.wire)] = outgoing[i]
    BY <1>1, <2>2
  <2>4. QED
    BY <1>1, <1>5, <2>2, <2>3
<1>7. ASSUME NEW n \in AgentName \ raced'
      PROVE  \E f :
            /\ Follows(OnItsWay', OnItsWay, n, f)
            /\ load'.at = "done" /\ n \notin lost' =>
                 load.at = "done" /\ n \notin lost /\ Whole(OnItsWay', OnItsWay, n, f)
  <2>1. PICK f : /\ Follows(outgoing, link.wire \o outgoing, n, f)
                 /\ n \notin NamesIn(link.wire) => Whole(outgoing, link.wire \o outgoing, n, f)
    BY <1>1, WireFollows
  <2>2. load'.at = "done" /\ n \notin lost' => load.at = "done" /\ n \notin lost /\ n \notin NamesIn(link.wire)
    BY <1>2
  <2>3. QED
    BY <1>5, <2>1, <2>2 DEF OnItsWay
<1>8. QED
  BY <1>1, <1>2, <1>3, <1>4, <1>5, <1>6, <1>7, WireMoves
\* The daemon's process ends, and what was on the wire and in its list with it.
LEMMA RestartKeeps ==
  ASSUME RosterInv, RestartDaemon
  PROVE  RosterInv'
<1>1. /\ RosterTypeOK /\ NamesAreFit
      /\ link.wire \in Seq(Event) /\ outgoing \in Seq(Event) /\ OnItsWay \in Seq(Event)
      /\ DOMAIN OnItsWay = 1 .. Len(link.wire) + Len(outgoing)
      /\ \A j \in 1 .. Len(link.wire) + Len(outgoing) :
              OnItsWay[j] = IF j <= Len(link.wire) THEN link.wire[j]
                            ELSE outgoing[j - Len(link.wire)]
      /\ \A i \in DOMAIN OnItsWay : OnItsWay[i].type = "start" <=> OnItsWay[i].profile # NoProfile
  BY OnItsWayIsTyped DEF RosterInv, RosterTyped
<1>2. /\ UNCHANGED <<agents, edits, outgoing, requested>>
      /\ link' = [up |-> FALSE, wire |-> <<>>] /\ load' = [at |-> "asked", seen |-> NoRows]
      /\ listed' = [n \in AgentName |-> Unlisted]
      /\ lost' = {} /\ raced' = IF outgoing = <<>> THEN {} ELSE raced
  BY DEF RestartDaemon
<1>3. /\ link' \in LinkType /\ link'.wire = <<>> /\ link'.wire \in Seq(Event) /\ link'.up \in BOOLEAN
      /\ load' \in LoadType /\ load'.at = "asked" /\ load'.seen = NoRows
  <2>1. <<>> \in Seq(Event)
    OBVIOUS
  <2>2. QED
    BY <1>2, <2>1, NoRowsAreTyped DEF LinkType, LoadType
<1>4. /\ listed' \in [AgentName -> Entry] /\ \A n \in AgentName : listed'[n] = Unlisted
  BY <1>2 DEF Entry, Unlisted
<1>5. RosterTypeOK'
  <2>1. outages' \in 0 .. MaxOutages
    BY <1>1, RosterAssumption DEF RestartDaemon, Outage, RosterTypeOK
  <2>2. lost' \subseteq AgentName /\ raced' \subseteq AgentName
    BY <1>1, <1>2 DEF RosterTypeOK
  <2>3. QED
    BY <1>1, <1>2, <1>3, <1>4, <2>1, <2>2, NoRowsAreTyped DEF RosterTypeOK
<1>6. OnItsWay' = outgoing
  BY <1>1, <1>2, <1>3, NothingBefore DEF OnItsWay
<1>7. ASSUME NEW i \in DOMAIN OnItsWay'
      PROVE  raced' = raced /\ \E j \in DOMAIN OnItsWay : OnItsWay'[i] = OnItsWay[j]
  <2>1. i \in 1 .. Len(outgoing) /\ Len(link.wire) \in Nat /\ Len(outgoing) \in Nat
    BY <1>1, <1>6
  <2>2. /\ i + Len(link.wire) \in 1 .. Len(link.wire) + Len(outgoing)
        /\ ~(i + Len(link.wire) <= Len(link.wire)) /\ (i + Len(link.wire)) - Len(link.wire) = i
    BY <2>1
  <2>3. OnItsWay[i + Len(link.wire)] = outgoing[i]
    BY <1>1, <2>2
  <2>4. raced' = raced
    BY <1>2, <2>1
  <2>5. QED
    BY <1>1, <1>6, <2>2, <2>3, <2>4
<1>8. RosterTyped'
  <2>1. \A i \in DOMAIN OnItsWay' : OnItsWay'[i].type = "start" <=> OnItsWay'[i].profile # NoProfile
    BY <1>1, <1>7
  <2>2. QED
    BY <1>3, <1>4, <1>5, <2>1 DEF RosterTyped
<1>9. NamesAreFit'
  <2>1. \A i \in DOMAIN OnItsWay' : KnownBy(agents', raced', OnItsWay'[i].agent, OnItsWay'[i].name)
    BY <1>1, <1>2, <1>7 DEF NamesAreFit
  <2>2. \A n \in AgentName, a \in Agent : listed'[n].id # a
    BY <1>4, RosterAssumption DEF Unlisted
  <2>3. \A a \in Agent : load'.seen[a].duty = "unborn"
    BY <1>3, NoRowsAreTyped
  <2>4. QED
    BY <1>1, <1>2, <2>1, <2>2, <2>3 DEF NamesAreFit
<1>10. ASSUME NEW n \in AgentName, n \notin raced' PROVE EventsFit(agents', OnItsWay', n)
  <2>1. CASE outgoing = <<>>
    <3>1. DOMAIN OnItsWay' = {}
      BY <1>6, <2>1
    <3>2. QED
      BY <3>1 DEF EventsFit
  <2>2. CASE outgoing # <<>>
    <3>1. n \notin raced
      BY <1>2, <1>10, <2>2
    <3>2. EventsFit(agents, OnItsWay, n)
      BY <3>1 DEF RosterInv
    <3>3. PICK f : Follows(outgoing, OnItsWay, n, f)
      BY <1>1, WireFollows DEF OnItsWay
    <3>4. EventsFit(agents, outgoing, n)
      BY <1>1, <3>2, <3>3, EventsFollow
    <3>5. QED
      BY <1>2, <1>6, <3>4
  <2>3. QED
    BY <2>1, <2>2
<1>11. QED
  BY <1>3, <1>8, <1>9, <1>10 DEF RosterInv

\* loadExistingAgents (agent-runtime.ts): the list is what the rows said when they were read.
LEMMA LoadKeeps ==
  ASSUME RosterInv, LoadExistingAgents
  PROVE  RosterInv'
<1> DEFINE changed == {a \in Agent : load.seen[a] # agents[a]}
           known(n) == {a \in Agent : load.seen[a].duty = "on" /\ load.seen[a].name = n}
<1>1. /\ RosterTypeOK /\ NamesAreFit /\ link \in LinkType /\ load \in LoadType
      /\ (~link.up => link.wire = <<>>) /\ OnItsWay \in Seq(Event)
      /\ load.seen \in [Agent -> AgentRow] /\ agents \in [Agent -> AgentRow]
  BY OnItsWayIsTyped DEF RosterInv, RosterTyped, RosterTypeOK
<1>2. /\ UNCHANGED <<agents, edits, outgoing, link, requested, outages, lost>>
      /\ load' = [at |-> "done", seen |-> NoRows]
      /\ listed' = [n \in AgentName |-> LoadedEntry(n)]
      /\ raced' = raced \cup {load.seen[a].name : a \in changed} \cup {agents[a].name : a \in changed}
  BY DEF LoadExistingAgents
<1>3. load' \in LoadType /\ load'.at = "done" /\ load'.seen = NoRows /\ OnItsWay' = OnItsWay
  BY <1>2, NoRowsAreTyped DEF LoadType, OnItsWay
<1>4. ASSUME NEW n \in AgentName
      PROVE  \/ known(n) = {} /\ listed'[n] = Unlisted
             \/ \E a \in known(n) : listed'[n] = [registered |-> TRUE, id |-> a, profile |-> load.seen[a].profile]
  <2>1. listed'[n] = LoadedEntry(n)
    BY <1>2
  <2>2. CASE known(n) = {}
    BY <2>1, <2>2 DEF LoadedEntry
  <2>3. CASE known(n) # {}
    <3>1. PICK a : a = CHOOSE b \in known(n) : TRUE
      OBVIOUS
    <3>2. a \in known(n)
      BY <2>3, <3>1
    <3>3. listed'[n] = [registered |-> TRUE, id |-> a, profile |-> load.seen[a].profile]
      BY <2>1, <2>3, <3>1 DEF LoadedEntry
    <3>4. QED
      BY <3>2, <3>3
  <2>4. QED
    BY <2>2, <2>3
<1>5. /\ raced \subseteq raced' /\ raced' \subseteq AgentName
      /\ \A a \in Agent : load.seen[a] # agents[a] => {load.seen[a].name, agents[a].name} \subseteq raced'
  BY <1>1, <1>2 DEF RosterTypeOK, AgentRow
<1> HIDE DEF changed
<1>6. ASSUME NEW n \in AgentName
       PROVE  listed'[n] = Unlisted \/ (listed'[n].registered /\ listed'[n].id \in known(n))
  <2>1. CASE listed'[n] = Unlisted
    BY <2>1
  <2>2. ASSUME NEW a \in known(n), listed'[n] = [registered |-> TRUE, id |-> a, profile |-> load.seen[a].profile]
        PROVE  listed'[n].registered /\ listed'[n].id \in known(n)
    BY <2>2
  <2>3. QED
    BY <1>4, <2>1, <2>2
<1>7. RosterTypeOK'
  <2>1. ASSUME NEW n \in AgentName PROVE listed'[n] \in Entry
    <3>1. CASE listed'[n] = Unlisted
      BY <3>1 DEF Entry, Unlisted
    <3>2. ASSUME NEW a \in Agent, listed'[n] = [registered |-> TRUE, id |-> a, profile |-> load.seen[a].profile]
          PROVE  listed'[n] \in Entry
      <4>1. load.seen[a].profile \in Profile
        BY <1>1 DEF AgentRow
      <4>2. QED
        BY <3>2, <4>1 DEF Entry
    <3>3. QED
      BY <1>4, <3>1, <3>2
  <2>2. listed' \in [AgentName -> Entry]
    BY <1>2, <2>1
  <2>3. QED
    BY <1>1, <1>2, <1>3, <1>5, <2>2, NoRowsAreTyped DEF RosterTypeOK
<1>8. RosterTyped'
  <2>1. \A n \in AgentName : ~listed'[n].registered => listed'[n] \in {Unlisted, listed[n]}
    BY <1>6
  <2>2. link' \in LinkType /\ (~link'.up => link'.wire = <<>>)
    BY <1>1, <1>2
  <2>3. QED
    BY <1>3, <1>7, <2>1, <2>2, TypesKeep
<1>9. NamesAreFit'
  <2>1. ASSUME NEW n \in AgentName, NEW b \in Agent, listed'[n].id = b
        PROVE  KnownBy(agents', raced', b, n)
    <3>1. b \in known(n)
      <4>1. listed'[n] # Unlisted
        BY <2>1, RosterAssumption DEF Unlisted
      <4>2. QED
        BY <1>6, <2>1, <4>1
    <3>2. agents[b].duty # "unborn"
      BY <1>1, <3>1 DEF NamesAreFit
    <3>3. agents[b].name = n \/ {agents[b].name, n} \subseteq raced'
      BY <1>5, <3>1
    <3>4. QED
      BY <1>2, <3>2, <3>3 DEF KnownBy
  <2>2. \A a \in Agent : load'.seen[a].duty = "unborn"
    BY <1>3, NoRowsAreTyped
  <2>3. \A a \in Agent : a \in Living(agents') => OnlyHas(agents', a, agents'[a].name)
    BY <1>1, <1>2 DEF NamesAreFit
  <2>4. QED
    BY <1>2, <1>3, <1>5, <2>1, <2>2, <2>3, NamesKeep
<1>10. ASSUME NEW n \in AgentName, n \notin raced'
      PROVE  EventsFit(agents', OnItsWay', n) /\ EntryFits(agents', listed'[n], OnItsWay', n)
  <2>1. EventsFit(agents, OnItsWay, n)
    BY <1>5, <1>10 DEF RosterInv
  <2>2. \A a \in Agent : a \in known(n) <=> Serves(agents, a, n)
    BY <1>5, <1>10 DEF Serves
  <2>3. \A a \in known(n) : load.seen[a] = agents[a]
    BY <1>5, <1>10
  <2>4. CASE known(n) = {} /\ listed'[n] = Unlisted
    <3>1. ~listed'[n].registered /\ \A a \in Agent : ~Serves(agents, a, n)
      BY <2>2, <2>4 DEF Unlisted
    <3>2. EntryFits(agents, listed'[n], OnItsWay, n)
      BY <3>1 DEF EntryFits
    <3>3. QED
      BY <1>2, <1>3, <2>1, <3>2
  <2>5. ASSUME NEW a \in known(n), listed'[n] = [registered |-> TRUE, id |-> a, profile |-> load.seen[a].profile]
        PROVE  EntryFits(agents, listed'[n], OnItsWay, n)
    <3>1. a \in Agent /\ Serves(agents, a, n) /\ load.seen[a] = agents[a]
      BY <2>2, <2>3
    <3>2. \A b \in Agent : LivesAs(agents, b, n) => b = a
      <4>1. agents[a].name = n /\ a \in Living(agents)
        BY <3>1 DEF Serves, Living
      <4>2. QED
        BY <1>1, <3>1, <4>1 DEF NamesAreFit, OnlyHas
    <3>3. /\ listed'[n].registered /\ listed'[n].id = a /\ listed'[n].profile = agents[a].profile
      BY <2>5, <3>1
    <3>4. \A b \in Agent : Serves(agents, b, n) => b = a
      BY <3>2 DEF Serves, LivesAs
    <3>5. ASSUME NEW j \in DOMAIN OnItsWay, OnlyOf(OnItsWay, n, j), OnItsWay[j].type = "stop" PROVE FALSE
      <4>1. LastOf(OnItsWay, n, j)
        BY <1>1, <3>5 DEF OnlyOf, LastOf
      <4>2. NobodyHas(agents, n)
        BY <2>1, <3>5, <4>1 DEF EventsFit, TellsTheRow
      <4>3. QED
        BY <3>1, <4>2 DEF NobodyHas, Serves, LivesAs
    <3>6. QED
      BY <3>1, <3>3, <3>4, <3>5 DEF EntryFits
  <2>6. CASE \E a \in known(n) : listed'[n] = [registered |-> TRUE, id |-> a, profile |-> load.seen[a].profile]
    BY <1>2, <1>3, <2>1, <2>5, <2>6
  <2>7. QED
    BY <1>4, <2>4, <2>6
<1>11. QED
  BY <1>8, <1>9, <1>10 DEF RosterInv
\* Of the events about a name one comes first.
LEMMA FirstExists ==
  ASSUME NEW events \in Seq(Event), NEW n, ~Untold(events, n)
  PROVE  \E j \in DOMAIN events :
           events[j].name = n /\ \A k \in DOMAIN events : events[k].name = n => j <= k
<1> DEFINE about == {l \in DOMAIN events : events[l].name = n}
           before == OpToRel(<, Nat)
<1>1. about \subseteq Nat /\ about # {}
  BY DEF Untold
<1>2. \A k, l \in Nat : <<k, l>> \in before <=> k < l
  BY DEF OpToRel
<1>3. IsWellFoundedOn(before, Nat)
  BY NatLessThanWellFounded
<1> HIDE DEF before, about
<1>4. PICK m \in about : \A k \in about : ~ (<<k, m>> \in before)
  BY <1>1, <1>3, WFMin, Zenon
<1>5. ASSUME NEW k \in about PROVE m <= k
  <2>1. k \in Nat /\ m \in Nat
    BY <1>1
  <2>2. ~ (k < m)
    BY <1>2, <1>4, <2>1, Zenon
  <2>3. QED
    BY <2>1, <2>2
<1>6. QED
  BY <1>4, <1>5 DEF about

\* What the first event about a name tells of those behind it.
LEMMA FirstTaken ==
  ASSUME NEW events \in Seq(Event), events # <<>>, NEW n, events[1].name = n
  PROVE  /\ Untold(Tail(events), n) => LastOf(events, n, 1) /\ OnlyOf(events, n, 1)
         /\ \A j \in DOMAIN Tail(events) : OnlyOf(Tail(events), n, j) =>
              j + 1 \in DOMAIN events /\ Tail(events)[j] = events[j + 1] /\ NextOf(events, n, 1, j + 1)
         /\ NoNews(Tail(events), n) =>
              /\ events[1].type = "start" => StartStands(events, n, 1)
              /\ events[1].type = "duty_on" => NoNews(events, n)
              /\ Untold(Tail(events), n)
                   \/ \E j \in DOMAIN events : NextOf(events, n, 1, j) /\ events[j].type = "duty_on"
<1> DEFINE rest == Tail(events)
<1>1. /\ Len(events) \in Nat /\ DOMAIN rest = 1 .. Len(events) - 1 /\ DOMAIN events = 1 .. Len(events)
      /\ \A j \in DOMAIN rest : rest[j] = events[j + 1]
      /\ rest \in Seq(Event) /\ 1 \in DOMAIN events
  OBVIOUS
<1> HIDE DEF rest
<1>2. ASSUME NEW i \in DOMAIN events, i # 1 PROVE i - 1 \in DOMAIN rest /\ rest[i - 1] = events[i]
  BY <1>1, <1>2
<1>3. ASSUME Untold(rest, n) PROVE LastOf(events, n, 1) /\ OnlyOf(events, n, 1)
  <2>1. \A i \in DOMAIN events : events[i].name = n => i = 1
    BY <1>2, <1>3 DEF Untold
  <2>2. QED
    BY <1>1, <2>1 DEF LastOf, OnlyOf
<1>4. ASSUME NEW j \in DOMAIN rest, rest[j].name = n,
             \A k \in DOMAIN rest : rest[k].name = n => j <= k
      PROVE  j + 1 \in DOMAIN events /\ rest[j] = events[j + 1] /\ NextOf(events, n, 1, j + 1)
  <2>1. j + 1 \in DOMAIN events /\ rest[j] = events[j + 1] /\ 1 < j + 1
    BY <1>1
  <2>2. ASSUME NEW k \in DOMAIN events, events[k].name = n PROVE k <= 1 \/ j + 1 <= k
    <3>1. CASE k = 1
      BY <3>1
    <3>2. CASE k # 1
      <4>1. k - 1 \in DOMAIN rest /\ rest[k - 1].name = n
        BY <1>2, <2>2, <3>2
      <4>2. j <= k - 1
        BY <1>4, <4>1
      <4>3. QED
        BY <1>1, <4>2
    <3>3. QED
      BY <3>1, <3>2
  <2>3. QED
    BY <1>1, <1>4, <2>1, <2>2 DEF NextOf
<1>5. ASSUME NEW j \in DOMAIN rest, OnlyOf(rest, n, j)
      PROVE  j + 1 \in DOMAIN events /\ rest[j] = events[j + 1] /\ NextOf(events, n, 1, j + 1)
  <2>1. rest[j].name = n /\ \A k \in DOMAIN rest : rest[k].name = n => j <= k
    BY <1>1, <1>5 DEF OnlyOf
  <2>2. QED
    BY <1>4, <2>1
<1>6. ASSUME NoNews(rest, n)
      PROVE  /\ events[1].type = "start" => StartStands(events, n, 1)
             /\ events[1].type = "duty_on" => NoNews(events, n)
             /\ Untold(rest, n)
                  \/ \E j \in DOMAIN events : NextOf(events, n, 1, j) /\ events[j].type = "duty_on"
  <2>1. \A i \in DOMAIN events : events[i].name = n /\ i # 1 => events[i].type = "duty_on"
    BY <1>2, <1>6 DEF NoNews
  <2>2. events[1].type = "start" => StartStands(events, n, 1)
    BY <1>1, <2>1 DEF StartStands
  <2>3. events[1].type = "duty_on" => NoNews(events, n)
    BY <2>1 DEF NoNews
  <2>4. ASSUME ~Untold(rest, n)
        PROVE  \E j \in DOMAIN events : NextOf(events, n, 1, j) /\ events[j].type = "duty_on"
    <3>1. PICK j \in DOMAIN rest : rest[j].name = n /\ \A k \in DOMAIN rest : rest[k].name = n => j <= k
      BY <1>1, <2>4, FirstExists
    <3>2. j + 1 \in DOMAIN events /\ NextOf(events, n, 1, j + 1) /\ rest[j] = events[j + 1]
      BY <1>4, <3>1
    <3>3. events[j + 1].type = "duty_on"
      BY <1>6, <3>1, <3>2 DEF NoNews
    <3>4. QED
      BY <3>2, <3>3
  <2>5. QED
    BY <2>2, <2>3, <2>4
<1>7. QED
  BY <1>3, <1>5, <1>6 DEF rest

\* The daemon's entry after the event, from what the event and its row say.
LEMMA EntryHandled ==
  ASSUME NEW rows, NEW entry, NEW entry2, NEW events \in Seq(Event), events # <<>>, NEW n,
         events[1].name = n, EventsFit(rows, events, n), EntryFits(rows, entry, events, n),
         \A a, b \in Agent : Serves(rows, a, n) /\ LivesAs(rows, b, n) => b = a,
         events[1].type = "start" <=> events[1].profile # NoProfile,
         events[1].type \in {"start", "duty_on"} =>
           entry2 = [registered |-> TRUE, id |-> events[1].agent,
                     profile |-> IF events[1].profile = NoProfile THEN entry.profile ELSE events[1].profile],
         events[1].type = "duty_off" => entry2 = Unlisted,
         events[1].type = "stop" => entry2 = Unlisted \/ (entry2 = entry /\ entry.id # events[1].agent)
  PROVE  EntryFits(rows, entry2, Tail(events), n)
<1> DEFINE first == events[1]
           rest == Tail(events)
<1>1. 1 \in DOMAIN events /\ first \in Event /\ first.agent \in Agent
      /\ first.type \in {"start", "duty_on", "duty_off", "stop"}
  <2>1. 1 \in DOMAIN events /\ first \in Event
    OBVIOUS
  <2>2. QED
    BY <2>1 DEF Event
<1>2. /\ Untold(rest, n) => LastOf(events, n, 1) /\ OnlyOf(events, n, 1)
      /\ \A j \in DOMAIN rest : OnlyOf(rest, n, j) =>
              j + 1 \in DOMAIN events /\ rest[j] = events[j + 1] /\ NextOf(events, n, 1, j + 1)
      /\ NoNews(rest, n) =>
              /\ first.type = "start" => StartStands(events, n, 1)
              /\ first.type = "duty_on" => NoNews(events, n)
              /\ Untold(rest, n)
                   \/ \E j \in DOMAIN events : NextOf(events, n, 1, j) /\ events[j].type = "duty_on"
  BY FirstTaken
<1> HIDE DEF rest
<1>3. Untold(rest, n) => TellsTheRow(rows, first, n)
  BY <1>1, <1>2 DEF EventsFit
<1>4. \A j \in DOMAIN rest : OnlyOf(rest, n, j) /\ rest[j].type = "stop" =>
         first.type # "stop" /\ first.agent = rest[j].agent
  BY <1>1, <1>2 DEF EventsFit
<1>5. \A a \in Agent : StartStands(events, n, 1) /\ Serves(rows, a, n) => first.profile = rows[a].profile
  BY <1>1 DEF EventsFit
<1>6. ASSUME first.type \in {"start", "duty_on"} PROVE EntryFits(rows, entry2, rest, n)
  <2>1. entry2.registered /\ entry2.id = first.agent
        /\ entry2.profile = IF first.profile = NoProfile THEN entry.profile ELSE first.profile
    BY <1>6
  <2>2. Untold(rest, n) => Serves(rows, first.agent, n)
    BY <1>3, <1>6 DEF TellsTheRow
  <2>3. \A a \in Agent : Serves(rows, a, n) /\ Untold(rest, n) => first.agent = a
    BY <1>1, <2>2 DEF Serves, LivesAs
  <2>4. ASSUME NEW a \in Agent, Serves(rows, a, n), NoNews(rest, n)
        PROVE  entry2.profile \in {rows[a].profile, NoProfile}
    <3>1. CASE first.type = "start"
      BY <1>2, <1>5, <2>1, <2>4, <3>1
    <3>2. CASE first.type = "duty_on"
      <4>1. entry.profile \in {rows[a].profile, NoProfile}
        BY <1>2, <2>4, <3>2 DEF EntryFits
      <4>2. first.profile = NoProfile
        BY <3>2
      <4>3. QED
        BY <2>1, <4>1, <4>2
    <3>3. QED
      BY <1>6, <3>1, <3>2
  <2>5. \A j \in DOMAIN rest : OnlyOf(rest, n, j) /\ rest[j].type = "stop" => entry2.id = rest[j].agent
    BY <1>4, <2>1
  <2>6. QED
    BY <1>1, <2>1, <2>2, <2>3, <2>4, <2>5 DEF EntryFits
<1>7. ASSUME first.type = "duty_off" PROVE EntryFits(rows, entry2, rest, n)
  <2>1. ~entry2.registered /\ entry2.profile = NoProfile
    BY <1>7 DEF Unlisted
  <2>2. \A a \in Agent : Untold(rest, n) => ~Serves(rows, a, n)
    BY <1>1, <1>3, <1>7 DEF TellsTheRow, Serves, LivesAs
  <2>3. QED
    BY <2>1, <2>2 DEF EntryFits
<1>8. ASSUME first.type = "stop" PROVE EntryFits(rows, entry2, rest, n)
  <2>1. \A a \in Agent : Untold(rest, n) => ~Serves(rows, a, n)
    BY <1>3, <1>8 DEF TellsTheRow, NobodyHas, Serves, LivesAs
  <2>2. NoNews(rest, n) => Untold(rest, n)
    BY <1>1, <1>2, <1>8 DEF EventsFit
  <2>3. Untold(rest, n) => ~entry2.registered
    <3>1. CASE entry2 = Unlisted
      BY <3>1 DEF Unlisted
    <3>2. CASE entry2 = entry /\ entry.id # first.agent
      BY <1>1, <1>2, <1>8, <3>2 DEF EntryFits
    <3>3. QED
      BY <1>8, <3>1, <3>2
  <2>4. \A j \in DOMAIN rest : ~(OnlyOf(rest, n, j) /\ rest[j].type = "stop")
    BY <1>4, <1>8
  <2>5. QED
    BY <2>1, <2>2, <2>3, <2>4 DEF EntryFits
<1>9. EntryFits(rows, entry2, rest, n)
  BY <1>1, <1>6, <1>7, <1>8
<1>10. QED
  BY <1>9 DEF rest
\* The first event on the wire is the first of those on their way.
LEMMA HeadTaken ==
  ASSUME NEW wire \in Seq(Event), wire # <<>>, NEW waiting \in Seq(Event)
  PROVE  /\ Tail(wire) \in Seq(Event) /\ Tail(wire) \o waiting = Tail(wire \o waiting)
         /\ wire \o waiting # <<>> /\ (wire \o waiting)[1] = Head(wire) /\ 1 \in DOMAIN (wire \o waiting)
         /\ Head(wire) \in Event
         /\ Tail(wire \o waiting) \in Seq(Event)
         /\ \A i \in DOMAIN Tail(wire \o waiting) :
              i + 1 \in DOMAIN (wire \o waiting) /\ Tail(wire \o waiting)[i] = (wire \o waiting)[i + 1]
<1> DEFINE all == wire \o waiting
           rest == Tail(wire)
           left == rest \o waiting
           right == Tail(all)
           w == Len(wire)
           l == Len(waiting)
<1>1. /\ w \in Nat /\ w > 0 /\ l \in Nat /\ rest \in Seq(Event) /\ Len(rest) = w - 1
      /\ \A j \in 1 .. w - 1 : rest[j] = wire[j + 1]
      /\ Head(wire) = wire[1] /\ Head(wire) \in Event
  OBVIOUS
<1>2. /\ all \in Seq(Event) /\ Len(all) = w + l
      /\ \A j \in 1 .. w + l : all[j] = IF j <= w THEN wire[j] ELSE waiting[j - w]
  BY ConcatIndex
<1> HIDE DEF rest, all, w, l
<1>3. /\ left \in Seq(Event) /\ Len(left) = (w - 1) + l
      /\ \A j \in 1 .. (w - 1) + l : left[j] = IF j <= w - 1 THEN rest[j] ELSE waiting[j - (w - 1)]
  <2>1. /\ left \in Seq(Event) /\ Len(left) = Len(rest) + Len(waiting)
        /\ \A j \in 1 .. Len(rest) + Len(waiting) :
             left[j] = IF j <= Len(rest) THEN rest[j] ELSE waiting[j - Len(rest)]
    BY <1>1, ConcatIndex
  <2>2. QED
    BY <1>1, <2>1 DEF l
<1>4. /\ all # <<>> /\ right \in Seq(Event) /\ Len(right) = w + l - 1 /\ 1 \in DOMAIN all
      /\ \A j \in 1 .. w + l - 1 : right[j] = all[j + 1] /\ j + 1 \in DOMAIN all
      /\ DOMAIN right = 1 .. w + l - 1
  BY <1>1, <1>2
<1> HIDE DEF left, right
<1>5. ASSUME NEW j \in 1 .. w + l - 1 PROVE left[j] = right[j]
  <2>1. j \in 1 .. (w - 1) + l /\ j + 1 \in 1 .. w + l
    BY <1>1
  <2>2. CASE j <= w - 1
    <3>1. j \in 1 .. w - 1 /\ j + 1 <= w
      BY <1>1, <2>1, <2>2
    <3>2. left[j] = wire[j + 1]
      BY <1>1, <1>3, <2>1, <2>2, <3>1
    <3>3. all[j + 1] = wire[j + 1]
      BY <1>2, <2>1, <3>1
    <3>4. QED
      BY <1>4, <3>2, <3>3
  <2>3. CASE ~(j <= w - 1)
    <3>1. ~(j + 1 <= w) /\ (j + 1) - w = j - (w - 1)
      BY <1>1, <2>1, <2>3
    <3>2. left[j] = waiting[j - (w - 1)]
      BY <1>3, <2>1, <2>3
    <3>3. all[j + 1] = waiting[(j + 1) - w]
      BY <1>2, <2>1, <3>1
    <3>4. QED
      BY <1>4, <3>1, <3>2, <3>3
  <2>4. QED
    BY <2>2, <2>3
<1>6. Len(left) = Len(right) /\ DOMAIN left = 1 .. w + l - 1
  BY <1>1, <1>3, <1>4
<1>7. left = right
  BY <1>3, <1>4, <1>5, <1>6
<1>8. all[1] = Head(wire)
  BY <1>1, <1>2
<1>9. QED
  BY <1>1, <1>4, <1>7, <1>8 DEF left, right, all, rest

\* handleAgentStart, handleAgentDuty and handleAgentStop (handlers/agent.ts).
LEMMA HandleKeeps ==
  ASSUME RosterInv, HandleEvent
  PROVE  RosterInv'
<1> DEFINE event == Head(link.wire)
           m == event.name
<1>1. /\ RosterTypeOK /\ NamesAreFit /\ link \in LinkType /\ load \in LoadType
      /\ (~link.up => link.wire = <<>>)
      /\ link.wire \in Seq(Event) /\ outgoing \in Seq(Event) /\ OnItsWay \in Seq(Event)
      /\ listed \in [AgentName -> Entry]
      /\ \A i \in DOMAIN OnItsWay : OnItsWay[i].type = "start" <=> OnItsWay[i].profile # NoProfile
  BY OnItsWayIsTyped DEF RosterInv, RosterTyped, RosterTypeOK
<1>2. /\ link.wire # <<>> /\ link' = [link EXCEPT !.wire = Tail(@)]
      /\ UNCHANGED <<agents, edits, outgoing, load, requested, outages, lost, raced>>
  BY DEF HandleEvent
<1>3. link' \in LinkType /\ link'.wire = Tail(link.wire) /\ link'.up = link.up
      /\ link'.wire \in Seq(Event) /\ link'.up \in BOOLEAN /\ link.up
  <2>1. Tail(link.wire) \in Seq(Event)
    BY <1>1, <1>2
  <2>2. QED
    BY <1>1, <1>2, <2>1 DEF LinkType
<1>4. /\ OnItsWay' = Tail(OnItsWay) /\ OnItsWay # <<>> /\ OnItsWay[1] = event /\ 1 \in DOMAIN OnItsWay
      /\ event \in Event /\ OnItsWay' \in Seq(Event)
      /\ \A i \in DOMAIN OnItsWay' : i + 1 \in DOMAIN OnItsWay /\ OnItsWay'[i] = OnItsWay[i + 1]
  <2>1. OnItsWay' = Tail(link.wire) \o outgoing
    BY <1>2, <1>3 DEF OnItsWay
  <2> DEFINE all == link.wire \o outgoing
  <2>2. /\ Tail(link.wire) \o outgoing = Tail(all)
        /\ all # <<>> /\ all[1] = event /\ 1 \in DOMAIN all
        /\ event \in Event /\ Tail(all) \in Seq(Event)
        /\ \A i \in DOMAIN Tail(all) : i + 1 \in DOMAIN all /\ Tail(all)[i] = all[i + 1]
    BY <1>1, <1>2, HeadTaken
  <2>3. OnItsWay = all
    BY DEF OnItsWay
  <2> HIDE DEF all
  <2>4. OnItsWay' = Tail(all)
    BY <2>1, <2>2
  <2>5. QED
    BY <2>2, <2>3, <2>4
<1>5. /\ m \in AgentName /\ event.agent \in Agent
      /\ event.type \in {"start", "duty_on", "duty_off", "stop"}
      /\ event.profile \in Profile \cup {NoProfile}
      /\ (event.type = "start" <=> event.profile # NoProfile)
      /\ KnownBy(agents, raced, event.agent, m)
  <2>1. KnownBy(agents, raced, OnItsWay[1].agent, OnItsWay[1].name)
    BY <1>1, <1>4 DEF NamesAreFit
  <2>2. OnItsWay[1].type = "start" <=> OnItsWay[1].profile # NoProfile
    BY <1>1, <1>4
  <2>3. QED
    BY <1>4, <2>1, <2>2 DEF Event
<1> DEFINE entry == Registered(m, event.agent, event.profile)
<1>6. /\ event.type \in {"start", "duty_on"} => listed' = [listed EXCEPT ![m] = entry]
      /\ event.type = "duty_off" => listed' = [listed EXCEPT ![m] = Unlisted]
      /\ event.type = "stop" =>
           \/ NamesOf(event.agent) = {} /\ listed' = listed
           \/ \E known \in NamesOf(event.agent) : listed' = [listed EXCEPT ![known] = Unlisted]
  BY DEF HandleEvent
<1> HIDE DEF event, m
<1>7. /\ entry \in Entry /\ Unlisted \in Entry /\ entry.registered /\ entry.id = event.agent
      /\ entry = [registered |-> TRUE, id |-> event.agent,
                  profile |-> IF event.profile = NoProfile THEN listed[m].profile ELSE event.profile]
  <2>1. listed[m].profile \in Profile \cup {NoProfile}
    BY <1>1, <1>5 DEF Entry
  <2>2. QED
    BY <1>5, <2>1 DEF Registered, Entry, Unlisted
<1> HIDE DEF entry
<1>8. /\ listed' \in [AgentName -> Entry]
      /\ \A n \in AgentName : listed'[n] \in {listed[n], Unlisted} \/ (n = m /\ listed'[n] = entry)
  <2>1. CASE event.type \in {"start", "duty_on"}
    BY <1>1, <1>5, <1>6, <1>7, <2>1
  <2>2. CASE event.type = "duty_off"
    BY <1>1, <1>5, <1>6, <1>7, <2>2
  <2>3. CASE event.type = "stop"
    BY <1>1, <1>6, <1>7, <2>3 DEF NamesOf
  <2>4. QED
    BY <1>5, <2>1, <2>2, <2>3
<1>9. RosterTypeOK'
  BY <1>1, <1>2, <1>3, <1>8 DEF RosterTypeOK
<1>10. \A i \in DOMAIN OnItsWay' : \E j \in DOMAIN OnItsWay : OnItsWay'[i] = OnItsWay[j]
  BY <1>4
<1>11. RosterTyped'
  <2>1. \A n \in AgentName : ~listed'[n].registered => listed'[n] \in {Unlisted, listed[n]}
    BY <1>7, <1>8
  <2>2. ~link'.up => link'.wire = <<>>
    BY <1>3
  <2>3. load' \in LoadType
    BY <1>1, <1>2
  <2>4. QED
    BY <1>3, <1>9, <1>10, <2>1, <2>2, <2>3, TypesKeep
<1>12. NamesAreFit'
  <2>1. \A n \in AgentName, b \in Agent :
            listed'[n].id = b => listed[n].id = b \/ KnownBy(agents', raced', b, n)
    <3>1. Unlisted.id \notin Agent
      BY RosterAssumption DEF Unlisted
    <3>2. QED
      BY <1>2, <1>5, <1>7, <1>8, <3>1
  <2>2. \A a \in Agent : a \in Living(agents') => OnlyHas(agents', a, agents'[a].name)
    BY <1>1, <1>2 DEF NamesAreFit
  <2>3. QED
    BY <1>2, <1>10, <2>1, <2>2, NamesKeep
\* a stop finds its agent under another name only where names have raced
<1>13. ASSUME NEW known \in NamesOf(event.agent), known # m
       PROVE  {known, m} \subseteq raced
  <2>1. known \in AgentName /\ listed[known].id = event.agent
    BY DEF NamesOf
  <2>2. KnownBy(agents, raced, event.agent, known)
    BY <1>1, <1>5, <2>1 DEF NamesAreFit
  <2>3. QED
    BY <1>5, <1>13, <2>2 DEF KnownBy
<1>14. ASSUME NEW n \in AgentName, n \notin raced', n # m
       PROVE  /\ EventsFit(agents', OnItsWay', n)
              /\ load'.at = "done" /\ n \notin lost' => EntryFits(agents', listed'[n], OnItsWay', n)
  <2>1. listed'[n] = listed[n] /\ n \notin raced
    <3>1. n \notin raced
      BY <1>2, <1>14
    <3>2. CASE event.type \in {"start", "duty_on", "duty_off"}
      BY <1>1, <1>5, <1>6, <1>14, <3>1, <3>2
    <3>3. CASE event.type = "stop"
      <4>1. \A known \in NamesOf(event.agent) : known # n
        BY <1>13, <1>14, <3>1
      <4>2. QED
        BY <1>1, <1>6, <3>1, <3>3, <4>1
    <3>4. QED
      BY <1>5, <3>1, <3>2, <3>3
  <2>2. PICK f : /\ Follows(OnItsWay', OnItsWay, n, f)
                 /\ OnItsWay[1].name # n => Whole(OnItsWay', OnItsWay, n, f)
    BY <1>1, <1>4, TailFollows
  <2>3. OnItsWay[1].name # n
    BY <1>4, <1>14 DEF m
  <2>4. SameFor(agents, agents', n)
    BY <1>2 DEF SameFor
  <2>5. EventsFit(agents', OnItsWay', n)
    BY <1>4, <2>1, <2>2, <2>4, OthersKeep
  <2>6. n \notin lost /\ load.at = "done" => EntryFits(agents', listed[n], OnItsWay', n)
    BY <1>4, <2>1, <2>2, <2>3, <2>4, OthersKeep
  <2>7. QED
    BY <1>2, <2>1, <2>5, <2>6
<1>15. ASSUME m \notin raced'
       PROVE  /\ EventsFit(agents', OnItsWay', m)
              /\ load'.at = "done" /\ m \notin lost' => EntryFits(agents', listed'[m], OnItsWay', m)
  <2>1. m \notin raced /\ EventsFit(agents, OnItsWay, m)
    BY <1>2, <1>5, <1>15 DEF RosterInv
  <2>2. PICK f : Follows(OnItsWay', OnItsWay, m, f)
    BY <1>1, <1>4, TailFollows
  <2>3. EventsFit(agents, OnItsWay', m)
    BY <1>1, <1>4, <2>1, <2>2, EventsFollow
  <2>4. \A a, b \in Agent : Serves(agents, a, m) /\ LivesAs(agents, b, m) => b = a
    BY <1>1 DEF NamesAreFit, OnlyHas, Serves, LivesAs, Living
  <2>5. /\ event.type \in {"start", "duty_on"} =>
             listed'[m] = [registered |-> TRUE, id |-> event.agent,
                           profile |-> IF event.profile = NoProfile THEN listed[m].profile ELSE event.profile]
        /\ event.type = "duty_off" => listed'[m] = Unlisted
    BY <1>1, <1>5, <1>6, <1>7
  <2>6. event.type = "stop" =>
          listed'[m] = Unlisted \/ (listed'[m] = listed[m] /\ listed[m].id # event.agent)
    <3>1. ASSUME event.type = "stop", NEW known \in NamesOf(event.agent),
                 listed' = [listed EXCEPT ![known] = Unlisted]
          PROVE  listed'[m] = Unlisted
      <4>1. known = m
        BY <1>13, <2>1
      <4>2. QED
        BY <1>1, <1>5, <3>1, <4>1
    <3>2. ASSUME NamesOf(event.agent) = {} PROVE listed[m].id # event.agent
      BY <1>5, <3>2 DEF NamesOf
    <3>3. QED
      BY <1>6, <3>1, <3>2
  <2>7. ASSUME load.at = "done", m \notin lost
        PROVE  EntryFits(agents, listed'[m], OnItsWay', m)
    <3>1. EntryFits(agents, listed[m], OnItsWay, m)
      BY <1>5, <2>1, <2>7 DEF RosterInv
    <3>2. OnItsWay[1].name = m
      BY <1>4 DEF m
    <3>3. QED
      BY <1>1, <1>4, <1>5, <2>1, <2>4, <2>5, <2>6, <3>1, <3>2, EntryHandled
  <2>8. QED
    BY <1>2, <2>3, <2>7
<1>16. QED
  BY <1>11, <1>12, <1>14, <1>15 DEF RosterInv

\* No agent, no event, a daemon that has nothing listed.
LEMMA RosterStart ==
  ASSUME RosterInit
  PROVE  RosterInv
<1>1. /\ OnItsWay = <<>> /\ link = [up |-> FALSE, wire |-> <<>>] /\ outgoing = <<>>
      /\ agents = NoRows /\ edits = {} /\ listed = [n \in AgentName |-> Unlisted]
      /\ load = [at |-> "asked", seen |-> NoRows] /\ requested = 0 /\ outages = 0
      /\ lost = {} /\ raced = {}
  <2>1. <<>> \o <<>> = <<>>
    <3>1. <<>> \in Seq(Event)
      OBVIOUS
    <3>2. QED
      BY <3>1, NothingBefore
  <2>2. QED
    BY <2>1 DEF RosterInit, OnItsWay
<1>2. RosterTypeOK /\ link \in LinkType /\ load \in LoadType
  <2>1. <<>> \in Seq(Event) /\ 0 \in 0 .. MaxRequestsForAgents /\ 0 \in 0 .. MaxOutages
    BY RosterAssumption
  <2>2. Unlisted \in Entry
    BY DEF Unlisted, Entry
  <2>3. QED
    BY <1>1, <2>1, <2>2, NoRowsAreTyped DEF RosterTypeOK, LinkType, LoadType
<1>3. DOMAIN OnItsWay = {}
  BY <1>1
<1>4. RosterTyped
  BY <1>1, <1>2, <1>3 DEF RosterTyped
<1>5. NamesAreFit
  BY <1>1, <1>3, NoRowsAreTyped, RosterAssumption DEF NamesAreFit, Living, Unlisted
<1>6. \A n \in AgentName : EventsFit(agents, OnItsWay, n)
  BY <1>3 DEF EventsFit
<1>7. load.at # "done"
  BY <1>1
<1>8. QED
  BY <1>4, <1>5, <1>6, <1>7 DEF RosterInv

\* Every request, every move of an event and every step of the daemon keeps the invariant.
LEMMA RosterStep ==
  ASSUME RosterInv, [RosterNext]_rosterVars
  PROVE  RosterInv'
<1>1. CASE RosterNext
  BY <1>1, CreateKeeps, DutyKeeps, ReadKeeps, DeleteKeeps, WriteKeeps, SendKeeps, HandleKeeps,
     QuietKeeps, LoadKeeps, LoseKeeps, RestartKeeps DEF RosterNext
<1>2. CASE UNCHANGED rosterVars
  <2>1. UNCHANGED <<agents, edits, outgoing, link, listed, load, requested, outages, lost, raced>>
    BY <1>2 DEF rosterVars
  <2>2. RosterTypeOK' /\ \A n : SameFor(agents, agents', n)
    BY <2>1 DEF RosterInv, RosterTyped, RosterTypeOK, SameFor
  <2>3. \A b \in Agent : b \in Living(agents') => OnlyHas(agents', b, agents'[b].name)
    BY <2>1 DEF RosterInv, NamesAreFit
  <2>4. QED
    BY <2>1, <2>2, <2>3, RowKept
<1>3. QED
  BY <1>1, <1>2

\* The inductive invariant of the agents of a machine (routes/agents-public.ts,
\* lib/agent-duty.ts, agent-runtime.ts).
THEOREM RosterInvariantHolds == RosterSpec => []RosterInv
<1>1. RosterInit => RosterInv
  BY RosterStart
<1>2. RosterInv /\ [RosterNext]_rosterVars => RosterInv'
  BY RosterStep
<1>3. QED
  BY <1>1, <1>2, PTL DEF RosterSpec

\* Once nothing is on its way, the daemon answers for whoever its owner wants on duty, for
\* nobody else, and with the profile chosen last (the handlers of handlers/agent.ts against
\* the rows routes/agents-public.ts and lib/agent-duty.ts write).
THEOREM TheRosterAgrees == RosterSpec => []RosterAgrees
<1>1. ASSUME RosterInv, RosterQuiet, NEW n \in AgentName \ (lost \cup raced)
      PROVE  /\ listed[n].registered <=> OnDuty(agents, n)
             /\ \A a \in Agent : (agents[a].duty = "on" /\ agents[a].name = n)
                  => listed[n].id = a /\ listed[n].profile \in {agents[a].profile, NoProfile}
  <2>1. EntryFits(agents, listed[n], OnItsWay, n)
    BY <1>1 DEF RosterInv, RosterQuiet
  <2>2. DOMAIN OnItsWay = {}
    BY <1>1 DEF OnItsWay, RosterQuiet
  <2>3. Untold(OnItsWay, n) /\ NoNews(OnItsWay, n)
    BY <2>2 DEF Untold, NoNews
  <2>4. QED
    BY <2>1, <2>3 DEF EntryFits, Serves, OnDuty
<1>2. RosterInv => RosterAgrees
  BY <1>1 DEF RosterAgrees
<1>3. QED
  BY <1>2, RosterInvariantHolds, PTL
=============================================================================
