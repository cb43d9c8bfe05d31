--------------------------------- MODULE Roster ---------------------------------
(* The agents of one machine: the server's rows with the owner's wish that they be   *)
(* on duty, and the daemon's list of those it answers for.  Requests change a row in   *)
(* one statement and tell the daemon in a later one; what is sent while the daemon is    *)
(* not connected is lost; the daemon reads all rows once, when it starts.                  *)
EXTENDS Integers, Sequences, FiniteSets, SequencesExt

CONSTANTS
  Agent,        \* ids, each created at most once
  AgentName,    \* names, one living agent each (idx_agents_server_name)
  Profile,      \* runtime, model and entrypoint of an agent
  NoAgent, NoProfile,
  MaxRequestsForAgents, MaxOutages    \* bounds: requests, lost connections and restarts

ASSUME RosterAssumption ==
  /\ NoAgent \notin Agent /\ NoProfile \notin Profile
  /\ AgentName # {} /\ Profile # {}
  /\ MaxRequestsForAgents \in Nat /\ MaxOutages \in Nat

VARIABLES
  agents,      \* the table
  edits,       \* PATCH requests between their SELECT and their UPDATE
  outgoing,    \* events of committed requests not sent yet, in the order of the commits
  link,        \* up: the daemon is connected; wire: sent and not handled yet
  listed,      \* the daemon: name -> registered, its id, what is known of its profile
  load,        \* the daemon's one read of the rows
  requested, outages,   \* used of the bounds
  lost,        \* history: names an event about which never arrived
  raced        \* history: names whose events overtook each other, or a stale read

rosterVars == <<agents, edits, outgoing, link, listed, load, requested, outages, lost, raced>>

AgentRow == [duty : {"unborn", "on", "off", "gone"}, name : AgentName, profile : Profile]
Event == [type : {"start", "duty_on", "duty_off", "stop"}, agent : Agent,
          name : AgentName, profile : Profile \cup {NoProfile}]
Entry == [registered : BOOLEAN, id : Agent \cup {NoAgent},
          profile : Profile \cup {NoProfile}]
Unlisted == [registered |-> FALSE, id |-> NoAgent, profile |-> NoProfile]

RosterTypeOK ==
  /\ agents \in [Agent -> AgentRow]
  /\ edits \subseteq [agent : Agent, wasOff : BOOLEAN]
  /\ outgoing \in Seq(Event) /\ link.up \in BOOLEAN /\ link.wire \in Seq(Event)
  /\ listed \in [AgentName -> Entry]
  /\ load.at \in {"asked", "read", "done", "failed"} /\ load.seen \in [Agent -> AgentRow]
  /\ requested \in 0 .. MaxRequestsForAgents /\ outages \in 0 .. MaxOutages
  /\ lost \subseteq AgentName /\ raced \subseteq AgentName

NoRows == [a \in Agent |-> [duty |-> "unborn", name |-> CHOOSE n \in AgentName : TRUE,
                           profile |-> CHOOSE p \in Profile : TRUE]]

RosterInit ==
  /\ agents = NoRows
  /\ edits = {} /\ outgoing = <<>> /\ link = [up |-> FALSE, wire |-> <<>>]
  /\ listed = [n \in AgentName |-> Unlisted]
  /\ load = [at |-> "asked", seen |-> NoRows]
  /\ requested = 0 /\ outages = 0 /\ lost = {} /\ raced = {}

Living(rows) == {a \in Agent : rows[a].duty \in {"on", "off"}}
OnDuty(rows, n) == \E a \in Agent : rows[a].duty = "on" /\ rows[a].name = n
FreeName(n) == \A a \in Living(agents) : agents[a].name # n
NamesIn(events) == {events[i].name : i \in DOMAIN events}
-----------------------------------------------------------------------------
(* Requests                                                                   *)

Requested == requested < MaxRequestsForAgents /\ requested' = requested + 1

Tell(type, a, profile) ==
  outgoing' = Append(outgoing, [type |-> type, agent |-> a, name |-> agents'[a].name,
                                profile |-> profile])

CreateAgent(a, n, p) ==
  /\ agents[a].duty = "unborn" /\ FreeName(n) /\ Requested
  /\ agents' = [agents EXCEPT ![a] = [duty |-> "on", name |-> n, profile |-> p]]
  /\ Tell("start", a, p)
  /\ UNCHANGED <<edits, link, listed, load, outages, lost, raced>>

SetAgentDuty(a, duty) ==
  /\ a \in Living(agents) /\ Requested
  /\ agents' = [agents EXCEPT ![a].duty = duty]
  /\ Tell(IF duty = "on" THEN "duty_on" ELSE "duty_off", a, NoProfile)
  /\ UNCHANGED <<edits, link, listed, load, outages, lost, raced>>

ReadForEdit(a) ==
  /\ a \in Living(agents) /\ Requested
  /\ edits' = edits \cup {[agent |-> a, wasOff |-> agents[a].duty = "off"]}
  /\ UNCHANGED <<agents, outgoing, link, listed, load, outages, lost, raced>>

\* an agent:start would register an agent its owner has sent off
PushesStart(edit) == ~edit.wasOff /\ agents[edit.agent].duty # "off"

\* an edit overlaps a change of the duty, or takes the agent's name away
EditRaces(edit, n) ==
  n # agents[edit.agent].name \/ (edit.wasOff /\ agents[edit.agent].duty = "on")

WriteEdit(edit, n, p) ==
  LET a == edit.agent
  IN  /\ edit \in edits /\ edits' = edits \ {edit}
      /\ IF agents[a].duty = "gone" THEN UNCHANGED <<agents, outgoing, raced>>
         ELSE /\ n = agents[a].name \/ FreeName(n)
              /\ agents' = [agents EXCEPT ![a].name = n, ![a].profile = p]
              /\ raced' = IF EditRaces(edit, n) THEN raced \cup {n, agents[a].name}
                          ELSE raced
              /\ IF PushesStart(edit) THEN Tell("start", a, p) ELSE UNCHANGED outgoing
      /\ UNCHANGED <<link, listed, load, requested, outages, lost>>

DeleteAgent(a) ==
  /\ a \in Living(agents) /\ Requested
  /\ agents' = [agents EXCEPT ![a].duty = "gone"]
  /\ Tell("stop", a, NoProfile)
  /\ UNCHANGED <<edits, link, listed, load, outages, lost, raced>>

\* the lookup of the agent's machine is awaited, so events may overtake each other;
\* an event for a daemon that is not connected is dropped
SendToAgentDaemon(i) ==
  LET event == outgoing[i]
      earlier == {e \in ToSet(SubSeq(outgoing, 1, i - 1)) :
                    e.agent = event.agent \/ e.name = event.name}
  IN  /\ outgoing' = RemoveAt(outgoing, i)
      /\ link' = IF link.up THEN [link EXCEPT !.wire = Append(@, event)] ELSE link
      /\ lost' = IF link.up \/ load.at = "asked" THEN lost ELSE lost \cup {event.name}
      /\ raced' = IF earlier = {} THEN raced
                  ELSE raced \cup {event.name} \cup {e.name : e \in earlier}
      /\ UNCHANGED <<agents, edits, listed, load, requested, outages>>
-----------------------------------------------------------------------------
(* The daemon                                                                 *)

Registered(n, a, p) ==
  [registered |-> TRUE, id |-> a, profile |-> IF p = NoProfile THEN listed[n].profile ELSE p]

\* the names under which an id is known; more than one after a rename
NamesOf(a) == {n \in AgentName : listed[n].id = a}

HandleEvent ==
  /\ link.wire # <<>>
  /\ link' = [link EXCEPT !.wire = Tail(@)]
  /\ LET event == Head(link.wire)
         n == event.name
     IN  CASE event.type \in {"start", "duty_on"} ->
                listed' = [listed EXCEPT ![n] = Registered(n, event.agent, event.profile)]
           [] event.type = "duty_off" -> listed' = [listed EXCEPT ![n] = Unlisted]
           [] event.type = "stop" ->
                IF NamesOf(event.agent) = {} THEN UNCHANGED listed
                ELSE \E known \in NamesOf(event.agent) :
                       listed' = [listed EXCEPT ![known] = Unlisted]
  /\ UNCHANGED <<agents, edits, outgoing, load, requested, outages, lost, raced>>

LoadAnswered ==
  /\ load.at = "asked" /\ load' = [at |-> "read", seen |-> agents]
  /\ UNCHANGED <<agents, edits, outgoing, link, listed, requested, outages, lost, raced>>

\* a plausible fault: only adds, so an agent sent off meanwhile stays
AgentsAdded(n) ==
  LET known == {a \in Agent : load.seen[a].duty = "on" /\ load.seen[a].name = n}
  IN  IF known = {} THEN listed[n]
      ELSE LET a == CHOOSE a \in known : TRUE
           IN  [registered |-> TRUE, id |-> a, profile |-> load.seen[a].profile]

\* rows off duty are passed over, and whoever is listed without a row on duty is dropped
LoadedEntry(n) ==
  LET known == {a \in Agent : load.seen[a].duty = "on" /\ load.seen[a].name = n}
  IN  IF known = {} THEN Unlisted
      ELSE LET a == CHOOSE a \in known : TRUE
           IN  [registered |-> TRUE, id |-> a, profile |-> load.seen[a].profile]

\* what the rows said when they were read overrides the events since
LoadExistingAgents ==
  LET changed == {a \in Agent : load.seen[a] # agents[a]}
  IN  /\ load.at = "read" /\ load' = [at |-> "done", seen |-> NoRows]
      /\ listed' = [n \in AgentName |-> LoadedEntry(n)]
      /\ raced' = raced \cup {load.seen[a].name : a \in changed}
                        \cup {agents[a].name : a \in changed}
      /\ UNCHANGED <<agents, edits, outgoing, link, requested, outages, lost>>

\* logged, and not tried again
LoadFails ==
  /\ load.at \in {"asked", "read"} /\ load' = [at |-> "failed", seen |-> NoRows]
  /\ UNCHANGED <<agents, edits, outgoing, link, listed, requested, outages, lost, raced>>

ConnectDaemon ==
  /\ ~link.up /\ link' = [link EXCEPT !.up = TRUE]
  /\ UNCHANGED <<agents, edits, outgoing, listed, load, requested, outages, lost, raced>>

Outage == outages < MaxOutages /\ outages' = outages + 1

LoseConnection ==
  /\ link.up /\ Outage /\ link' = [up |-> FALSE, wire |-> <<>>]
  /\ lost' = IF load.at = "asked" THEN lost ELSE lost \cup NamesIn(link.wire)
  /\ UNCHANGED <<agents, edits, outgoing, listed, load, requested, raced>>

RestartDaemon ==
  /\ Outage /\ link' = [up |-> FALSE, wire |-> <<>>]
  /\ listed' = [n \in AgentName |-> Unlisted]
  /\ load' = [at |-> "asked", seen |-> NoRows]
  /\ lost' = {} /\ raced' = IF outgoing = <<>> THEN {} ELSE raced
  /\ UNCHANGED <<agents, edits, outgoing, requested>>

RosterNext ==
  \/ \E a \in Agent :
       \/ \E n \in AgentName, p \in Profile : CreateAgent(a, n, p)
       \/ \E duty \in {"on", "off"} : SetAgentDuty(a, duty)
       \/ ReadForEdit(a) \/ DeleteAgent(a)
  \/ \E edit \in edits, n \in AgentName, p \in Profile : WriteEdit(edit, n, p)
  \/ \E i \in DOMAIN outgoing : SendToAgentDaemon(i)
  \/ HandleEvent \/ LoadAnswered \/ LoadExistingAgents \/ LoadFails
  \/ ConnectDaemon \/ LoseConnection \/ RestartDaemon

RosterSpec == RosterInit /\ [][RosterNext]_rosterVars
-----------------------------------------------------------------------------
(* Properties                                                                 *)

\* nothing is on its way and the daemon has its list
RosterQuiet ==
  edits = {} /\ outgoing = <<>> /\ link = [up |-> TRUE, wire |-> <<>>] /\ load.at = "done"

\* Who is on duty answers and who is off does not, whatever the requests, restarts and
\* lost connections in between; names with a lost or overtaken event are left out.  A
\* profile the daemon knows is the one its owner chose last.
RosterAgrees ==
  RosterQuiet =>
    \A n \in AgentName \ (lost \cup raced) :
      /\ listed[n].registered <=> OnDuty(agents, n)
      /\ \A a \in Agent :
           (agents[a].duty = "on" /\ agents[a].name = n)
             => listed[n].id = a /\ listed[n].profile \in {agents[a].profile, NoProfile}

\* A daemon that comes back follows the rows, also where an event was lost while it was
\* away: 05-agent-duty-design.md says so of a reconnection and of a late one.
ReconnectionRealigns ==
  RosterQuiet =>
    \A n \in AgentName \ raced : listed[n].registered => OnDuty(agents, n)

\* An agent that comes back on duty runs with the profile of its row (agent-runtime.ts:
\* 725-727 of a registration without one).
ProfileSurvivesABreak ==
  RosterQuiet =>
    \A n \in AgentName \ (lost \cup raced) : listed[n].registered => listed[n].profile # NoProfile
=============================================================================
