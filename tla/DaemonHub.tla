------------------------------ MODULE DaemonHub ------------------------------
(* The server's table of daemon connections of one user: one slot per machine,     *)
(* a provisional slot until the ready frame names the machine, and the presence     *)
(* set that other readers take "online" from.  A connection is authenticated while   *)
(* it may already close; the check of the declared server name is awaited while the  *)
(* connection may close or be replaced; close events of replaced sockets come late.  *)
(* Metadata objects are shared by reference, so they are a heap of their own.        *)
EXTENDS Integers, FiniteSets

CONSTANTS
  Conn,       \* connections, each used once
  Machine,    \* machineUuids
  Scope,      \* servers a machine token may be for
  NoOne       \* no connection, key, metadata or member

Key == Machine \cup Conn            \* a connection stands for its provisional key
MetaId == Conn \X {"pending", "ready"}   \* who created the object, and when
PresenceMember == (Machine \cup {"pending"}) \X Scope

ASSUME HubAssumption ==
  /\ NoOne \notin Conn \cup Machine \cup Scope /\ NoOne \notin MetaId \cup PresenceMember
  /\ Conn \cap Machine = {} /\ "pending" \notin Machine
  /\ Machine # {} /\ Scope # {}

VARIABLE hub

\* The connections, the maps of the hub and the heap of metadata objects.
HubType ==
  [sock : [Conn -> {"none", "dialing", "open", "closing", "closed"}],
    machine : [Conn -> Machine], scope : [Conn -> Scope],
    early : SUBSET Conn,       \* ready arrived before the identity
    registered : SUBSET Conn,
    slot : [Key -> Conn \cup {NoOne}],       \* daemonClients
    keyOf : [Conn -> Key \cup {NoOne}],      \* daemonKeyOf
    metaAt : [Key -> MetaId \cup {NoOne}],   \* daemonMeta
    metaScope : [MetaId -> Scope \cup {NoOne}],
    member : [MetaId -> PresenceMember \cup {NoOne}],
    checking : SUBSET (Conn \X MetaId),      \* finalizeDaemonReady at its await
    presence : SUBSET PresenceMember]
HubTypeOK == hub \in HubType

HubInit ==
  hub = [sock |-> [c \in Conn |-> "none"],
         machine |-> [c \in Conn |-> CHOOSE m \in Machine : TRUE],
         scope |-> [c \in Conn |-> CHOOSE s \in Scope : TRUE],
         early |-> {}, registered |-> {}, slot |-> [k \in Key |-> NoOne],
         keyOf |-> [c \in Conn |-> NoOne], metaAt |-> [k \in Key |-> NoOne],
         metaScope |-> [i \in MetaId |-> NoOne], member |-> [i \in MetaId |-> NoOne],
         checking |-> {}, presence |-> {}]
-----------------------------------------------------------------------------
(* Handlers                                                                   *)

Closing(h, c) == [h EXCEPT !.sock[c] = IF @ = "open" THEN "closing" ELSE @]

Register(h, c) ==
  LET i == <<c, "pending">>
      provisional == <<"pending", h.scope[c]>>
  IN  [h EXCEPT !.registered = @ \cup {c}, !.slot[c] = c, !.keyOf[c] = c,
                !.metaAt[c] = i, !.metaScope[i] = h.scope[c],
                !.member[i] = provisional, !.presence = @ \cup {provisional}]

\* a plausible fault: the replaced connection is left open
TakeSlotQuietly(h, c) ==
  LET key == h.machine[c]
  IN  IF h.keyOf[c] = key THEN h
      ELSE [h EXCEPT !.slot = [k \in Key |-> IF k = key THEN c
                                 ELSE IF k = h.keyOf[c] THEN NoOne ELSE h.slot[k]],
                     !.metaAt[h.keyOf[c]] = NoOne, !.keyOf[c] = key]

\* ready takes the machine's slot over; the metadata of the connection it replaces
\* is kept when that one is still registered
TakeSlot(h, c) ==
  LET key == h.machine[c]
      prev == h.slot[key]
      closed == IF prev = NoOne THEN h ELSE Closing(h, prev)
  IN  IF h.keyOf[c] = key THEN h
      ELSE [closed EXCEPT !.slot = [k \in Key |-> IF k = key THEN c
                                       ELSE IF k = h.keyOf[c] THEN NoOne ELSE h.slot[k]],
                          !.metaAt[h.keyOf[c]] = NoOne, !.keyOf[c] = key]

Ready(h, c) ==
  LET taken == TakeSlot(h, c)
      key == h.machine[c]
      i == <<c, "ready">>
  IN  IF taken.metaAt[key] # NoOne
      THEN [taken EXCEPT !.checking = @ \cup {<<c, taken.metaAt[key]>>}]
      ELSE [taken EXCEPT !.metaAt[key] = i, !.metaScope[i] = h.scope[c],
                         !.checking = @ \cup {<<c, i>>}]

\* presence is switched from the member the metadata holds to that of the machine
Enlist(h, c, i) ==
  LET new == <<h.machine[c], h.metaScope[i]>>
  IN  IF h.member[i] = new THEN h
      ELSE [h EXCEPT !.member[i] = new,
                     !.presence = (@ \ {h.member[i]}) \cup {new}]

OnClose(h, c) ==
  LET key == h.keyOf[c]
  IN  IF key = NoOne \/ h.slot[key] # c THEN [h EXCEPT !.keyOf[c] = NoOne]
      ELSE [h EXCEPT !.keyOf[c] = NoOne, !.slot[key] = NoOne, !.metaAt[key] = NoOne,
                     !.presence = @ \ {h.member[h.metaAt[key]]}]
-----------------------------------------------------------------------------
(* Steps                                                                      *)

\* the token names the scope, the daemon its machine; its ready frame may come
\* before the token is resolved
Dial(c) ==
  /\ hub.sock[c] = "none"
  /\ \E m \in Machine, s \in Scope :
       hub' = [hub EXCEPT !.sock[c] = "dialing", !.machine[c] = m, !.scope[c] = s]

ReadyArrives(c) ==
  /\ c \notin hub.early /\ hub.sock[c] \in {"dialing", "open", "closing"}
  /\ LET h == [hub EXCEPT !.early = @ \cup {c}]
     IN  hub' = IF c \in hub.registered THEN Ready(h, c) ELSE h

\* the identity is resolved: the connection is registered, closed or not, and the
\* frames buffered meanwhile are handled
Authenticated(c) ==
  /\ hub.sock[c] \in {"dialing", "closed"} /\ c \notin hub.registered
  /\ LET h == Register([hub EXCEPT !.sock[c] = IF @ = "dialing" THEN "open" ELSE @], c)
     IN  hub' = IF c \in hub.early THEN Ready(h, c) ELSE h

\* the declared server name is the token's, or none was declared, or the query failed
NameAccepted ==
  \E pair \in hub.checking :
    hub' = Enlist([hub EXCEPT !.checking = @ \ {pair}], pair[1], pair[2])

NameRejected ==
  \E pair \in hub.checking :
    hub' = Closing([hub EXCEPT !.checking = @ \ {pair}], pair[1])

\* the slot's connection did not answer a ping
HeartbeatTimeout(k) == hub.slot[k] # NoOne /\ hub.sock[hub.slot[k]] = "open"
                       /\ hub' = Closing(hub, hub.slot[k])

CloseEvent(c) ==
  /\ hub.sock[c] \in {"dialing", "open", "closing"}
  /\ LET h == [hub EXCEPT !.sock[c] = "closed"]
     IN  hub' = IF c \in hub.registered THEN OnClose(h, c) ELSE h

HubNext ==
  \/ \E c \in Conn : Dial(c) \/ ReadyArrives(c) \/ Authenticated(c) \/ CloseEvent(c)
  \/ \E k \in Key : HeartbeatTimeout(k)
  \/ NameAccepted \/ NameRejected

HubSpec == HubInit /\ [][HubNext]_hub
-----------------------------------------------------------------------------
(* Properties                                                                 *)

\* A daemon the server keeps open can be reached: its key leads to it, and once its
\* machine is known to be present the presence set says so.
OpenDaemonIsReachable ==
  /\ \A c \in hub.registered :
       hub.sock[c] = "open" => hub.keyOf[c] # NoOne /\ hub.slot[hub.keyOf[c]] = c
  /\ \A m \in Machine :
       (hub.slot[m] # NoOne /\ hub.member[hub.metaAt[m]] # NoOne)
         => hub.member[hub.metaAt[m]] \in hub.presence

\* One machine holds one connection: whatever else is open for it was told to close,
\* or has not said yet which machine it is.
OneSlotPerMachine ==
  \A c, d \in hub.registered :
    (hub.sock[c] = "open" /\ hub.sock[d] = "open" /\ c # d
       /\ hub.keyOf[c] \in Machine) => hub.keyOf[d] # hub.keyOf[c]

\* A machine has one daemon for the server, and the server can reach it.
DaemonsAreReached == OpenDaemonIsReachable /\ OneSlotPerMachine

\* The presence set has the same source as the connection table (presence.ts:21-22):
\* every member stands for a connection that has a slot.
PresenceIsTheTable ==
  \A mem \in hub.presence :
    \E k \in Key : hub.slot[k] # NoOne /\ hub.member[hub.metaAt[k]] = mem

\* Delivery checks the scope of a slot's metadata; it is that of the token the
\* slot's connection came with (handler.ts:1171-1172 "never delivered wrongly").
SlotScopeIsTheTokens ==
  \A k \in Key : hub.slot[k] # NoOne => hub.metaScope[hub.metaAt[k]] = hub.scope[hub.slot[k]]
=============================================================================
