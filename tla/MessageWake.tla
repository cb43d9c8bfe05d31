------------------------------ MODULE MessageWake ------------------------------
(* How one message of a channel wakes agents: the send route stores it and decides who  *)
(* may be woken, broadcast() resolves who may hear it, every instance of the server hands *)
(* it to the computers connected to it, and each computer starts the agents it hosts.      *)
(* Between any two of these steps the sender may call again with the same nonce, an agent  *)
(* may leave or go off duty, a socket or an instance may fail.                              *)
(* Messages share nothing but the membership, so one message is followed.                   *)
EXTENDS Integers, FiniteSets

CONSTANTS
  Wakee,              \* agents
  Local,              \* agents of the server the channel belongs to
  Mine,               \* agents of the sender
  Willing,            \* agents with consent_channel_invite
  Manager,            \* the channel's manager, when it is a member
  Computer,           \* the daemons, in the scope of the channel's server
  Owner, MemberOwner, \* the users they belong to, and the members of that server among them
  Instance, NoInstance,               \* processes of the server
  MaxCalls, MaxMishaps, MaxShifts, MaxTroubles
                      \* bounds: calls, failures, changes of the roster, both together

ASSUME WakeAssumption ==
  /\ {Manager} \cup Local \cup Mine \cup Willing \subseteq Wakee
  /\ IsFiniteSet(Wakee) /\ MemberOwner \subseteq Owner /\ NoInstance \notin Instance
  /\ \A n \in {MaxCalls, MaxMishaps, MaxShifts, MaxTroubles} : n \in Nat

WakeCall == 1 .. MaxCalls

VARIABLES
  channel,    \* its kind, and whether its manager triages such a message
  owner,      \* agent, computer -> its user
  seated,     \* channel_members of type agent
  serving,     \* agents with duty = 'on'
  known,      \* <<agent, computer>>: registered there
  attached,       \* computer -> the instance it is connected to
  post,       \* its author and the agents its text names
  row,        \* the call whose INSERT stored the message; 0: none yet
  sends,      \* call -> how far it is, where, and what its message carries
  resolving,  \* calls in broadcast(), before the members are known
  wire,       \* <<instance, call>>: published, not yet received there
  frames,     \* computer, call -> frames not yet handled
  rejoined,   \* history: computers that connected again
  wakes,      \* history: computer, agent -> times started, by mention or mail and by triage
  entitled,   \* history: members on duty when somebody looked
  mishaps, shifts   \* failures and changes so far

wakeVars == <<channel, owner, seated, serving, known, attached, post, row, sends, resolving,
              wire, frames, rejoined, wakes, entitled, mishaps, shifts>>

Unsent == [stage |-> "none", at |-> NoInstance, wake |-> {}, triage |-> {}, reach |-> {}]

WakeInit ==
  /\ channel \in [kind : {"public", "private", "dm"}, triage : BOOLEAN]
  /\ channel.kind = "dm" => ~channel.triage
  /\ owner \in [Wakee \cup Computer -> Owner]
  /\ seated \in SUBSET Wakee
  /\ channel.kind = "dm" => Cardinality(seated) = 1
  /\ serving \in SUBSET Wakee
  /\ known = {k \in serving \X Computer : owner[k[1]] = owner[k[2]]}
  /\ attached \in [Computer -> Instance]
  /\ post = [author |-> "human", text |-> {}]
  /\ row = 0 /\ sends = [c \in WakeCall |-> Unsent]
  /\ resolving = {} /\ wire = {} /\ frames = [k \in Computer \X WakeCall |-> 0]
  /\ wakes = [k \in Computer \X Wakee |-> [called |-> 0, triage |-> 0]]
  /\ rejoined = {} /\ entitled = {} /\ mishaps = 0 /\ shifts = 0

Place == <<channel, owner, post>>
Seats == <<seated, serving, known>>
Counts == <<mishaps, shifts>>
Links == <<attached, rejoined>>

Stages(c, s) == sends' = [sends EXCEPT ![c].stage = s]
Mishap == /\ mishaps < MaxMishaps /\ mishaps + shifts < MaxTroubles
          /\ mishaps' = mishaps + 1 /\ UNCHANGED shifts
-----------------------------------------------------------------------------
(* The send routes                                                           *)

\* what may be sent: a mail need not name its agent, and an agent that writes names everybody
Posts == [author : {"human"}, text : IF channel.kind = "dm" THEN {{}} ELSE SUBSET Wakee]
           \cup [author : {"agent"}, text : {Wakee}]

\* The sender calls, and calls again as long as it saw no answer: a slow call, a lost one and
\* a lost answer are the same to it.  All calls carry the same message and the same nonce.
CallSend(c, i) ==
  /\ \A b \in WakeCall : b < c <=> sends[b].stage # "none"
  /\ sends' = [sends EXCEPT ![c].stage = "arrived", ![c].at = i]
  /\ IF c = 1 THEN post' \in Posts ELSE UNCHANGED post
  /\ UNCHANGED <<channel, owner, Seats, Links, row, resolving, wire, frames, wakes, entitled,
                 Counts>>

\* agents the text names that the sender can see
Named == LET visible == IF channel.kind = "public" THEN Local \cup Mine \cup seated
                                                   ELSE seated
         IN  post.text \cap serving \cap visible

\* those of them that a mention brings into a public channel
Joining == IF channel.kind = "public" THEN Named \cap (Willing \cup Mine \cup seated) ELSE {}

\* mentionAgents: of those named, the ones that are members now
Wakeable(s) == Named \cap s

\* The transaction of the first call: the row, who joins, who may be woken.  A message of an
\* agent and a private mail name nobody.
StoreMessage(c) ==
  /\ sends[c].stage = "arrived" /\ row = 0
  /\ row' = c
  /\ LET names == post.author = "human" /\ channel.kind # "dm"
         s     == seated \cup (IF names THEN Joining ELSE {})
     IN  /\ seated' = s /\ entitled' = entitled \cup (s \cap serving)
         /\ sends' = [sends EXCEPT ![c].stage = "stored",
                                   ![c].wake = IF names THEN Wakeable(s) ELSE {}]
  /\ UNCHANGED <<Place, serving, known, Links, resolving, wire, frames, wakes, Counts>>

\* ON CONFLICT DO NOTHING: a further call is answered with the row and does nothing else
ReplayIsAnswered(c) ==
  /\ sends[c].stage = "arrived" /\ row # 0
  /\ Stages(c, "answered")
  /\ UNCHANGED <<Place, Seats, Links, row, resolving, wire, frames, wakes, entitled, Counts>>

\* computeTriageAgents: a message at the top of a channel that calls nobody
Triages(wake) ==
  channel.triage /\ post.author = "human" /\ channel.kind # "dm" /\ wake = {}

\* What is looked up after the commit: the manager, or the agent a mail is for.  When the
\* search for the manager fails the message goes out without; then broadcast() starts and
\* nobody waits for it.
LookUpReaders(c) ==
  /\ sends[c].stage = "stored"
  /\ LET here == seated \cap serving
     IN  /\ \/ /\ UNCHANGED Counts
               /\ sends' = [sends EXCEPT
                    ![c].stage = "decided",
                    ![c].wake = IF channel.kind = "dm" THEN here ELSE @,
                    ![c].triage = IF Triages(sends[c].wake) THEN here \cap {Manager} ELSE {}]
            \/ /\ Triages(sends[c].wake) /\ Mishap
               /\ Stages(c, "decided")
         /\ entitled' = entitled \cup here
  /\ resolving' = resolving \cup {c}
  /\ UNCHANGED <<Place, Seats, Links, row, wire, frames, wakes>>

\* any other query after the commit fails: an error for the sender, and no broadcast
SendFails(c) ==
  /\ sends[c].stage = "stored" /\ Mishap
  /\ Stages(c, "failed")
  /\ UNCHANGED <<Place, Seats, Links, row, resolving, wire, frames, wakes, entitled>>
-----------------------------------------------------------------------------
(* broadcast() and the instances                                             *)

\* the computers that may hear the message: of members of the server, in a public channel,
\* and of the owners of agents that are members of the channel now
Reach == {d \in Computer : \/ \E a \in seated : owner[a] = owner[d]
                           \/ channel.kind = "public" /\ owner[d] \in MemberOwner}

\* deliver(): instance i sends the message of call c to the computers it holds
Delivered(i, c, reach) ==
  [k \in Computer \X WakeCall |->
     IF k[2] = c /\ k[1] \in reach /\ attached[k[1]] = i THEN frames[k] + 1 ELSE frames[k]]

\* the members are known: handed out here, and published for every instance
PublishMessage(c) ==
  /\ c \in resolving /\ resolving' = resolving \ {c}
  /\ frames' = Delivered(sends[c].at, c, Reach)
  /\ sends' = [sends EXCEPT ![c].reach = Reach]
  /\ wire' = wire \cup (Instance \X {c})
  /\ UNCHANGED <<Place, Seats, Links, row, wakes, entitled, Counts>>

\* the members cannot be resolved: nobody hears the message
DropMessage(c) ==
  /\ c \in resolving /\ resolving' = resolving \ {c}
  /\ Mishap
  /\ UNCHANGED <<Place, Seats, Links, row, sends, wire, frames, wakes, entitled>>

\* unwrapLooped: the instance has handed this one out already
IsOwn(i, c) == sends[c].at = i

ReceivePublished(i, c) ==
  /\ <<i, c>> \in wire /\ wire' = wire \ {<<i, c>>}
  /\ frames' = IF IsOwn(i, c) THEN frames ELSE Delivered(i, c, sends[c].reach)
  /\ UNCHANGED <<Place, Seats, Links, row, sends, resolving, wakes, entitled, Counts>>

\* the broker is down, or the subscription is being renewed
LosePublished(i, c) ==
  /\ <<i, c>> \in wire /\ wire' = wire \ {<<i, c>>}
  /\ Mishap
  /\ UNCHANGED <<Place, Seats, Links, row, sends, resolving, frames, wakes, entitled>>
-----------------------------------------------------------------------------
(* The daemon                                                                *)

\* hasAgent
Here(d) == {a \in Wakee : <<a, d>> \in known}

Wakes(d, A, how) ==
  wakes' = [k \in Computer \X Wakee |->
              IF k \in {d} \X A THEN [wakes[k] EXCEPT ![how] = @ + 1] ELSE wakes[k]]

\* a plausible fault: the messages of agents are read as those of humans are
NoLoopGuard(d, c) ==
  LET mine == Here(d) \cap (IF post.author = "human" THEN sends[c].wake ELSE post.text)
  IN  IF mine # {} THEN \E a \in mine : Wakes(d, {a}, "called") ELSE UNCHANGED wakes

\* handleAgentDeliver: a message of an agent wakes nobody; a mail wakes whom it is for; else
\* the first agent called that lives here, or else the manager if it lives here
DeliverWakes(d, c) ==
  LET called == sends[c].wake \cap Here(d)
  IN  IF post.author = "agent" THEN UNCHANGED wakes
      ELSE IF channel.kind = "dm" THEN Wakes(d, called, "called")
      ELSE IF called # {} THEN \E a \in called : Wakes(d, {a}, "called")
      ELSE Wakes(d, sends[c].triage \cap Here(d), "triage")

HandleDeliver(d, c) ==
  /\ frames[<<d, c>>] > 0 /\ frames' = [frames EXCEPT ![<<d, c>>] = @ - 1]
  /\ DeliverWakes(d, c)
  /\ UNCHANGED <<Place, Seats, Links, row, sends, resolving, wire, entitled, Counts>>

\* agent:duty, and loadExistingAgents, which lists the owner's agents wherever they belong: a
\* computer learns who is on duty
LearnDuty(a, d) ==
  /\ owner[a] = owner[d] /\ (<<a, d>> \in known) # (a \in serving)
  /\ known' = IF a \in serving THEN known \cup {<<a, d>>} ELSE known \ {<<a, d>>}
  /\ UNCHANGED <<Place, seated, serving, Links, row, sends, resolving, wire, frames, wakes,
                 entitled, Counts>>
-----------------------------------------------------------------------------
(* Changes of the roster, and failures                                       *)

Shift == /\ shifts < MaxShifts /\ mishaps + shifts < MaxTroubles /\ shifts' = shifts + 1
         /\ UNCHANGED <<Place, known, Links, row, sends, resolving, wire, frames, wakes,
                        entitled, mishaps>>

LeaveChannel(a) ==
  a \in seated /\ channel.kind # "dm" /\ Shift /\ seated' = seated \ {a} /\ UNCHANGED serving

ChangeDuty(a) ==
  Shift /\ UNCHANGED seated
  /\ serving' = IF a \in serving THEN serving \ {a} ELSE serving \cup {a}

\* the socket of a computer closes, and what was on its way is lost
Disconnect(d) ==
  /\ attached[d] # NoInstance /\ Mishap
  /\ attached' = [attached EXCEPT ![d] = NoInstance]
  /\ frames' = [k \in Computer \X WakeCall |-> IF k[1] = d THEN 0 ELSE frames[k]]
  /\ UNCHANGED <<Place, Seats, rejoined, row, sends, resolving, wire, wakes, entitled>>

Reconnect(d, i) ==
  /\ attached[d] = NoInstance
  /\ attached' = [attached EXCEPT ![d] = i] /\ rejoined' = rejoined \cup {d}
  /\ UNCHANGED <<Place, Seats, row, sends, resolving, wire, frames, wakes, entitled, Counts>>

\* an instance goes down with the calls it works on, its connections and its subscription
CrashInstance(i) ==
  /\ \E c \in WakeCall : sends[c].at = i
  /\ Mishap
  /\ sends' = [c \in WakeCall |->
                 IF sends[c].at = i /\ sends[c].stage \in {"arrived", "stored", "decided"}
                 THEN [sends[c] EXCEPT !.stage = "lost"] ELSE sends[c]]
  /\ resolving' = {c \in resolving : sends[c].at # i}
  /\ wire' = {m \in wire : m[1] # i}
  /\ attached' = [d \in Computer |-> IF attached[d] = i THEN NoInstance ELSE attached[d]]
  /\ UNCHANGED <<Place, Seats, rejoined, row, frames, wakes, entitled>>

WakeNext ==
  \/ \E c \in WakeCall :
       \/ \E i \in Instance : CallSend(c, i) \/ ReceivePublished(i, c) \/ LosePublished(i, c)
       \/ \E d \in Computer : HandleDeliver(d, c)
       \/ StoreMessage(c) \/ ReplayIsAnswered(c) \/ LookUpReaders(c)
       \/ SendFails(c) \/ PublishMessage(c) \/ DropMessage(c)
  \/ \E a \in Wakee : \/ LeaveChannel(a) \/ ChangeDuty(a)
                     \/ \E d \in Computer : LearnDuty(a, d)
  \/ \E d \in Computer : Disconnect(d) \/ \E i \in Instance : Reconnect(d, i)
  \/ \E i \in Instance : CrashInstance(i)

WakeSpec == WakeInit /\ [][WakeNext]_wakeVars
-----------------------------------------------------------------------------
(* Properties                                                                *)

\* Every variable has its type.
WakeTypeOK ==
  /\ seated \subseteq Wakee /\ serving \subseteq Wakee
  /\ known \subseteq Wakee \X Computer
  /\ attached \in [Computer -> Instance \cup {NoInstance}]
  /\ row \in 0 .. MaxCalls /\ resolving \subseteq WakeCall
  /\ wire \subseteq Instance \X WakeCall
  /\ frames \in [Computer \X WakeCall -> Nat]

Times(d, a) == wakes[<<d, a>>].called + wakes[<<d, a>>].triage
Woken == {a \in Wakee : \E d \in Computer : Times(d, a) > 0}
CalledHere(d) == {a \in Wakee : wakes[<<d, a>>].called > 0}

\* However often it is sent and whichever instances hand it on, a message wakes one agent of
\* a computer at most, and that one once, unless the computer was connected anew meanwhile;
\* it wakes only agents that were members on duty while the message was being sent, and the
\* manager only when it wakes no one else.  What an agent says wakes nobody, so agents cannot
\* keep each other awake.
WakesAreWarranted ==
  /\ \A d \in Computer \ rejoined :
       /\ Cardinality(CalledHere(d)) <= 1
       /\ \A a \in Wakee : Times(d, a) <= 1
  /\ Woken \subseteq entitled
  /\ (\E k \in DOMAIN wakes : wakes[k].triage > 0) => Woken = {Manager}
  /\ post.author = "agent" => Woken = {}

\* the message is stored and no part of sending it is left to do
SendingIsOver ==
  /\ row # 0 /\ sends[row].stage = "decided"
  /\ resolving = {} /\ wire = {} /\ \A k \in DOMAIN frames : frames[k] = 0

HasComputer(a) == \E d \in Computer : owner[d] = owner[a]

\* When nothing failed and nobody moved, a message of a human is heard on every computer it
\* calls: one of the members named there wakes, whichever instance the computer is connected
\* to; a mail wakes its agent; a message that calls no one wakes the manager who triages, if
\* its owner has a computer.
NobodyIsMissed ==
  mishaps = 0 /\ shifts = 0 /\ SendingIsOver /\ post.author = "human" =>
    LET asked == seated \cap serving \cap (IF channel.kind = "dm" THEN Wakee ELSE post.text)
    IN  /\ \A a \in asked, d \in Computer : owner[a] = owner[d] => CalledHere(d) # {}
        /\ asked = {} /\ channel.triage
             => ((Manager \in seated \cap serving /\ HasComputer(Manager)) <=> Woken = {Manager})

\* A mention brings no agent into a channel that neither is the sender's nor agreed to it.
OnlyTheWillingJoin == [][seated' \subseteq seated \cup Willing \cup Mine]_wakeVars

\* Mentions, mail and messages to nobody in particular reach whom they should, and no one
\* else, whatever is repeated, lost or changed on the way.
MessagesFindTheirAgent == [](WakesAreWarranted /\ NobodyIsMissed) /\ OnlyTheWillingJoin

\* Not kept by the code: a frame reaches a daemon once (lib/pubsub.ts:14-19).  A computer that
\* connects to another instance before the published copy gets there is handed it again.
DeliveredOnce == \A d \in Computer, a \in Wakee : Times(d, a) <= 1

\* Not kept by the code: an agent runs on one computer of its owner (the binding of
\* docs/2026-09-19/01-server-scoped-computers.md:44).  Every computer of the owner lists it.
WakesAtOnePlace == \A a \in Wakee : Cardinality({d \in Computer : Times(d, a) > 0}) <= 1

\* Not kept by the code: what the sender is told was sent is handed out, or still will be.  A
\* call that stored the message and then failed is answered on the retry, and nobody hears it.
AnsweredIsHeard ==
  (\E c \in WakeCall : sends[c].stage = "answered")
    => \E c \in WakeCall : sends[c].stage \in {"stored", "decided"}
=============================================================================
