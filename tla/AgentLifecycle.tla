--------------------------- MODULE AgentLifecycle ---------------------------
(***************************************************************************)
(* One agent of the daemon: its five-state machine                         *)
(* (agent-runtime-state.ts), the stop generation and the halts             *)
(* (agent-runtime.ts), one dispatch with all its awaits                    *)
(* (agent-runtime-dispatch.ts, agent-runtime-dispatch-headless.ts), the    *)
(* persistent session it creates or reuses, the idle reclaimer             *)
(* (idle-reclaimer.ts) and the 15 s startup timer.                         *)
(*                                                                         *)
(* The queue runs one delivery of an agent at a time (SerialDelivery in    *)
(* DispatchQueue), so there is one dispatch.  An action is one JavaScript  *)
(* task: what a dispatch does between two awaits, an event of the session, *)
(* a timer, a call of the daemon's other parts.                            *)
(*                                                                         *)
(* Sessions follow persistent-jsonl-worker.ts: the handshake is a part of  *)
(* the turn, and a stop with no turn out ends the session at once.  Left   *)
(* out: the PTY and one-shot paths, the turn guard, token files, prompts.  *)
(* A direct message skips the first await; that is an answer at once here. *)
(***************************************************************************)
EXTENDS Naturals

CONSTANTS
  Session,    \* session objects; a finished one is used again
  NoSession,
  MaxHalts,   \* bound: stops, unregistrations, registrations
  MaxEdits    \* bound: changes of the runtime profile

ASSUME ConstantsAssumption ==
  /\ NoSession \notin Session
  /\ MaxHalts \in Nat
  /\ MaxEdits \in Nat

VARIABLES
  status,      \* the state machine
  timer,       \* the startup timer is armed
  stopGen,     \* stopGeneration
  registered,  \* agentDrivers has the agent
  closing,     \* stopAll was called
  profile,     \* identity of the resolved runtime profile
  recorded,    \* sessionIdentities, 0: none
  issued,      \* credentialIssuedAt has the agent
  mapped,      \* persistentSessions
  session,     \* the session objects
  tracked,     \* the idle reclaimer: "no", "fresh" or "old" activity
  dispatch     \* the dispatch that runs, or Idle

agentVars == <<stopGen, registered, closing, profile>>
vars == <<status, timer, agentVars, recorded, issued, mapped, session, tracked, dispatch>>

Idle == [stage |-> "none", gen |-> 0, identity |-> 0, spawn |-> FALSE, session |-> NoSession, turn |-> "none"]
Preparing == {"context", "mint", "bundle", "create", "ensure"}

Init ==
  /\ status = "uninit"
  /\ timer = FALSE
  /\ stopGen = 0
  /\ registered = FALSE
  /\ closing = FALSE
  /\ profile = 1
  /\ recorded = 0
  /\ issued = FALSE
  /\ mapped = NoSession
  /\ session = [s \in Session |-> "none"]
  /\ tracked = "no"
  /\ dispatch = Idle

-----------------------------------------------------------------------------
(* VALID_TRANSITIONS, transitionState: an invalid move is ignored, a valid *)
(* one disarms the startup timer, also when the state stays the same.      *)
Moves(from, to) ==
  \/ from = to
  \/ to = "stopped"
  \/ to = "idle"
  \/ to = "starting" /\ from = "idle"
  \/ to = "working" /\ from \in {"idle", "starting"}

Transition(to) ==
  /\ status' = IF Moves(status, to) THEN to ELSE status
  /\ timer' = (timer /\ ~Moves(status, to))

(* Variants of a definition with a fault, named for the fault, stand in    *)
(* front of it; no action uses them.                                       *)
ReleaseKeepsTimer ==
  /\ status' = IF status = "stopped" THEN status ELSE "idle"
  /\ timer' = timer

ReleaseToIdle ==
  /\ status' = IF status = "stopped" THEN status ELSE "idle"
  /\ timer' = FALSE

(* stop() of a session: a turn that is out gets its grace. *)
TurnOut == dispatch.stage = "turn" /\ dispatch.turn = "pending"
Stopped(s) ==
  IF s = NoSession THEN session
  ELSE [session EXCEPT ![s] = IF @ = "open" /\ TurnOut /\ dispatch.session = s THEN "stopping" ELSE "none"]

TearDownForgetsStop ==
  /\ session' = session
  /\ mapped' = NoSession
  /\ recorded' = 0
  /\ issued' = FALSE
  /\ tracked' = "no"

(* tearDownAgentProcess *)
TearDown ==
  /\ session' = Stopped(mapped)
  /\ mapped' = NoSession
  /\ recorded' = 0
  /\ issued' = FALSE
  /\ tracked' = "no"

-----------------------------------------------------------------------------
(* The dispatch, from await to await. *)

Cut == dispatch.gen # stopGen \/ status = "stopped"

(* The catch around the whole dispatch. *)
Fail ==
  /\ ReleaseToIdle
  /\ tracked' = "fresh"
  /\ dispatch' = Idle

(* doDispatch and the first part of dispatchHeadlessTurn: a session opened *)
(* for another profile is dropped.                                         *)
BeginDispatch ==
  /\ dispatch = Idle
  /\ ~closing
  /\ registered
  /\ status # "stopped"
  /\ tracked' = "no"
  /\ LET drop == mapped # NoSession /\ recorded # profile
         spawn == mapped = NoSession \/ drop IN
     /\ session' = IF drop THEN Stopped(mapped) ELSE session
     /\ mapped' = IF drop THEN NoSession ELSE mapped
     /\ recorded' = IF drop THEN 0 ELSE recorded
     /\ issued' = (issued /\ ~drop)
     /\ IF spawn
          THEN /\ status' = IF Moves(status, "starting") THEN "starting" ELSE status
               /\ timer' = TRUE
          ELSE UNCHANGED <<status, timer>>
     /\ dispatch' = [Idle EXCEPT !.stage = "context", !.gen = stopGen, !.identity = profile, !.spawn = spawn]
  /\ UNCHANGED agentVars

AskForgetsTheSession ==
  IF mapped # NoSession
    THEN /\ dispatch' = [dispatch EXCEPT !.stage = "ensure"]
         /\ UNCHANGED <<status, timer, tracked>>
    ELSE \/ /\ dispatch' = [dispatch EXCEPT !.stage = "create"]
            /\ UNCHANGED <<status, timer, tracked>>
         \/ Fail

(* ensurePersistentSession: the session of the map, or one that a          *)
(* microtask is going to create.  The crash guard may refuse to create.    *)
AskForSession ==
  IF mapped # NoSession
    THEN /\ dispatch' = [dispatch EXCEPT !.stage = "ensure", !.session = mapped]
         /\ UNCHANGED <<status, timer, tracked>>
    ELSE \/ /\ dispatch' = [dispatch EXCEPT !.stage = "create"]
            /\ UNCHANGED <<status, timer, tracked>>
         \/ Fail

(* fetchDispatchContext came back, with a context or without. *)
ContextArrives ==
  /\ dispatch.stage = "context"
  /\ IF Cut THEN Fail
     ELSE \/ /\ dispatch' = [dispatch EXCEPT !.stage = "mint"]
             /\ UNCHANGED <<status, timer, tracked>>
          \/ /\ ~dispatch.spawn
             /\ issued
             /\ AskForSession
  /\ UNCHANGED <<agentVars, recorded, issued, mapped, session>>

MintArrives ==
  /\ dispatch.stage = "mint"
  /\ IF Cut THEN Fail /\ issued' = issued
     ELSE /\ issued' = TRUE
          /\ IF dispatch.spawn
               THEN /\ dispatch' = [dispatch EXCEPT !.stage = "bundle"]
                    /\ UNCHANGED <<status, timer, tracked>>
               ELSE AskForSession
  /\ UNCHANGED <<agentVars, recorded, mapped, session>>

MintFails ==
  /\ dispatch.stage = "mint"
  /\ Fail
  /\ UNCHANGED <<agentVars, recorded, issued, mapped, session>>

BundleArrives ==
  /\ dispatch.stage = "bundle"
  /\ IF Cut THEN Fail ELSE AskForSession
  /\ UNCHANGED <<agentVars, recorded, issued, mapped, session>>

(* The microtask of ensurePersistentSession.  It does not look whether the *)
(* agent was stopped.                                                      *)
CreateSession ==
  /\ dispatch.stage = "create"
  /\ IF mapped # NoSession
       THEN /\ dispatch' = [dispatch EXCEPT !.stage = "ensure", !.session = mapped]
            /\ UNCHANGED <<mapped, session>>
       ELSE \E s \in Session :
              /\ session[s] = "none"
              /\ session' = [session EXCEPT ![s] = "open"]
              /\ mapped' = s
              /\ dispatch' = [dispatch EXCEPT !.stage = "ensure", !.session = s]
  /\ UNCHANGED <<status, timer, agentVars, recorded, issued, tracked>>

OpenFails ==
  /\ dispatch.stage = "create"
  /\ Fail
  /\ UNCHANGED <<agentVars, recorded, issued, mapped, session>>

RefuseCutLeavesSession ==
  /\ Cut
  /\ Fail
  /\ UNCHANGED <<recorded, issued, mapped, session>>

(* The session is there: enterWorking refuses a dispatch that was cut off  *)
(* and takes the session down again; otherwise the turn is sent.           *)
RefuseCut ==
  /\ Cut
  /\ session' = Stopped(mapped)
  /\ mapped' = NoSession
  /\ recorded' = 0
  /\ issued' = FALSE
  /\ Fail

SessionLost ==
  /\ ~Cut
  /\ mapped # dispatch.session
  /\ recorded' = dispatch.identity
  /\ Fail
  /\ UNCHANGED <<issued, mapped, session>>

SendTurnIgnoresHalt ==
  /\ mapped = dispatch.session
  /\ recorded' = dispatch.identity
  /\ Transition("working")
  /\ tracked' = "no"
  /\ dispatch' = [dispatch EXCEPT !.stage = "turn",
                                  !.turn = IF session[mapped] = "open" THEN "pending" ELSE "rejected"]
  /\ UNCHANGED <<issued, mapped, session>>

SendTurn ==
  /\ ~Cut
  /\ mapped = dispatch.session
  /\ recorded' = dispatch.identity
  /\ Transition("working")
  /\ tracked' = "no"
  /\ dispatch' = [dispatch EXCEPT !.stage = "turn",
                                  !.turn = IF session[mapped] = "open" THEN "pending" ELSE "rejected"]
  /\ UNCHANGED <<issued, mapped, session>>

SessionArrives ==
  /\ dispatch.stage = "ensure"
  /\ RefuseCut \/ SessionLost \/ SendTurn
  /\ UNCHANGED agentVars

(* The promise of send is settled: a resolved turn ends the dispatch, a    *)
(* rejected one drops its session first.                                   *)
SendResolved ==
  /\ dispatch.stage = "turn"
  /\ dispatch.turn = "resolved"
  /\ dispatch' = Idle
  /\ UNCHANGED <<status, timer, agentVars, recorded, issued, mapped, session, tracked>>

SendRejected ==
  /\ dispatch.stage = "turn"
  /\ dispatch.turn = "rejected"
  /\ issued' = FALSE
  /\ IF mapped = dispatch.session
       THEN /\ session' = Stopped(mapped)
            /\ mapped' = NoSession
            /\ recorded' = 0
       ELSE UNCHANGED <<session, mapped, recorded>>
  /\ Fail
  /\ UNCHANGED agentVars

-----------------------------------------------------------------------------
(* Events of the session. *)

BackToIdleOnlyTouches ==
  /\ tracked' = "fresh"
  /\ UNCHANGED <<status, timer>>

(* What the handlers of turn.end and of an exit do with a working agent.   *)
BackToIdle ==
  IF status = "working"
    THEN Transition("idle") /\ tracked' = "fresh"
    ELSE UNCHANGED <<status, timer, tracked>>

Settle(result, s) ==
  /\ dispatch' = [dispatch EXCEPT !.turn = result]
  /\ session' = [session EXCEPT ![dispatch.session] = s]

(* turn.end: the event and the settled promise, in one task. *)
TurnEnds ==
  /\ TurnOut
  /\ BackToIdle
  /\ \E result \in {"resolved", "rejected"} :
       Settle(result, IF session[dispatch.session] = "stopping" THEN "none" ELSE "open")
  /\ UNCHANGED <<agentVars, recorded, issued, mapped>>

TurnTimesOutUnlessStopping ==
  /\ TurnOut
  /\ session[dispatch.session] = "open"
  /\ Settle("rejected", "dead")
  /\ UNCHANGED <<status, timer, agentVars, recorded, issued, mapped, tracked>>

(* The silence timer of an open session, the grace timer of a stopping one.*)
TurnTimesOut ==
  /\ TurnOut
  /\ Settle("rejected", IF session[dispatch.session] = "stopping" THEN "none" ELSE "dead")
  /\ UNCHANGED <<status, timer, agentVars, recorded, issued, mapped, tracked>>

(* The process exits by itself; a stopping session says nothing of it. *)
ProcessExits(s) ==
  /\ session[s] \in {"open", "stopping"}
  /\ session' = [session EXCEPT ![s] = IF @ = "open" THEN "dead" ELSE "none"]
  /\ dispatch' = IF TurnOut /\ dispatch.session = s THEN [dispatch EXCEPT !.turn = "rejected"] ELSE dispatch
  /\ IF session[s] = "open" THEN BackToIdle ELSE UNCHANGED <<status, timer, tracked>>
  /\ UNCHANGED <<agentVars, recorded, issued, mapped>>

-----------------------------------------------------------------------------
(* Timers. *)

StartupTimeoutTouches ==
  /\ timer
  /\ ReleaseToIdle
  /\ tracked' = "fresh"
  /\ UNCHANGED <<agentVars, recorded, issued, mapped, session, dispatch>>

StartupTimeout ==
  /\ timer
  /\ ReleaseToIdle
  /\ UNCHANGED <<agentVars, recorded, issued, mapped, session, tracked, dispatch>>

(* The timeout of the reclaimer has passed since the last activity. *)
ActivityAges ==
  /\ tracked = "fresh"
  /\ tracked' = "old"
  /\ UNCHANGED <<status, timer, agentVars, recorded, issued, mapped, session, dispatch>>

Reclaim ==
  /\ tracked = "old"
  /\ ~closing
  /\ status \notin {"working", "starting"}
  /\ session' = Stopped(mapped)
  /\ mapped' = NoSession
  /\ issued' = (issued /\ mapped = NoSession)
  /\ tracked' = "no"
  /\ UNCHANGED <<status, timer, agentVars, recorded, dispatch>>

-----------------------------------------------------------------------------
(* haltAgent *)
Halt(to) ==
  /\ stopGen < MaxHalts
  /\ stopGen' = stopGen + 1
  /\ timer' = FALSE
  /\ status' = IF to = "stopped" \/ status \notin {"uninit", "stopped"} THEN to ELSE status
  /\ TearDown
  /\ UNCHANGED <<profile, dispatch>>

StopAgent ==
  /\ ~closing
  /\ Halt("idle")
  /\ UNCHANGED <<registered, closing>>

UnregisterAgent ==
  /\ ~closing
  /\ registered
  /\ Halt("stopped")
  /\ registered' = FALSE
  /\ UNCHANGED closing

StopAll ==
  /\ ~closing
  /\ Halt("stopped")
  /\ closing' = TRUE
  /\ UNCHANGED registered

(* registerAgent of a new agent: a halt, then idle. *)
RegisterAgent ==
  /\ ~closing
  /\ ~registered
  /\ stopGen < MaxHalts
  /\ stopGen' = stopGen + 1
  /\ registered' = TRUE
  /\ Transition("idle")
  /\ TearDown
  /\ UNCHANGED <<closing, profile, dispatch>>

(* loadExistingAgents, on a connect: the agent is on duty again, and what  *)
(* is known of its profile is overwritten.  Neither halts anything.        *)
LoadAgent ==
  /\ ~closing
  /\ ~registered
  /\ registered' = TRUE
  /\ Transition("idle")
  /\ UNCHANGED <<stopGen, closing, profile, recorded, issued, mapped, session, tracked, dispatch>>

ReloadProfile ==
  /\ ~closing
  /\ registered
  /\ profile < MaxEdits + 1
  /\ profile' = profile + 1
  /\ UNCHANGED <<status, timer, stopGen, registered, closing, recorded, issued, mapped, session, tracked, dispatch>>

(* registerAgent of a registered one, with another profile: a session of   *)
(* the old profile is torn down, the generation stays.                     *)
EditAgent ==
  /\ ~closing
  /\ registered
  /\ profile < MaxEdits + 1
  /\ profile' = profile + 1
  /\ IF recorded # 0 THEN TearDown ELSE UNCHANGED <<recorded, issued, mapped, session, tracked>>
  /\ UNCHANGED <<status, timer, stopGen, registered, closing, dispatch>>

-----------------------------------------------------------------------------
DispatchStep ==
  \/ ContextArrives
  \/ MintArrives
  \/ MintFails
  \/ BundleArrives
  \/ CreateSession
  \/ OpenFails
  \/ SessionArrives
  \/ SendResolved
  \/ SendRejected

Next ==
  \/ BeginDispatch
  \/ DispatchStep
  \/ TurnEnds
  \/ TurnTimesOut
  \/ \E s \in Session : ProcessExits(s)
  \/ StartupTimeout
  \/ ActivityAges
  \/ Reclaim
  \/ StopAgent
  \/ UnregisterAgent
  \/ StopAll
  \/ RegisterAgent
  \/ LoadAgent
  \/ ReloadProfile
  \/ EditAgent

Spec == Init /\ [][Next]_vars

(* Requests to the server and microtasks settle (fetch gives up by itself),*)
(* the silence and grace timers run.  Nothing is assumed of the worker.    *)
Fairness ==
  /\ WF_vars(DispatchStep)
  /\ WF_vars(TurnTimesOut)

FairSpec == Spec /\ Fairness

-----------------------------------------------------------------------------
(* Properties. *)

Dispatch == [stage : Preparing \cup {"none", "turn"}, gen : Nat, identity : Nat, spawn : BOOLEAN,
             session : Session \cup {NoSession}, turn : {"none", "pending", "resolved", "rejected"}]

(* Every variable has its type; a dispatch holds a session from the moment *)
(* it was given one and a turn from the moment it sent it.                 *)
TypeOK ==
  /\ status \in {"uninit", "idle", "starting", "working", "stopped"}
  /\ timer \in BOOLEAN
  /\ stopGen \in Nat
  /\ registered \in BOOLEAN
  /\ closing \in BOOLEAN
  /\ profile \in Nat \ {0}
  /\ recorded \in Nat
  /\ issued \in BOOLEAN
  /\ mapped \in Session \cup {NoSession}
  /\ session \in [Session -> {"none", "open", "dead", "stopping"}]
  /\ tracked \in {"no", "fresh", "old"}
  /\ dispatch \in Dispatch
  /\ dispatch.session # NoSession <=> dispatch.stage \in {"ensure", "turn"}
  /\ dispatch.turn # "none" <=> dispatch.stage = "turn"

(* The state the user sees is the truth: a working agent has a dispatch    *)
(* that waits for a turn, and a turn that runs shows as working unless the *)
(* agent was halted meanwhile.  Nothing else takes a lost "working" back.  *)
WorkingIsATurn ==
  /\ status = "working" => dispatch.stage = "turn"
  /\ TurnOut /\ ~Cut => status = "working"

(* A halt reaches the turn: whatever await the dispatch was at, no turn    *)
(* runs on a session that nobody told to stop.                             *)
HaltReachesTheTurn == TurnOut /\ Cut => session[dispatch.session] # "open"

(* No orphan process: an open session is the one of the map, so the next   *)
(* halt or the reclaimer can stop it; a stopping one belongs to the turn.  *)
NoOrphan ==
  \A s \in Session :
    /\ session[s] = "open" => mapped = s
    /\ session[s] = "stopping" => TurnOut /\ dispatch.session = s

(* A stopped agent keeps no process, but for the instant between the       *)
(* microtask that creates a session and the dispatch that takes it down.   *)
StoppedIsQuiet == status = "stopped" => ~timer /\ (mapped = NoSession \/ dispatch.stage = "ensure")

(* The reclaimer tracks an agent only between dispatches, also while the   *)
(* state machine says idle after a startup timeout.                        *)
TrackedIsIdle == tracked # "no" => dispatch.stage = "none" \/ (dispatch.stage = "turn" /\ ~TurnOut)

(* The startup timer belongs to a dispatch that still prepares; it never   *)
(* outlives it to set a later turn idle.                                   *)
TimerHasItsDispatch ==
  timer \/ status = "starting" => dispatch.stage \in Preparing /\ dispatch.spawn

(* Neither of the two timers of an agent, idle and startup, can fire into  *)
(* a dispatch it was not armed for.                                        *)
TimersFitTheDispatch == TrackedIsIdle /\ TimerHasItsDispatch

(* Every dispatch ends, so that the agent's queue is not held for ever.    *)
DispatchEnds == (dispatch.stage # "none") ~> (dispatch.stage = "none")

(* A session is opened only by a dispatch that prepared the workspace, the *)
(* token file and the environment it is given.                             *)
SpawnIsPrepared ==
  [][\A s \in Session : session[s] = "none" /\ session'[s] = "open" => dispatch.spawn]_vars
=============================================================================
