----------------------------- MODULE DaemonProofs -----------------------------
(* Proofs about what the daemon does around an agent's turns: the life cycle of the agent *)
(* and of what its dispatches, halts and timers may still do to it; the guard and the      *)
(* progress message that give a channel its answer; the ledger of what turns cost; and     *)
(* what starts again what has died, the breaker before a worker that keeps crashing and    *)
(* the supervisor above the daemon.  All hold for any number of sessions, turns, stops,     *)
(* reports and crashes, every threshold and cool-down.                                       *)
EXTENDS MCDaemon, SessionProofs, FiniteSetTheorems, WellFoundedInduction, TLAPS

-----------------------------------------------------------------------------
(* What a running dispatch knows.  Its generation is the current one or an *)
(* older one; as long as it is the current one, nobody has unregistered or *)
(* stopped the agent; the turn it waits for runs on a session that is open *)
(* or stopping, and the map holds that session or none.                    *)
Running == dispatch.stage # "none"
DispatchFacts ==
  /\ dispatch.gen <= stopGen
  /\ Running => status # "uninit"
  /\ Running /\ dispatch.gen = stopGen => registered /\ status # "stopped"
  /\ dispatch.turn = "resolved" => status # "working"
  /\ TurnOut => /\ session[dispatch.session] \in {"open", "stopping"}
                /\ mapped \in {dispatch.session, NoSession}

RegisteredIsKnown == registered => status # "uninit"

(* The map holds no session that was told to stop. *)
MappedIsOurs == mapped # NoSession => session[mapped] \in {"open", "dead"}

(* The inductive invariant. *)
Inv ==
  /\ TypeOK
  /\ DispatchFacts
  /\ RegisteredIsKnown
  /\ MappedIsOurs
  /\ WorkingIsATurn
  /\ HaltReachesTheTurn
  /\ NoOrphan
  /\ StoppedIsQuiet
  /\ TrackedIsIdle
  /\ TimerHasItsDispatch
-----------------------------------------------------------------------------
(* The cleared dispatch is a dispatch: what Fail and the end of a turn     *)
(* leave behind has its type.                                              *)
LEMMA IdleIsADispatch == Idle \in Dispatch
BY DEF Idle, Dispatch, Preparing

(* A dispatch that moves on keeps its type, whatever its next stage,       *)
(* session and turn are.                                                   *)
LEMMA DispatchMoves ==
  ASSUME NEW d \in Dispatch, NEW st \in Preparing \cup {"none", "turn"},
         NEW s \in Session \cup {NoSession}, NEW t \in {"none", "pending", "resolved", "rejected"}
  PROVE  /\ [d EXCEPT !.stage = st] \in Dispatch
         /\ [d EXCEPT !.stage = st, !.session = s] \in Dispatch
         /\ [d EXCEPT !.stage = st, !.turn = t] \in Dispatch
         /\ [d EXCEPT !.turn = t] \in Dispatch
BY DEF Dispatch

(* What stop() of the session of the map does to each session: the turn    *)
(* that is out gets its grace, otherwise the session is gone.              *)
LEMMA StoppedEffect ==
  ASSUME TypeOK
  PROVE  /\ Stopped(mapped) \in [Session -> {"none", "open", "dead", "stopping"}]
         /\ \A s \in Session :
              Stopped(mapped)[s] =
                IF s # mapped THEN session[s]
                ELSE IF session[s] = "open" /\ TurnOut /\ dispatch.session = s THEN "stopping" ELSE "none"
<1>1. CASE mapped = NoSession
  BY <1>1, ConstantsAssumption DEF Stopped, TypeOK
<1>2. CASE mapped # NoSession
  BY <1>2, ConstantsAssumption DEF Stopped, TypeOK
<1> QED BY <1>1, <1>2

-----------------------------------------------------------------------------
(* The catch around the dispatch keeps the invariant whenever no turn is   *)
(* out, with the session left alone or dropped.  A dispatch that was given *)
(* its session has to drop it when the agent is stopped.                   *)
LEMMA FailKeeps ==
  ASSUME Inv, Running, ~TurnOut, Fail,
         UNCHANGED agentVars, issued' \in BOOLEAN, recorded' \in Nat,
         \/ session' = session /\ mapped' = mapped
         \/ session' = Stopped(mapped) /\ mapped' = NoSession,
         dispatch.stage = "ensure" /\ status = "stopped" => mapped' = NoSession
  PROVE  Inv'
<1>1. TypeOK BY DEF Inv
<1>2. dispatch' = Idle /\ dispatch' \in Dispatch BY IdleIsADispatch DEF Fail
<1>3. TypeOK'
  <2>1. session' \in [Session -> {"none", "open", "dead", "stopping"}] /\ mapped' \in Session \cup {NoSession}
    BY <1>1, StoppedEffect DEF TypeOK
  <2>2. /\ dispatch'.session # NoSession <=> dispatch'.stage \in {"ensure", "turn"}
        /\ dispatch'.turn # "none" <=> dispatch'.stage = "turn"
    BY <1>2 DEF Idle
  <2>3. /\ status' \in {"uninit", "idle", "starting", "working", "stopped"}
        /\ timer' \in BOOLEAN
        /\ tracked' \in {"no", "fresh", "old"}
    BY <1>1 DEF TypeOK, Fail, ReleaseToIdle
  <2> QED BY <1>1, <1>2, <2>1, <2>2, <2>3 DEF TypeOK, agentVars
<1>4. DispatchFacts' /\ RegisteredIsKnown'
  BY <1>1, <1>2 DEF Inv, DispatchFacts, RegisteredIsKnown, TypeOK, Running, TurnOut, Fail, ReleaseToIdle, Idle, agentVars
<1>5. MappedIsOurs' /\ NoOrphan'
  BY <1>1, <1>2, StoppedEffect DEF Inv, MappedIsOurs, NoOrphan, TypeOK, TurnOut
<1>6. WorkingIsATurn' /\ HaltReachesTheTurn'
  BY <1>1, <1>2 DEF Inv, WorkingIsATurn, HaltReachesTheTurn, TurnOut, Fail, ReleaseToIdle, TypeOK, Idle
<1>7. StoppedIsQuiet'
  BY <1>1, <1>2 DEF Inv, StoppedIsQuiet, Fail, ReleaseToIdle, TypeOK
<1>8. TrackedIsIdle' /\ TimerHasItsDispatch'
  BY <1>1, <1>2 DEF Inv, TrackedIsIdle, TimerHasItsDispatch, Fail, ReleaseToIdle, TypeOK, Idle, Running, Preparing
<1> QED BY <1>3, <1>4, <1>5, <1>6, <1>7, <1>8 DEF Inv

(* A dispatch that prepares moves to its next await and nothing else.      *)
LEMMA StageMoves ==
  ASSUME Inv, dispatch.stage \in {"context", "mint", "bundle"}, ~Cut,
         NEW st \in {"mint", "bundle", "create"},
         dispatch' = [dispatch EXCEPT !.stage = st],
         UNCHANGED <<status, timer, agentVars, recorded, mapped, session, tracked>>, issued' \in BOOLEAN
  PROVE  Inv'
<1>1. TypeOK BY DEF Inv
<1>2. dispatch' \in Dispatch BY <1>1, DispatchMoves DEF TypeOK, Preparing
<1>3. /\ dispatch'.stage = st
      /\ dispatch'.gen = dispatch.gen
      /\ dispatch'.spawn = dispatch.spawn
      /\ dispatch'.session = dispatch.session
      /\ dispatch'.turn = dispatch.turn
  BY <1>1 DEF TypeOK, Dispatch
<1>4. TypeOK'
  BY <1>1, <1>2, <1>3 DEF TypeOK, agentVars
<1>5. DispatchFacts' /\ RegisteredIsKnown'
  BY <1>1, <1>3 DEF Inv, DispatchFacts, RegisteredIsKnown, TypeOK, Running, TurnOut, agentVars
<1>6. MappedIsOurs' /\ NoOrphan'
  BY <1>1, <1>3 DEF Inv, MappedIsOurs, NoOrphan, TypeOK, TurnOut
<1>7. WorkingIsATurn' /\ HaltReachesTheTurn' /\ StoppedIsQuiet'
  BY <1>1, <1>3 DEF Inv, WorkingIsATurn, HaltReachesTheTurn, StoppedIsQuiet, TurnOut, Cut, TypeOK
<1>8. TrackedIsIdle' /\ TimerHasItsDispatch'
  BY <1>1, <1>3 DEF Inv, TrackedIsIdle, TimerHasItsDispatch, TypeOK, TurnOut, Preparing
<1> QED BY <1>4, <1>5, <1>6, <1>7, <1>8 DEF Inv

(* A dispatch that prepares is given the session of the map, which exists. *)
LEMMA SessionGiven ==
  ASSUME Inv, dispatch.stage \in {"context", "mint", "bundle", "create"},
         mapped' \in Session,
         dispatch' = [dispatch EXCEPT !.stage = "ensure", !.session = mapped'],
         \/ session' = session /\ mapped' = mapped
         \/ mapped = NoSession /\ session[mapped'] = "none" /\ session' = [session EXCEPT ![mapped'] = "open"],
         UNCHANGED <<status, timer, agentVars, recorded, tracked>>, issued' \in BOOLEAN
  PROVE  Inv'
<1>1. TypeOK BY DEF Inv
<1>2. dispatch' \in Dispatch BY <1>1, DispatchMoves DEF TypeOK, Preparing
<1>3. /\ dispatch'.stage = "ensure"
      /\ dispatch'.gen = dispatch.gen
      /\ dispatch'.spawn = dispatch.spawn
      /\ dispatch'.session = mapped'
      /\ dispatch'.turn = dispatch.turn
  BY <1>1 DEF TypeOK, Dispatch
<1>4. TypeOK'
  BY <1>1, <1>2, <1>3, ConstantsAssumption DEF TypeOK, agentVars
<1>5. DispatchFacts' /\ RegisteredIsKnown'
  BY <1>1, <1>3 DEF Inv, DispatchFacts, RegisteredIsKnown, TypeOK, Running, TurnOut, agentVars
<1>6. MappedIsOurs' /\ NoOrphan'
  BY <1>1, <1>3, ConstantsAssumption DEF Inv, MappedIsOurs, NoOrphan, TypeOK, TurnOut
<1>7. WorkingIsATurn' /\ HaltReachesTheTurn' /\ StoppedIsQuiet'
  BY <1>1, <1>3 DEF Inv, WorkingIsATurn, HaltReachesTheTurn, StoppedIsQuiet, TurnOut, TypeOK
<1>8. TrackedIsIdle' /\ TimerHasItsDispatch'
  BY <1>1, <1>3 DEF Inv, TrackedIsIdle, TimerHasItsDispatch, TypeOK, TurnOut, Preparing
<1> QED BY <1>4, <1>5, <1>6, <1>7, <1>8 DEF Inv

(* Asking for a session: it is in the map, or it will be created, or the   *)
(* crash guard refuses and the dispatch fails.                             *)
LEMMA AskKeeps ==
  ASSUME Inv, dispatch.stage \in {"context", "mint", "bundle"}, ~Cut, AskForSession,
         UNCHANGED <<agentVars, recorded, mapped, session>>, issued' \in BOOLEAN
  PROVE  Inv'
<1>1. TypeOK BY DEF Inv
<1>2. CASE mapped # NoSession
  BY <1>1, <1>2, SessionGiven DEF AskForSession, TypeOK
<1>3. CASE mapped = NoSession /\ dispatch' = [dispatch EXCEPT !.stage = "create"]
                              /\ UNCHANGED <<status, timer, tracked>>
  BY <1>3, StageMoves
<1>4. CASE Fail
  <2>1. recorded' \in Nat BY <1>1 DEF TypeOK
  <2>2. Running /\ ~TurnOut /\ dispatch.stage # "ensure" BY DEF Running, TurnOut
  <2> QED BY <1>4, <2>1, <2>2, FailKeeps
<1> QED BY <1>2, <1>3, <1>4 DEF AskForSession

-----------------------------------------------------------------------------
(* The first answer reaches the dispatch.                                  *)
LEMMA ContextArrivesKeeps == Inv /\ ContextArrives => Inv'
<1> SUFFICES ASSUME Inv, ContextArrives PROVE Inv' OBVIOUS
<1>1. TypeOK /\ dispatch.stage = "context" BY DEF Inv, ContextArrives
<1>2. UNCHANGED <<agentVars, recorded, issued, mapped, session>> /\ issued' \in BOOLEAN /\ recorded' \in Nat
  BY <1>1 DEF ContextArrives, TypeOK
<1>3. CASE Cut
  <2>1. Running /\ ~TurnOut /\ Fail BY <1>1, <1>3 DEF Running, TurnOut, ContextArrives
  <2> QED BY <1>1, <1>2, <2>1, FailKeeps
<1>4. CASE ~Cut /\ dispatch' = [dispatch EXCEPT !.stage = "mint"] /\ UNCHANGED <<status, timer, tracked>>
  BY <1>1, <1>2, <1>4, StageMoves
<1>5. CASE ~Cut /\ AskForSession
  BY <1>1, <1>2, <1>5, AskKeeps
<1> QED BY <1>3, <1>4, <1>5 DEF ContextArrives

(* The credential is minted; a dispatch that was cut off does not keep it. *)
LEMMA MintArrivesKeeps == Inv /\ MintArrives => Inv'
<1> SUFFICES ASSUME Inv, MintArrives PROVE Inv' OBVIOUS
<1>1. TypeOK /\ dispatch.stage = "mint" BY DEF Inv, MintArrives
<1>2. UNCHANGED <<agentVars, recorded, mapped, session>> /\ recorded' \in Nat
  BY <1>1 DEF MintArrives, TypeOK
<1>3. issued' \in BOOLEAN BY <1>1 DEF MintArrives, TypeOK
<1>4. CASE Cut
  <2>1. Running /\ ~TurnOut /\ Fail BY <1>1, <1>4 DEF Running, TurnOut, MintArrives
  <2> QED BY <1>1, <1>2, <1>3, <2>1, FailKeeps
<1>5. CASE ~Cut /\ dispatch' = [dispatch EXCEPT !.stage = "bundle"] /\ UNCHANGED <<status, timer, tracked>>
  BY <1>1, <1>2, <1>3, <1>5, StageMoves
<1>6. CASE ~Cut /\ AskForSession
  BY <1>1, <1>2, <1>3, <1>6, AskKeeps
<1> QED BY <1>4, <1>5, <1>6 DEF MintArrives

(* The mint is refused: the dispatch fails.                                *)
LEMMA MintFailsKeeps == Inv /\ MintFails => Inv'
<1> SUFFICES ASSUME Inv, MintFails PROVE Inv' OBVIOUS
<1>1. TypeOK /\ Running /\ ~TurnOut /\ dispatch.stage = "mint" BY DEF Inv, MintFails, Running, TurnOut
<1>2. issued' \in BOOLEAN /\ recorded' \in Nat BY <1>1 DEF MintFails, TypeOK
<1> QED BY <1>1, <1>2, FailKeeps DEF MintFails

(* The workspace is prepared: the dispatch asks for its session.           *)
LEMMA BundleArrivesKeeps == Inv /\ BundleArrives => Inv'
<1> SUFFICES ASSUME Inv, BundleArrives PROVE Inv' OBVIOUS
<1>1. TypeOK /\ Running /\ ~TurnOut /\ dispatch.stage = "bundle" BY DEF Inv, BundleArrives, Running, TurnOut
<1>2. issued' \in BOOLEAN /\ recorded' \in Nat BY <1>1 DEF BundleArrives, TypeOK
<1>3. CASE Cut
  BY <1>1, <1>2, <1>3, FailKeeps DEF BundleArrives
<1>4. CASE ~Cut
  BY <1>1, <1>2, <1>4, AskKeeps DEF BundleArrives
<1> QED BY <1>3, <1>4

(* The microtask opens a session, or finds one that is there already.      *)
LEMMA CreateSessionKeeps == Inv /\ CreateSession => Inv'
<1> SUFFICES ASSUME Inv, CreateSession PROVE Inv' OBVIOUS
<1>1. TypeOK /\ dispatch.stage = "create" BY DEF Inv, CreateSession
<1>2. UNCHANGED <<status, timer, agentVars, recorded, issued, tracked>> /\ issued' \in BOOLEAN
  BY <1>1 DEF CreateSession, TypeOK
<1>3. CASE mapped # NoSession
  <2>1. mapped' \in Session /\ mapped' = mapped /\ session' = session
    BY <1>1, <1>3 DEF CreateSession, TypeOK
  <2>2. dispatch' = [dispatch EXCEPT !.stage = "ensure", !.session = mapped']
    BY <1>3 DEF CreateSession
  <2> QED BY <1>1, <1>2, <2>1, <2>2, SessionGiven
<1>4. CASE mapped = NoSession
  <2>1. PICK s \in Session : /\ session[s] = "none"
                             /\ session' = [session EXCEPT ![s] = "open"]
                             /\ mapped' = s
                             /\ dispatch' = [dispatch EXCEPT !.stage = "ensure", !.session = s]
    BY <1>4 DEF CreateSession
  <2> QED BY <1>1, <1>2, <1>4, <2>1, SessionGiven
<1> QED BY <1>3, <1>4

(* The executable cannot be started: the dispatch fails.                   *)
LEMMA OpenFailsKeeps == Inv /\ OpenFails => Inv'
<1> SUFFICES ASSUME Inv, OpenFails PROVE Inv' OBVIOUS
<1>1. TypeOK /\ Running /\ ~TurnOut /\ dispatch.stage = "create" BY DEF Inv, OpenFails, Running, TurnOut
<1>2. issued' \in BOOLEAN /\ recorded' \in Nat BY <1>1 DEF OpenFails, TypeOK
<1> QED BY <1>1, <1>2, FailKeeps DEF OpenFails

(* The session reaches the dispatch: a dispatch that was cut off takes it  *)
(* down, a dispatch whose session left the map fails, the others send.     *)
LEMMA SessionArrivesKeeps == Inv /\ SessionArrives => Inv'
<1> SUFFICES ASSUME Inv, SessionArrives PROVE Inv' OBVIOUS
<1>1. /\ TypeOK
      /\ dispatch.stage = "ensure"
      /\ Running
      /\ ~TurnOut
      /\ UNCHANGED agentVars
  BY DEF Inv, SessionArrives, Running, TurnOut
<1>2. CASE RefuseCut
  <2>1. /\ Fail
        /\ session' = Stopped(mapped)
        /\ mapped' = NoSession
        /\ recorded' \in Nat
        /\ issued' \in BOOLEAN
    BY <1>2 DEF RefuseCut
  <2> QED BY <1>1, <2>1, FailKeeps
<1>3. CASE SessionLost
  <2>1. /\ Fail
        /\ session' = session
        /\ mapped' = mapped
        /\ recorded' \in Nat
        /\ issued' \in BOOLEAN
        /\ status # "stopped"
    BY <1>1, <1>3 DEF SessionLost, TypeOK, Dispatch, Cut
  <2> QED BY <1>1, <2>1, FailKeeps
<1>4. CASE SendTurn
  <2>1. PICK t \in {"pending", "rejected"} :
          /\ dispatch' = [dispatch EXCEPT !.stage = "turn", !.turn = t]
          /\ t = "pending" => session[mapped] = "open"
    BY <1>4 DEF SendTurn
  <2>2. /\ mapped = dispatch.session
        /\ recorded' = dispatch.identity
        /\ tracked' = "no"
        /\ UNCHANGED <<issued, mapped, session>>
        /\ ~Cut
    BY <1>4 DEF SendTurn
  <2>3. status' = "working" /\ timer' = FALSE
    BY <1>1, <1>4, <2>2 DEF SendTurn, Transition, Moves, Inv, DispatchFacts, TypeOK, Cut
  <2>4. dispatch' \in Dispatch BY <1>1, <2>1, DispatchMoves DEF TypeOK, Preparing
  <2>5. /\ dispatch'.stage = "turn"
        /\ dispatch'.gen = dispatch.gen
        /\ dispatch'.session = dispatch.session
        /\ dispatch'.turn = t
        /\ dispatch.identity \in Nat
    BY <1>1, <2>1 DEF TypeOK, Dispatch
  <2>6. TypeOK'
    BY <1>1, <2>2, <2>3, <2>4, <2>5 DEF TypeOK, agentVars
  <2>7. DispatchFacts' /\ RegisteredIsKnown'
    BY <1>1, <2>1, <2>2, <2>3, <2>5 DEF Inv, DispatchFacts, RegisteredIsKnown, TypeOK, Running, TurnOut, Cut, agentVars
  <2>8. MappedIsOurs' /\ NoOrphan'
    BY <1>1, <2>1, <2>2, <2>5 DEF Inv, MappedIsOurs, NoOrphan, TypeOK, TurnOut
  <2>9. WorkingIsATurn' /\ HaltReachesTheTurn'
    BY <1>1, <2>1, <2>2, <2>3, <2>5 DEF WorkingIsATurn, HaltReachesTheTurn, TurnOut, Cut, agentVars
  <2>10. StoppedIsQuiet' /\ TrackedIsIdle' /\ TimerHasItsDispatch'
    BY <2>2, <2>3 DEF StoppedIsQuiet, TrackedIsIdle, TimerHasItsDispatch
  <2> QED BY <2>6, <2>7, <2>8, <2>9, <2>10 DEF Inv
<1> QED BY <1>2, <1>3, <1>4 DEF SessionArrives

(* A turn that ended well ends the dispatch.                               *)
LEMMA SendResolvedKeeps == Inv /\ SendResolved => Inv'
<1> SUFFICES ASSUME Inv, SendResolved PROVE Inv' OBVIOUS
<1>1. TypeOK BY DEF Inv
<1>2. dispatch' = Idle /\ dispatch' \in Dispatch BY IdleIsADispatch DEF SendResolved
<1>3. TypeOK'
  BY <1>1, <1>2 DEF TypeOK, SendResolved, Idle, agentVars
<1>4. DispatchFacts' /\ RegisteredIsKnown' /\ MappedIsOurs' /\ NoOrphan'
  BY <1>1, <1>2 DEF Inv, DispatchFacts, RegisteredIsKnown, MappedIsOurs, NoOrphan, TypeOK, Running, TurnOut,
       SendResolved, Idle, agentVars
<1>5. WorkingIsATurn' /\ HaltReachesTheTurn' /\ StoppedIsQuiet' /\ TrackedIsIdle' /\ TimerHasItsDispatch'
  BY <1>1, <1>2 DEF Inv, DispatchFacts, WorkingIsATurn, HaltReachesTheTurn, StoppedIsQuiet, TrackedIsIdle,
       TimerHasItsDispatch, TypeOK, TurnOut, Preparing, SendResolved, Idle
<1> QED BY <1>3, <1>4, <1>5 DEF Inv

(* A rejected turn drops its session and fails the dispatch.               *)
LEMMA SendRejectedKeeps == Inv /\ SendRejected => Inv'
<1> SUFFICES ASSUME Inv, SendRejected PROVE Inv' OBVIOUS
<1>1. /\ TypeOK
      /\ dispatch.stage = "turn"
      /\ Running
      /\ ~TurnOut
      /\ UNCHANGED agentVars
      /\ Fail
      /\ issued' \in BOOLEAN
  BY DEF Inv, SendRejected, Running, TurnOut
<1>2. recorded' \in Nat /\ \/ session' = session /\ mapped' = mapped
                           \/ session' = Stopped(mapped) /\ mapped' = NoSession
  BY <1>1 DEF SendRejected, TypeOK
<1> QED BY <1>1, <1>2, FailKeeps

-----------------------------------------------------------------------------
(* A turn that is out is settled, by its end, by a timer, or by the exit   *)
(* of its process; the status, the timer and the activity are as the       *)
(* handler of that event leaves them.                                      *)
LEMMA SettleKeeps ==
  ASSUME Inv, TurnOut, NEW result \in {"resolved", "rejected"}, NEW after \in {"open", "dead", "none"},
         Settle(result, after),
         session[dispatch.session] = "stopping" => after = "none",
         session[dispatch.session] # "stopping" => after # "none",
         UNCHANGED <<agentVars, recorded, issued, mapped>>,
         \/ UNCHANGED <<status, timer, tracked>> /\ result # "resolved"
         \/ BackToIdle
  PROVE  Inv'
<1>1. TypeOK /\ dispatch.session \in Session BY DEF Inv, TypeOK, TurnOut, Dispatch
<1>2. dispatch' = [dispatch EXCEPT !.turn = result] /\ session' = [session EXCEPT ![dispatch.session] = after]
  BY DEF Settle
<1>3. dispatch' \in Dispatch BY <1>1, <1>2, DispatchMoves DEF TypeOK, Preparing
<1>4. /\ dispatch'.stage = "turn"
      /\ dispatch'.gen = dispatch.gen
      /\ dispatch'.session = dispatch.session
      /\ dispatch'.turn = result
  BY <1>1, <1>2 DEF TypeOK, Dispatch, TurnOut
<1>5. \/ UNCHANGED <<status, timer, tracked>> /\ (result # "resolved" \/ status # "working")
      \/ status = "working" /\ status' = "idle" /\ timer' = FALSE /\ tracked' = "fresh"
  BY DEF BackToIdle, Transition, Moves
<1>6. TypeOK'
  <2>1. session' \in [Session -> {"none", "open", "dead", "stopping"}]
    BY <1>1, <1>2 DEF TypeOK
  <2>2. /\ status' \in {"uninit", "idle", "starting", "working", "stopped"}
        /\ timer' \in BOOLEAN
        /\ tracked' \in {"no", "fresh", "old"}
    BY <1>1, <1>5 DEF TypeOK
  <2>3. /\ dispatch'.session # NoSession <=> dispatch'.stage \in {"ensure", "turn"}
        /\ dispatch'.turn # "none" <=> dispatch'.stage = "turn"
    BY <1>1, <1>4, ConstantsAssumption
  <2> QED BY <1>1, <1>3, <2>1, <2>2, <2>3 DEF TypeOK, agentVars
<1>7. DispatchFacts' /\ RegisteredIsKnown'
  BY <1>1, <1>4, <1>5 DEF Inv, DispatchFacts, RegisteredIsKnown, TypeOK, Running, TurnOut, agentVars
<1>8. MappedIsOurs' /\ NoOrphan'
  BY <1>1, <1>2, <1>4 DEF Inv, DispatchFacts, MappedIsOurs, NoOrphan, TypeOK, TurnOut
<1>9. WorkingIsATurn' /\ HaltReachesTheTurn' /\ StoppedIsQuiet'
  BY <1>1, <1>4, <1>5 DEF Inv, WorkingIsATurn, HaltReachesTheTurn, StoppedIsQuiet, TurnOut
<1>10. TrackedIsIdle' /\ TimerHasItsDispatch'
  BY <1>1, <1>4, <1>5 DEF Inv, TrackedIsIdle, TimerHasItsDispatch, TurnOut, Preparing
<1> QED BY <1>6, <1>7, <1>8, <1>9, <1>10 DEF Inv

(* turn.end                                                                *)
LEMMA TurnEndsKeeps == Inv /\ TurnEnds => Inv'
<1> SUFFICES ASSUME Inv, TurnEnds PROVE Inv' OBVIOUS
<1>1. PICK result \in {"resolved", "rejected"} :
        Settle(result, IF session[dispatch.session] = "stopping" THEN "none" ELSE "open")
  BY DEF TurnEnds
<1>2. TurnOut /\ BackToIdle /\ UNCHANGED <<agentVars, recorded, issued, mapped>> BY DEF TurnEnds
<1>3. CASE session[dispatch.session] = "stopping" BY <1>1, <1>2, <1>3, SettleKeeps
<1>4. CASE session[dispatch.session] # "stopping" BY <1>1, <1>2, <1>4, SettleKeeps
<1> QED BY <1>3, <1>4

(* The silence timer and the grace timer.                                  *)
LEMMA TurnTimesOutKeeps == Inv /\ TurnTimesOut => Inv'
<1> SUFFICES ASSUME Inv, TurnTimesOut PROVE Inv' OBVIOUS
<1>1. /\ TurnOut
      /\ Settle("rejected", IF session[dispatch.session] = "stopping" THEN "none" ELSE "dead")
      /\ UNCHANGED <<agentVars, recorded, issued, mapped>>
      /\ UNCHANGED <<status, timer, tracked>>
  BY DEF TurnTimesOut
<1>2. CASE session[dispatch.session] = "stopping" BY <1>1, <1>2, SettleKeeps
<1>3. CASE session[dispatch.session] # "stopping" BY <1>1, <1>3, SettleKeeps
<1> QED BY <1>2, <1>3

(* A process exits: with a turn out on its session the turn is settled,    *)
(* otherwise only the session is dead.                                     *)
LEMMA ProcessExitsKeeps == ASSUME NEW s \in Session, Inv, ProcessExits(s) PROVE Inv'
<1>1. TypeOK BY DEF Inv
<1>2. /\ session[s] \in {"open", "stopping"}
      /\ UNCHANGED <<agentVars, recorded, issued, mapped>>
      /\ UNCHANGED <<status, timer, tracked>> \/ BackToIdle
  BY DEF ProcessExits
<1>3. CASE TurnOut /\ dispatch.session = s
  <2>1. CASE session[s] = "open"
    <3>1. Settle("rejected", "dead") BY <1>1, <1>3, <2>1 DEF ProcessExits, Settle, TypeOK
    <3> QED BY <1>2, <1>3, <2>1, <3>1, SettleKeeps
  <2>2. CASE session[s] = "stopping"
    <3>1. Settle("rejected", "none") BY <1>1, <1>3, <2>2 DEF ProcessExits, Settle, TypeOK
    <3> QED BY <1>2, <1>3, <2>2, <3>1, SettleKeeps
  <2> QED BY <1>2, <2>1, <2>2
<1>4. CASE ~(TurnOut /\ dispatch.session = s)
  <2>1. session[s] = "open" /\ dispatch' = dispatch /\ session' = [session EXCEPT ![s] = "dead"] /\ BackToIdle
    BY <1>1, <1>2, <1>4 DEF ProcessExits, Inv, NoOrphan, TypeOK
  <2>2. \/ UNCHANGED <<status, timer, tracked>>
        \/ status = "working" /\ status' = "idle" /\ timer' = FALSE /\ tracked' = "fresh"
    BY <2>1 DEF BackToIdle, Transition, Moves
  <2>3. mapped = s /\ ~TurnOut
    BY <1>1, <1>4, <2>1, ConstantsAssumption DEF Inv, NoOrphan, DispatchFacts, TypeOK
  <2>4. TypeOK'
    BY <1>1, <1>2, <2>1, <2>2 DEF TypeOK, agentVars
  <2>5. DispatchFacts' /\ RegisteredIsKnown'
    BY <1>1, <1>2, <2>1, <2>2, <2>3 DEF Inv, DispatchFacts, RegisteredIsKnown, TypeOK, Running, TurnOut, agentVars
  <2>6. MappedIsOurs' /\ NoOrphan'
    BY <1>1, <1>2, <2>1, <2>3 DEF Inv, MappedIsOurs, NoOrphan, TypeOK, TurnOut
  <2>7. WorkingIsATurn' /\ HaltReachesTheTurn' /\ StoppedIsQuiet'
    BY <1>1, <1>2, <2>1, <2>2, <2>3 DEF Inv, WorkingIsATurn, HaltReachesTheTurn, StoppedIsQuiet, TurnOut, TypeOK
  <2>8. TrackedIsIdle' /\ TimerHasItsDispatch'
    BY <1>1, <2>1, <2>2, <2>3 DEF Inv, WorkingIsATurn, TrackedIsIdle, TimerHasItsDispatch, TurnOut
  <2> QED BY <2>4, <2>5, <2>6, <2>7, <2>8 DEF Inv
<1> QED BY <1>3, <1>4

-----------------------------------------------------------------------------
(* The startup timer gives the status back and touches nothing else.       *)
LEMMA StartupTimeoutKeeps == Inv /\ StartupTimeout => Inv'
<1> SUFFICES ASSUME Inv, StartupTimeout PROVE Inv' OBVIOUS
<1>1. TypeOK /\ UNCHANGED <<agentVars, recorded, issued, mapped, session, tracked, dispatch>>
  BY DEF Inv, StartupTimeout
<1>2. timer' = FALSE /\ status' = (IF status = "stopped" THEN status ELSE "idle")
  BY DEF StartupTimeout, ReleaseToIdle
<1>3. ~TurnOut BY DEF StartupTimeout, Inv, TimerHasItsDispatch, TurnOut, Preparing
<1>4. TypeOK'
  BY <1>1, <1>2 DEF TypeOK, agentVars
<1>5. DispatchFacts' /\ RegisteredIsKnown' /\ MappedIsOurs' /\ NoOrphan'
  BY <1>1, <1>2, <1>3 DEF Inv, DispatchFacts, RegisteredIsKnown, MappedIsOurs, NoOrphan, TypeOK, Running, TurnOut, agentVars
<1>6. WorkingIsATurn' /\ HaltReachesTheTurn' /\ StoppedIsQuiet' /\ TrackedIsIdle' /\ TimerHasItsDispatch'
  BY <1>1, <1>2, <1>3 DEF Inv, WorkingIsATurn, HaltReachesTheTurn, StoppedIsQuiet, TrackedIsIdle, TimerHasItsDispatch, TurnOut
<1> QED BY <1>4, <1>5, <1>6 DEF Inv

(* The activity of a tracked agent ages.                                   *)
LEMMA ActivityAgesKeeps == Inv /\ ActivityAges => Inv'
BY DEF Inv, TypeOK, DispatchFacts, RegisteredIsKnown, MappedIsOurs, WorkingIsATurn, HaltReachesTheTurn, NoOrphan,
       StoppedIsQuiet, TrackedIsIdle, TimerHasItsDispatch, Running, TurnOut, Cut, ActivityAges, agentVars

(* Whoever drops the session of the map, the running dispatch only loses   *)
(* it: its turn, if one is out, gets the grace.                            *)
LEMMA SessionDropped ==
  ASSUME Inv, session' = Stopped(mapped), mapped' = NoSession,
         UNCHANGED dispatch, stopGen' \in Nat, stopGen' >= stopGen
  PROVE  MappedIsOurs' /\ NoOrphan' /\ HaltReachesTheTurn'
         /\ session' \in [Session -> {"none", "open", "dead", "stopping"}]
         /\ (TurnOut => session[dispatch.session] \in {"open", "stopping"}
                        /\ session'[dispatch.session] = "stopping")
<1>1. TypeOK BY DEF Inv
<1>2. MappedIsOurs' BY DEF MappedIsOurs
<1>3. NoOrphan' BY <1>1, StoppedEffect DEF Inv, NoOrphan, TurnOut, TypeOK
<1>4. TurnOut => dispatch.session \in Session BY <1>1 DEF TypeOK, TurnOut, Dispatch
<1>5. TurnOut => session[dispatch.session] \in {"open", "stopping"} /\ session'[dispatch.session] = "stopping"
  BY <1>1, <1>4, StoppedEffect, ConstantsAssumption DEF Inv, DispatchFacts, MappedIsOurs, NoOrphan
<1>6. HaltReachesTheTurn' BY <1>5 DEF HaltReachesTheTurn, TurnOut
<1> QED BY <1>1, <1>2, <1>3, <1>5, <1>6, StoppedEffect

(* The reclaimer drops the session of an agent that is not busy.           *)
LEMMA ReclaimKeeps == Inv /\ Reclaim => Inv'
<1> SUFFICES ASSUME Inv, Reclaim PROVE Inv' OBVIOUS
<1>1. /\ TypeOK
      /\ tracked' = "no"
      /\ session' = Stopped(mapped)
      /\ mapped' = NoSession
      /\ UNCHANGED <<status, timer, agentVars, recorded, dispatch>>
      /\ issued' \in BOOLEAN
  BY DEF Inv, Reclaim
<1>2. stopGen' \in Nat /\ stopGen' >= stopGen BY <1>1 DEF TypeOK, agentVars
<1>3. /\ MappedIsOurs' /\ NoOrphan' /\ HaltReachesTheTurn'
      /\ session' \in [Session -> {"none", "open", "dead", "stopping"}]
      /\ TurnOut => session'[dispatch.session] = "stopping"
  BY <1>1, <1>2, SessionDropped
<1>4. TypeOK'
  BY <1>1, <1>3 DEF TypeOK, agentVars
<1>5. DispatchFacts' /\ RegisteredIsKnown'
  BY <1>1, <1>3 DEF Inv, DispatchFacts, RegisteredIsKnown, TypeOK, Running, TurnOut, agentVars
<1>6. WorkingIsATurn' /\ StoppedIsQuiet' /\ TrackedIsIdle' /\ TimerHasItsDispatch'
  BY <1>1 DEF Inv, WorkingIsATurn, StoppedIsQuiet, TrackedIsIdle, TimerHasItsDispatch, TurnOut, Cut, agentVars
<1> QED BY <1>3, <1>4, <1>5, <1>6 DEF Inv

(* A step that tears the agent down and counts a halt: the dispatch that   *)
(* runs is of an older generation from now on.                             *)
LEMMA HaltedKeeps ==
  ASSUME Inv, TearDown, stopGen' = stopGen + 1, timer' = FALSE, status' \in {"uninit", "idle", "stopped"},
         status' = "uninit" => status = "uninit" /\ registered' = registered,
         registered' \in BOOLEAN, closing' \in BOOLEAN, UNCHANGED <<profile, dispatch>>
  PROVE  Inv'
<1>1. TypeOK BY DEF Inv
<1>2. /\ session' = Stopped(mapped)
      /\ mapped' = NoSession
      /\ recorded' = 0
      /\ issued' = FALSE
      /\ tracked' = "no"
  BY DEF TearDown
<1>3. stopGen' \in Nat /\ stopGen' >= stopGen BY <1>1 DEF TypeOK
<1>4. /\ MappedIsOurs' /\ NoOrphan' /\ HaltReachesTheTurn'
      /\ session' \in [Session -> {"none", "open", "dead", "stopping"}]
      /\ TurnOut => session'[dispatch.session] = "stopping"
  BY <1>2, <1>3, SessionDropped
<1>5. TypeOK'
  BY <1>1, <1>2, <1>3, <1>4 DEF TypeOK
<1>6. dispatch.gen \in Nat /\ dispatch.gen < stopGen'
  BY <1>1 DEF Inv, DispatchFacts, TypeOK, Dispatch
<1>7. DispatchFacts' /\ RegisteredIsKnown'
  BY <1>1, <1>2, <1>3, <1>4, <1>6 DEF Inv, DispatchFacts, RegisteredIsKnown, TypeOK, Running, TurnOut
<1>8. WorkingIsATurn' /\ StoppedIsQuiet' /\ TrackedIsIdle' /\ TimerHasItsDispatch'
  BY <1>2, <1>6 DEF WorkingIsATurn, StoppedIsQuiet, TrackedIsIdle, TimerHasItsDispatch, Cut
<1> QED BY <1>4, <1>5, <1>7, <1>8 DEF Inv

(* agent:stop, agent:unregister, the shutdown and a new registration.      *)
LEMMA HaltsKeep == Inv /\ (StopAgent \/ UnregisterAgent \/ StopAll \/ RegisterAgent) => Inv'
<1> SUFFICES ASSUME Inv, StopAgent \/ UnregisterAgent \/ StopAll \/ RegisterAgent PROVE Inv' OBVIOUS
<1>1. TypeOK BY DEF Inv
<1>2. CASE StopAgent
  BY <1>1, <1>2, HaltedKeeps DEF StopAgent, Halt, TypeOK
<1>3. CASE UnregisterAgent
  BY <1>1, <1>3, HaltedKeeps DEF UnregisterAgent, Halt, TypeOK
<1>4. CASE StopAll
  BY <1>1, <1>4, HaltedKeeps DEF StopAll, Halt, TypeOK
<1>5. CASE RegisterAgent
  BY <1>1, <1>5, HaltedKeeps DEF RegisterAgent, Transition, Moves, TypeOK
<1> QED BY <1>2, <1>3, <1>4, <1>5

(* A connect puts the agent on duty again.  Nobody unregisters an agent    *)
(* without a halt, so a dispatch that still runs is of an older generation.*)
LEMMA LoadAgentKeeps == Inv /\ LoadAgent => Inv'
<1> SUFFICES ASSUME Inv, LoadAgent PROVE Inv' OBVIOUS
<1>1. /\ TypeOK
      /\ ~registered
      /\ registered' = TRUE
      /\ status' = "idle"
      /\ timer' = FALSE
      /\ UNCHANGED <<stopGen, closing, profile, recorded, issued, mapped, session, tracked, dispatch>>
  BY DEF Inv, LoadAgent, Transition, Moves
<1>2. Running => dispatch.gen # stopGen
  BY <1>1 DEF Inv, DispatchFacts
<1>3. TypeOK'
  BY <1>1 DEF TypeOK
<1>4. DispatchFacts' /\ RegisteredIsKnown' /\ MappedIsOurs' /\ NoOrphan'
  BY <1>1, <1>2 DEF Inv, DispatchFacts, RegisteredIsKnown, MappedIsOurs, NoOrphan, TypeOK, Running, TurnOut
<1>5. WorkingIsATurn' /\ HaltReachesTheTurn' /\ StoppedIsQuiet' /\ TrackedIsIdle' /\ TimerHasItsDispatch'
  BY <1>1, <1>2 DEF Inv, WorkingIsATurn, HaltReachesTheTurn, StoppedIsQuiet, TrackedIsIdle, TimerHasItsDispatch,
       Running, TurnOut, Cut
<1> QED BY <1>3, <1>4, <1>5 DEF Inv

(* The runtime profile changes, the session of the old one stays or goes;  *)
(* the generation does not move.                                           *)
LEMMA ProfileKeeps == Inv /\ (ReloadProfile \/ EditAgent) => Inv'
<1> SUFFICES ASSUME Inv, ReloadProfile \/ EditAgent PROVE Inv' OBVIOUS
<1>1. /\ TypeOK
      /\ profile' \in Nat \ {0}
      /\ UNCHANGED <<status, timer, stopGen, registered, closing, dispatch>>
      /\ TearDown \/ UNCHANGED <<recorded, issued, mapped, session, tracked>>
  BY DEF Inv, TypeOK, ReloadProfile, EditAgent
<1>2. CASE UNCHANGED <<recorded, issued, mapped, session, tracked>>
  <2>1. TypeOK'
    BY <1>1, <1>2 DEF TypeOK
  <2>2. DispatchFacts' /\ RegisteredIsKnown' /\ MappedIsOurs' /\ NoOrphan'
    BY <1>1, <1>2 DEF Inv, DispatchFacts, RegisteredIsKnown, MappedIsOurs, NoOrphan, Running, TurnOut
  <2>3. WorkingIsATurn' /\ HaltReachesTheTurn' /\ StoppedIsQuiet' /\ TrackedIsIdle' /\ TimerHasItsDispatch'
    BY <1>1, <1>2 DEF Inv, WorkingIsATurn, HaltReachesTheTurn, StoppedIsQuiet, TrackedIsIdle, TimerHasItsDispatch,
         TurnOut, Cut
  <2> QED BY <2>1, <2>2, <2>3 DEF Inv
<1>3. CASE TearDown
  <2>1. /\ session' = Stopped(mapped)
        /\ mapped' = NoSession
        /\ recorded' = 0
        /\ issued' = FALSE
        /\ tracked' = "no"
    BY <1>3 DEF TearDown
  <2>2. stopGen' \in Nat /\ stopGen' >= stopGen BY <1>1 DEF TypeOK
  <2>3. /\ MappedIsOurs' /\ NoOrphan' /\ HaltReachesTheTurn'
        /\ session' \in [Session -> {"none", "open", "dead", "stopping"}]
        /\ TurnOut => session'[dispatch.session] = "stopping"
    BY <1>1, <2>1, <2>2, SessionDropped
  <2>4. TypeOK'
    BY <1>1, <2>1, <2>3 DEF TypeOK
  <2>5. DispatchFacts' /\ RegisteredIsKnown'
    BY <1>1, <2>1, <2>3 DEF Inv, DispatchFacts, RegisteredIsKnown, Running, TurnOut
  <2>6. WorkingIsATurn' /\ StoppedIsQuiet' /\ TrackedIsIdle' /\ TimerHasItsDispatch'
    BY <1>1, <2>1 DEF Inv, WorkingIsATurn, StoppedIsQuiet, TrackedIsIdle, TimerHasItsDispatch, TurnOut, Cut
  <2> QED BY <2>3, <2>4, <2>5, <2>6 DEF Inv
<1> QED BY <1>1, <1>2, <1>3

(* A dispatch begins: it takes the current generation and profile, and     *)
(* drops a session that was opened for another profile.                    *)
LEMMA BeginDispatchKeeps == Inv /\ BeginDispatch => Inv'
<1> SUFFICES ASSUME Inv, BeginDispatch PROVE Inv' OBVIOUS
<1>1. /\ TypeOK
      /\ dispatch = Idle
      /\ registered
      /\ status \notin {"stopped", "uninit", "working"}
      /\ tracked' = "no"
      /\ UNCHANGED agentVars
      /\ ~TurnOut
      /\ issued' \in BOOLEAN
      /\ recorded' \in Nat
  BY DEF Inv, TypeOK, RegisteredIsKnown, WorkingIsATurn, TurnOut, Idle, BeginDispatch
<1>2. \/ session' = session /\ mapped' = mapped
      \/ session' = Stopped(mapped) /\ mapped' = NoSession
  BY DEF BeginDispatch
<1>3. PICK b \in BOOLEAN :
        /\ dispatch' = [Idle EXCEPT !.stage = "context", !.gen = stopGen, !.identity = profile, !.spawn = b]
        /\ b = FALSE => UNCHANGED <<status, timer>>
        /\ b = TRUE => status' \in {status, "starting"} /\ timer' = TRUE
  BY <1>1 DEF BeginDispatch
<1>4. dispatch' = [stage |-> "context", gen |-> stopGen, identity |-> profile, spawn |-> b,
                   session |-> NoSession, turn |-> "none"]
  BY <1>3 DEF Idle
<1>5. session' \in [Session -> {"none", "open", "dead", "stopping"}] /\ mapped' \in Session \cup {NoSession}
  BY <1>1, <1>2, StoppedEffect DEF TypeOK
<1>6. timer = FALSE /\ status # "starting"
  BY <1>1 DEF Inv, TimerHasItsDispatch, TypeOK, Idle, Preparing
<1>7. TypeOK'
  <2>1. dispatch' \in Dispatch BY <1>1, <1>3, <1>4 DEF TypeOK, Dispatch, Preparing
  <2>2. status' \in {"uninit", "idle", "starting", "working", "stopped"} /\ timer' \in BOOLEAN
    BY <1>1, <1>3 DEF TypeOK
  <2> QED BY <1>1, <1>4, <1>5, <2>1, <2>2 DEF TypeOK, agentVars
<1>8. DispatchFacts' /\ RegisteredIsKnown'
  BY <1>1, <1>3, <1>4 DEF Inv, DispatchFacts, RegisteredIsKnown, TypeOK, Running, TurnOut, agentVars
<1>9. MappedIsOurs' /\ NoOrphan'
  BY <1>1, <1>2, StoppedEffect DEF Inv, MappedIsOurs, NoOrphan, TypeOK
<1>10. WorkingIsATurn' /\ HaltReachesTheTurn' /\ StoppedIsQuiet'
  BY <1>1, <1>3, <1>4 DEF WorkingIsATurn, HaltReachesTheTurn, StoppedIsQuiet, TurnOut
<1>11. TrackedIsIdle' /\ TimerHasItsDispatch'
  BY <1>1, <1>3, <1>4, <1>6 DEF TrackedIsIdle, TimerHasItsDispatch, Preparing
<1> QED BY <1>7, <1>8, <1>9, <1>10, <1>11 DEF Inv

-----------------------------------------------------------------------------
(* The invariant holds of the initial state.                               *)
LEMMA InvInit == Init => Inv
<1> SUFFICES ASSUME Init PROVE Inv OBVIOUS
<1>1. dispatch = Idle /\ dispatch \in Dispatch BY IdleIsADispatch DEF Init
<1>2. TypeOK
  <2>1. /\ dispatch.session # NoSession <=> dispatch.stage \in {"ensure", "turn"}
        /\ dispatch.turn # "none" <=> dispatch.stage = "turn"
    BY <1>1 DEF Idle
  <2>2. session \in [Session -> {"none", "open", "dead", "stopping"}] BY DEF Init
  <2>3. timer \in BOOLEAN /\ registered \in BOOLEAN /\ closing \in BOOLEAN /\ issued \in BOOLEAN
    BY DEF Init
  <2>4. stopGen \in Nat /\ profile \in Nat \ {0} /\ recorded \in Nat
    BY DEF Init
  <2>5. /\ status \in {"uninit", "idle", "starting", "working", "stopped"}
        /\ tracked \in {"no", "fresh", "old"}
        /\ mapped \in Session \cup {NoSession}
    BY DEF Init
  <2> QED BY <1>1, <2>1, <2>2, <2>3, <2>4, <2>5 DEF TypeOK
<1> QED
  BY <1>1, <1>2 DEF Init, Inv, DispatchFacts, RegisteredIsKnown, MappedIsOurs, WorkingIsATurn, HaltReachesTheTurn,
     NoOrphan, StoppedIsQuiet, TrackedIsIdle, TimerHasItsDispatch, Running, TurnOut, Idle

(* Every step keeps the invariant.                                         *)
LEMMA InvNext == Inv /\ [Next]_vars => Inv'
<1> SUFFICES ASSUME Inv, [Next]_vars PROVE Inv' OBVIOUS
<1>1. CASE BeginDispatch BY <1>1, BeginDispatchKeeps
<1>2. CASE DispatchStep
  BY <1>2, ContextArrivesKeeps, MintArrivesKeeps, MintFailsKeeps, BundleArrivesKeeps, CreateSessionKeeps,
     OpenFailsKeeps, SessionArrivesKeeps, SendResolvedKeeps, SendRejectedKeeps DEF DispatchStep
<1>3. CASE TurnEnds \/ TurnTimesOut BY <1>3, TurnEndsKeeps, TurnTimesOutKeeps
<1>4. CASE \E s \in Session : ProcessExits(s) BY <1>4, ProcessExitsKeeps
<1>5. CASE StartupTimeout \/ ActivityAges \/ Reclaim
  BY <1>5, StartupTimeoutKeeps, ActivityAgesKeeps, ReclaimKeeps
<1>6. CASE StopAgent \/ UnregisterAgent \/ StopAll \/ RegisterAgent BY <1>6, HaltsKeep
<1>7. CASE LoadAgent \/ ReloadProfile \/ EditAgent BY <1>7, LoadAgentKeeps, ProfileKeeps
<1>8. CASE UNCHANGED vars
  BY <1>8 DEF Inv, TypeOK, DispatchFacts, RegisteredIsKnown, MappedIsOurs, WorkingIsATurn, HaltReachesTheTurn, NoOrphan,
     StoppedIsQuiet, TrackedIsIdle, TimerHasItsDispatch, Running, TurnOut, Cut, vars, agentVars
<1> QED BY <1>1, <1>2, <1>3, <1>4, <1>5, <1>6, <1>7, <1>8 DEF Next

(* All of the invariant, always.                                           *)
LEMMA InvAlways == Spec => []Inv
BY InvInit, InvNext, PTL DEF Spec

(* The variables keep their types, and a dispatch has a session and a turn *)
(* at the stages at which the code uses them.                              *)
THEOREM LifecycleTypeOK == Spec => []TypeOK
<1>1. Inv => TypeOK BY DEF Inv
<1> QED BY <1>1, InvAlways, PTL

(* Whatever await a stop, an unregistration or the shutdown falls into, no *)
(* turn of the halted dispatch runs on a session nobody told to stop.      *)
THEOREM HaltsReachTurns == Spec => []HaltReachesTheTurn
<1>1. Inv => HaltReachesTheTurn BY DEF Inv
<1> QED BY <1>1, InvAlways, PTL

(* No worker process is out of reach: an open session is in the map, a     *)
(* stopping one is that of the turn that gets its grace.                   *)
THEOREM NoOrphans == Spec => []NoOrphan
<1>1. Inv => NoOrphan BY DEF Inv
<1> QED BY <1>1, InvAlways, PTL

(* The state that is shown is true: working means a turn, and a turn that  *)
(* nobody halted means working.                                            *)
THEOREM WorkingIsTrue == Spec => []WorkingIsATurn
<1>1. Inv => WorkingIsATurn BY DEF Inv
<1> QED BY <1>1, InvAlways, PTL

(* A stopped agent has no startup timer, and no session beyond the microtask *)
(* that opens one too late.                                                *)
THEOREM StoppedStaysQuiet == Spec => []StoppedIsQuiet
<1>1. Inv => StoppedIsQuiet BY DEF Inv
<1> QED BY <1>1, InvAlways, PTL

(* The reclaimer never tracks an agent whose turn is out or prepared.      *)
THEOREM TrackedStaysIdle == Spec => []TrackedIsIdle
<1>1. Inv => TrackedIsIdle BY DEF Inv
<1> QED BY <1>1, InvAlways, PTL

(* The startup timer, and the status starting, never outlive the dispatch  *)
(* that set them.                                                          *)
THEOREM TimersHaveDispatch == Spec => []TimerHasItsDispatch
<1>1. Inv => TimerHasItsDispatch BY DEF Inv
<1> QED BY <1>1, InvAlways, PTL

(* Neither timer of an agent can fire into a dispatch it was not armed for. *)
THEOREM TimersFit == Spec => []TimersFitTheDispatch
<1>1. Inv => TimersFitTheDispatch BY DEF Inv, TimersFitTheDispatch
<1> QED BY <1>1, InvAlways, PTL
-----------------------------------------------------------------------------
(* The turn guard                                                            *)

BarType == [msg : {"none", "shown", "gone", "answer"}, busy : {"no", "post", "edit"},
            queued : BOOLEAN, closed : BOOLEAN]
EndType == [step : {"no", "flush", "edit", "remove", "done"}, plan : {"quiet", "answer", "ask"}]

\* the guard is that of the last turn, or there is none; while a turn is out it is armed,
\* and only a stop takes the turn out of "working" or leaves the guard behind
TurnIsGuarded ==
  /\ turn \in {0, turns} /\ guard \in {0, turns}
  /\ turn # 0 => guard = turn /\ (lastText <=> turn \in said) /\ (hadSend <=> turn \in sent)
  /\ working => turn # 0
  /\ stops = 0 => (turn # 0 => working) /\ (turn = 0 => guard = 0)
  /\ guard # 0 => ~bar[guard].closed

\* a turn to come has left no trace; one that is over is finished, unless a stop
\* kept it from that
TurnHasItsTime(t) ==
  /\ t > turns => /\ bar[t] = NoBar /\ finish[t] = NotYet /\ posted[t] = 0
                  /\ t \notin said \cup sent \cup owed
  /\ t <= turns => bar[t].closed \/ t = guard \/ stops > 0

\* how far finish() has come and what it is to do agree with the progress message
FinishFits(t) ==
  /\ finish[t].step = "no" <=> ~bar[t].closed
  /\ finish[t].step = "no" => finish[t].plan = "quiet"
  /\ finish[t].plan = "answer" <=> t \in owed
  /\ finish[t].step = "edit" => finish[t].plan = "answer"
  /\ finish[t].step = "remove" => finish[t].plan # "answer"
  /\ finish[t].step \in {"edit", "remove", "done"} => bar[t].busy = "no" /\ ~bar[t].queued
  /\ finish[t].step \in {"edit", "remove"} => Enabled(t)
  /\ bar[t].queued \/ bar[t].busy # "no" \/ bar[t].msg # "none" => Enabled(t)

\* there is no answer before finish() is done, and one afterwards if one is owed
AnswersFit(t) ==
  /\ finish[t].step # "done" => posted[t] = 0 /\ bar[t].msg \in {"none", "shown"}
  /\ finish[t].step = "done" =>
       /\ Answers(t) <= (IF t \in owed THEN 1 ELSE 0)
       /\ failures = 0 => bar[t].msg # "shown" /\ (t \in owed => Answers(t) = 1)

TurnFits(t) == TurnHasItsTime(t) /\ FinishFits(t) /\ AnswersFit(t)

GuardInv == TurnGuardTypeOK /\ TurnIsGuarded /\ \A t \in Turn : TurnFits(t)

\* No turn, no guard.
LEMMA GuardStart == TurnGuardInit => GuardInv
<1> SUFFICES ASSUME TurnGuardInit PROVE GuardInv
  OBVIOUS
<1>1. TurnGuardTypeOK
  <2>1. NoBar \in BarType /\ NotYet \in EndType /\ 0 \in 0 .. MaxTurns /\ "claude" \in Kind
        /\ 0 \in 0 .. MaxFailures /\ 0 \in 0 .. MaxStops
    BY TurnGuardAssumption DEF NoBar, NotYet, BarType, EndType, Kind
  <2>2. bar \in [Turn -> BarType] /\ finish \in [Turn -> EndType] /\ kind \in [Turn -> Kind]
        /\ posted \in [Turn -> Nat] /\ asked \in [Turn -> Nat]
    BY <2>1 DEF TurnGuardInit
  <2>3. QED
    BY <2>1, <2>2 DEF TurnGuardInit, TurnGuardTypeOK, BarType, EndType
<1>2. TurnIsGuarded
  BY DEF TurnGuardInit, TurnIsGuarded
<1>3. ASSUME NEW t \in Turn PROVE TurnFits(t)
  <2>1. bar[t] = NoBar /\ finish[t] = NotYet /\ posted[t] = 0 /\ t > 0 /\ turns = 0
        /\ said = {} /\ sent = {} /\ owed = {}
    BY TurnGuardAssumption DEF TurnGuardInit, Turn
  <2>2. QED
    BY <2>1, TurnGuardAssumption DEF TurnFits, TurnHasItsTime, FinishFits, AnswersFit, NoBar, NotYet, Turn
<1>4. QED
  BY <1>1, <1>2, <1>3 DEF GuardInv

\* A turn that a step does not touch stays as it is.
LEMMA Untouched ==
  ASSUME NEW t \in Turn, TurnFits(t),
         bar'[t] = bar[t], finish'[t] = finish[t], posted'[t] = posted[t], kind'[t] = kind[t],
         t \in said' \cup sent' => t \in said \cup sent \/ t <= turns,
         t \in owed' <=> t \in owed, turns \in Nat,
         turns' = turns, failures' >= failures, failures \in Nat, failures' \in Nat,
         t <= turns => bar'[t].closed \/ t = guard' \/ stops' > 0
  PROVE  TurnFits(t)'
<1>1. TurnHasItsTime(t)'
  BY TurnGuardAssumption DEF TurnFits, TurnHasItsTime, Turn
<1>2. FinishFits(t)'
  BY DEF TurnFits, FinishFits, Enabled
<1>3. Answers(t)' = Answers(t)
  BY DEF Answers
<1>4. AnswersFit(t)'
  BY <1>3 DEF TurnFits, AnswersFit
<1>5. QED
  BY <1>1, <1>2, <1>4 DEF TurnFits

\* A turn begins: the guard an earlier one left is overwritten.
LEMMA ArmKeeps ==
  ASSUME GuardInv, NEW k \in Kind, ArmTurnGuard(k)
  PROVE  GuardInv'
<1>1. /\ turn = 0 /\ ~working /\ turns' = turns + 1 /\ turn' = turns + 1 /\ working' = TRUE
      /\ kind' = [kind EXCEPT ![turns + 1] = k] /\ guard' = turns + 1
      /\ hadSend' = FALSE /\ lastText' = FALSE /\ turns < MaxTurns
      /\ UNCHANGED <<bar, finish, posted, asked, said, sent, owed, failures, stops>>
  BY DEF ArmTurnGuard, guardHistory
<1>2. turns \in Nat /\ MaxTurns \in Nat /\ turns + 1 \in Turn /\ turns + 1 \in 0 .. MaxTurns
  BY <1>1, TurnGuardAssumption DEF GuardInv, TurnGuardTypeOK, Turn
<1>3. TurnGuardTypeOK'
  BY <1>1, <1>2 DEF GuardInv, TurnGuardTypeOK
<1>4. /\ bar[turns + 1] = NoBar /\ finish[turns + 1] = NotYet /\ posted[turns + 1] = 0
      /\ turns + 1 \notin said \cup sent \cup owed
  BY <1>2 DEF GuardInv, TurnFits, TurnHasItsTime
<1>5. TurnIsGuarded'
  BY <1>1, <1>2, <1>4 DEF TurnIsGuarded, NoBar
<1>6. ASSUME NEW t \in Turn PROVE TurnFits(t)'
  <2>1. CASE t = turns + 1
    BY <1>1, <1>2, <1>4, <2>1
    DEF TurnFits, TurnHasItsTime, FinishFits, AnswersFit, Answers, NoBar, NotYet
  <2>2. CASE t # turns + 1
    <3>1. t \in Nat /\ TurnFits(t) /\ kind'[t] = kind[t]
      BY <1>1, <2>2, TurnGuardAssumption DEF GuardInv, TurnGuardTypeOK, Turn
    <3>2. guard # 0 => stops # 0
      BY <1>1 DEF GuardInv, TurnIsGuarded
    <3>3. TurnHasItsTime(t)'
      <4>1. stops \in Nat /\ guard \in 0 .. MaxTurns /\ t # 0
        BY TurnGuardAssumption DEF GuardInv, TurnGuardTypeOK, Turn
      <4>2. QED
        BY <1>1, <1>2, <2>2, <3>1, <3>2, <4>1 DEF TurnFits, TurnHasItsTime
    <3>4. FinishFits(t)' /\ AnswersFit(t)'
      BY <1>1, <3>1 DEF TurnFits, FinishFits, AnswersFit, Enabled, Answers
    <3>5. QED
      BY <3>3, <3>4 DEF TurnFits
  <2>3. QED
    BY <2>1, <2>2
<1>7. QED
  BY <1>3, <1>5, <1>6 DEF GuardInv

\* A frame of the turn that is out only touches what its guard keeps of it.
LEMMA NoteKeeps ==
  ASSUME GuardInv, Note
  PROVE  GuardInv'
<1>1. /\ turn # 0 /\ guard # 0
      /\ UNCHANGED <<working, turn, turns, kind, guard, finish, posted, asked, owed, failures, stops>>
  BY DEF Note
<1>2. PICK frame \in {"text", "send", "other"} :
        /\ lastText' = (lastText \/ frame = "text") /\ hadSend' = (hadSend \/ frame = "send")
        /\ said' = IF frame = "text" THEN said \cup {turn} ELSE said
        /\ sent' = IF frame = "send" THEN sent \cup {turn} ELSE sent
        /\ bar' = IF bar[guard].closed \/ ~Enabled(guard) THEN bar
                  ELSE [bar EXCEPT ![guard].queued = TRUE]
  BY DEF Note
<1>3. /\ guard = turn /\ turn = turns /\ turn \in Turn /\ ~bar[turn].closed
      /\ bar \in [Turn -> BarType]
      /\ turns \in Nat /\ failures \in Nat
  BY <1>1, TurnGuardAssumption DEF GuardInv, TurnIsGuarded, TurnGuardTypeOK, Turn, BarType
<1>4. /\ \A t \in Turn : t # turn => bar'[t] = bar[t]
      /\ bar'[turn].msg = bar[turn].msg /\ bar'[turn].busy = bar[turn].busy
      /\ bar'[turn].closed = bar[turn].closed
      /\ bar'[turn].queued = bar[turn].queued \/ Enabled(turn)
      /\ bar' \in [Turn -> BarType]
  <2>1. CASE bar[guard].closed \/ ~Enabled(guard)
    BY <1>2, <1>3, <2>1
  <2>2. CASE ~(bar[guard].closed \/ ~Enabled(guard))
    <3>1. bar' = [bar EXCEPT ![turn].queued = TRUE]
      BY <1>2, <1>3, <2>2
    <3>2. bar[turn] \in BarType
      BY <1>3
    <3>3. bar'[turn] = [bar[turn] EXCEPT !.queued = TRUE] /\ \A t \in Turn : t # turn => bar'[t] = bar[t]
      BY <1>3, <3>1
    <3>4. bar'[turn] \in BarType /\ bar'[turn].msg = bar[turn].msg /\ bar'[turn].busy = bar[turn].busy
          /\ bar'[turn].closed = bar[turn].closed /\ bar'[turn].queued
      BY <3>2, <3>3 DEF BarType
    <3>5. bar' \in [Turn -> BarType]
      BY <1>3, <3>1, <3>3, <3>4
    <3>6. QED
      BY <1>3, <2>2, <3>3, <3>4, <3>5
  <2>3. QED
    BY <2>1, <2>2
<1>5. said' \subseteq Turn /\ sent' \subseteq Turn
  BY <1>2, <1>3 DEF GuardInv, TurnGuardTypeOK
<1>6. lastText' \in BOOLEAN /\ hadSend' \in BOOLEAN
  BY <1>2
<1>7. TurnGuardTypeOK'
  BY <1>1, <1>4, <1>5, <1>6 DEF GuardInv, TurnGuardTypeOK, BarType
<1>8. TurnIsGuarded'
  BY <1>1, <1>2, <1>3, <1>4 DEF GuardInv, TurnIsGuarded
<1>9. ASSUME NEW t \in Turn PROVE TurnFits(t)'
  <2>1. TurnFits(t)
    BY DEF GuardInv
  <2>2. CASE t # turn
    <3>1. (t \in said' <=> t \in said) /\ (t \in sent' <=> t \in sent)
      BY <1>2, <2>2
    <3>2. t <= turns => bar'[t].closed \/ t = guard' \/ stops' > 0
      BY <1>1, <1>4, <2>1, <2>2 DEF TurnFits, TurnHasItsTime
    <3>3. QED
      BY <1>1, <1>3, <1>4, <2>1, <2>2, <3>1, <3>2, Untouched
  <2>3. CASE t = turn
    <3>1. finish[turn].step = "no"
      BY <1>3, <2>1, <2>3 DEF TurnFits, FinishFits
    <3>2. TurnHasItsTime(t)' /\ AnswersFit(t)'
      BY <1>1, <1>3, <1>4, <2>1, <2>3, <3>1 DEF TurnFits, TurnHasItsTime, AnswersFit
    <3>3. FinishFits(t)'
      BY <1>1, <1>3, <1>4, <2>1, <2>3, <3>1 DEF TurnFits, FinishFits, Enabled
    <3>4. QED
      BY <3>2, <3>3 DEF TurnFits
  <2>4. QED
    BY <2>2, <2>3
<1>10. QED
  BY <1>7, <1>8, <1>9 DEF GuardInv

\* finish() of a progress message that is open closes it and leaves the others alone.
LEMMA FinishCloses ==
  ASSUME bar \in [Turn -> BarType], finish \in [Turn -> EndType], NEW x \in Turn, ~bar[x].closed,
         NEW plan \in {"quiet", "answer", "ask"}, Finish(x, plan)
  PROVE  /\ bar' \in [Turn -> BarType] /\ finish' \in [Turn -> EndType]
         /\ \A t \in Turn : t # x => bar'[t] = bar[t] /\ finish'[t] = finish[t]
         /\ bar'[x].closed /\ bar'[x].msg = bar[x].msg /\ bar'[x].busy = bar[x].busy
         /\ bar'[x].queued = bar[x].queued
         /\ finish'[x].step = "flush" /\ finish'[x].plan = plan
<1>1. bar' = [bar EXCEPT ![x].closed = TRUE]
      /\ finish' = [finish EXCEPT ![x] = [step |-> "flush", plan |-> plan]]
  BY DEF Finish
<1>2. bar[x] \in BarType /\ [step |-> "flush", plan |-> plan] \in EndType
  BY DEF EndType
<1>3. bar'[x] = [bar[x] EXCEPT !.closed = TRUE] /\ \A t \in Turn : t # x => bar'[t] = bar[t]
  BY <1>1
<1>4. bar'[x] \in BarType /\ bar'[x].closed /\ bar'[x].msg = bar[x].msg
      /\ bar'[x].busy = bar[x].busy /\ bar'[x].queued = bar[x].queued
  BY <1>2, <1>3 DEF BarType
<1>5. bar' \in [Turn -> BarType]
  BY <1>1, <1>3, <1>4
<1>6. finish'[x] = [step |-> "flush", plan |-> plan] /\ finish' \in [Turn -> EndType]
      /\ \A t \in Turn : t # x => finish'[t] = finish[t]
  BY <1>1, <1>2
<1>7. QED
  BY <1>3, <1>4, <1>5, <1>6

\* However a turn ends, if its guard goes with it the progress message is finished.
LEMMA GuardCloses ==
  ASSUME GuardInv, turn # 0, NEW plan \in {"quiet", "answer", "ask"}, Finish(guard, plan),
         turn' = 0, guard' = 0, working' = FALSE,
         said' \in {said, said \cup {turn}}, sent' = sent, owed' \in {owed, owed \cup {turn}},
         plan = "answer" <=> turn \in owed',
         UNCHANGED <<turns, kind, hadSend, lastText, posted, asked, failures>>,
         stops' \in 0 .. MaxStops, stops' >= stops
  PROVE  GuardInv'
<1>1. /\ guard = turn /\ turn = turns /\ turn \in Turn /\ ~bar[turn].closed
      /\ bar \in [Turn -> BarType] /\ finish \in [Turn -> EndType]
      /\ turns \in Nat /\ failures \in Nat /\ stops \in Nat
  BY TurnGuardAssumption
  DEF GuardInv, TurnIsGuarded, TurnGuardTypeOK, Turn, BarType, EndType
<1>2. /\ bar' \in [Turn -> BarType] /\ finish' \in [Turn -> EndType]
      /\ \A t \in Turn : t # turn => bar'[t] = bar[t] /\ finish'[t] = finish[t]
      /\ bar'[turn].closed /\ bar'[turn].msg = bar[turn].msg /\ bar'[turn].busy = bar[turn].busy
      /\ bar'[turn].queued = bar[turn].queued
      /\ finish'[turn].step = "flush" /\ finish'[turn].plan = plan
  BY <1>1, FinishCloses
<1>3. TurnGuardTypeOK'
  <2>1. said' \subseteq Turn /\ sent' \subseteq Turn /\ owed' \subseteq Turn
    BY <1>1 DEF GuardInv, TurnGuardTypeOK
  <2>2. 0 \in 0 .. MaxTurns
    BY TurnGuardAssumption
  <2>3. QED
    BY <1>2, <2>1, <2>2 DEF GuardInv, TurnGuardTypeOK, BarType, EndType
<1>4. TurnIsGuarded'
  BY <1>1 DEF GuardInv, TurnIsGuarded
<1>5. ASSUME NEW t \in Turn PROVE TurnFits(t)'
  <2>1. TurnFits(t)
    BY DEF GuardInv
  <2>2. CASE t # turn
    <3>1. (t \in said' \cup sent' => t \in said \cup sent \/ t <= turns) /\ (t \in owed' <=> t \in owed)
      BY <2>2
    <3>2. t <= turns => bar'[t].closed \/ t = guard' \/ stops' > 0
      BY <1>1, <1>2, <2>1, <2>2 DEF TurnFits, TurnHasItsTime
    <3>3. bar'[t] = bar[t] /\ finish'[t] = finish[t] /\ posted'[t] = posted[t] /\ kind'[t] = kind[t]
          /\ turns' = turns /\ failures' >= failures /\ failures' \in Nat
      BY <1>1, <1>2, <2>2
    <3>4. QED
      BY <1>1, <2>1, <3>1, <3>2, <3>3, Untouched
  <2>3. CASE t = turn
    <3>1. finish[turn].step = "no"
      BY <1>1, <2>1, <2>3 DEF TurnFits, FinishFits
    <3>2. TurnHasItsTime(t)' /\ AnswersFit(t)'
      BY <1>1, <1>2, <2>1, <2>3, <3>1 DEF TurnFits, TurnHasItsTime, AnswersFit
    <3>3. FinishFits(t)'
      BY <1>1, <1>2, <2>1, <2>3, <3>1 DEF TurnFits, FinishFits, Enabled
    <3>4. QED
      BY <3>2, <3>3 DEF TurnFits
  <2>4. QED
    BY <2>2, <2>3
<1>6. QED
  BY <1>3, <1>4, <1>5 DEF GuardInv

\* The guard stays where a stop has taken the turn out of "working".
LEMMA GuardRests ==
  ASSUME GuardInv, turn # 0, turn' \in {0, turn}, working' = FALSE,
         said' \in {said, said \cup {turn}}, turn' # 0 => said' = said,
         UNCHANGED <<turns, kind, guard, hadSend, lastText, bar, finish, posted, asked,
                     sent, owed, failures>>,
         stops' \in 0 .. MaxStops, stops' >= stops, stops' > 0
  PROVE  GuardInv'
<1>1. /\ turn = turns /\ turn \in Turn /\ turns \in Nat /\ failures \in Nat /\ 0 \in 0 .. MaxTurns
  BY TurnGuardAssumption DEF GuardInv, TurnIsGuarded, TurnGuardTypeOK, Turn
<1>2. TurnGuardTypeOK'
  <2>1. said' \subseteq Turn /\ turn' \in 0 .. MaxTurns
    BY <1>1 DEF GuardInv, TurnGuardTypeOK
  <2>2. QED
    BY <2>1 DEF GuardInv, TurnGuardTypeOK
<1>3. TurnIsGuarded'
  BY <1>1 DEF GuardInv, TurnIsGuarded, TurnGuardTypeOK
<1>4. ASSUME NEW t \in Turn PROVE TurnFits(t)'
  <2>1. TurnFits(t)
    BY DEF GuardInv
  <2>2. t \in said' \cup sent' => t \in said \cup sent \/ t <= turns
    BY <1>1
  <2>3. failures' >= failures /\ failures' \in Nat
    BY <1>1
  <2>4. QED
    BY <1>1, <2>1, <2>2, <2>3, Untouched
<1>5. QED
  BY <1>2, <1>3, <1>4 DEF GuardInv

\* The end of a turn: what its guard plans is an answer exactly if one is owed.
LEMMA EndKeeps ==
  ASSUME GuardInv, GuardedTurnEnds
  PROVE  GuardInv'
<1>1. /\ turn # 0 /\ turn' = 0 /\ guard = turn /\ turn = turns
      /\ (lastText <=> turn \in said) /\ (hadSend <=> turn \in sent)
      /\ UNCHANGED <<turns, kind, hadSend, lastText, posted, asked, sent, failures, stops>>
  BY DEF GuardedTurnEnds, GuardInv, TurnIsGuarded
<1>2. PICK outcome \in {"success", "error", "waits"}, result \in BOOLEAN, rejected \in BOOLEAN :
       /\ result => outcome = "success" /\ kind[turn] = "bridge"
       /\ said' = IF result THEN said \cup {turn} ELSE said
       /\ IF working
          THEN /\ guard' = 0 /\ working' = FALSE
               /\ Finish(guard, Plan(outcome, lastText \/ result))
               /\ owed' = IF outcome = "success" /\ turn \in said' \ sent /\ kind[turn] # "quiet"
                          THEN owed \cup {turn} ELSE owed
          ELSE /\ UNCHANGED <<working, owed>>
               /\ IF rejected THEN AbortGuard /\ guard' = 0
                              ELSE UNCHANGED <<finish, bar, guard>>
  BY DEF GuardedTurnEnds
<1>3. /\ stops \in 0 .. MaxStops /\ stops \in Nat /\ working \in BOOLEAN /\ turn \in Turn
      /\ stops' \in 0 .. MaxStops /\ stops' >= stops
      /\ said' \in {said, said \cup {turn}} /\ sent' = sent
  BY <1>1, <1>2, TurnGuardAssumption DEF GuardInv, TurnGuardTypeOK, Turn
<1>4. turn \notin owed
  BY <1>1, <1>3 DEF GuardInv, TurnIsGuarded, TurnFits, FinishFits
<1>5. CASE working
  <2> DEFINE plan == Plan(outcome, lastText \/ result)
  <2>1. turn \in said' <=> lastText \/ result
    BY <1>1, <1>2
  <2>2. plan \in {"quiet", "answer", "ask"}
        /\ (plan = "answer" <=> outcome = "success" /\ ~hadSend /\ kind[turn] # "quiet"
                                /\ (lastText \/ result))
    BY <1>1 DEF Plan
  <2>3. /\ guard' = 0 /\ working' = FALSE /\ Finish(guard, plan)
        /\ owed' = IF outcome = "success" /\ turn \in said' \ sent /\ kind[turn] # "quiet"
                   THEN owed \cup {turn} ELSE owed
    BY <1>2, <1>5
  <2>4. owed' \in {owed, owed \cup {turn}} /\ (plan = "answer" <=> turn \in owed')
    BY <1>1, <1>4, <2>1, <2>2, <2>3
  <2> HIDE DEF plan
  <2>5. QED
    BY <1>1, <1>3, <2>2, <2>3, <2>4, GuardCloses
<1>6. CASE ~working
  <2>1. stops' > 0 /\ working' = FALSE /\ owed' = owed
    BY <1>1, <1>2, <1>3, <1>6 DEF GuardInv, TurnIsGuarded
  <2>2. CASE rejected
    <3>1. Finish(guard, "quiet") /\ guard' = 0
      BY <1>1, <1>2, <1>6, <2>2 DEF AbortGuard
    <3>2. QED
      BY <1>1, <1>3, <1>4, <2>1, <3>1, GuardCloses
  <2>3. CASE ~rejected
    <3>1. UNCHANGED <<finish, bar, guard>>
      BY <1>2, <1>6, <2>3
    <3>2. QED
      BY <1>1, <1>3, <2>1, <3>1, GuardRests
  <2>4. QED
    BY <2>2, <2>3
<1>7. QED
  BY <1>3, <1>5, <1>6

\* A turn that is given up owes nothing.
LEMMA FailedTurnKeeps ==
  ASSUME GuardInv, FailTurn, stops' \in 0 .. MaxStops, stops' >= stops
  PROVE  GuardInv'
<1>1. /\ turn # 0 /\ turn' = 0 /\ working' = FALSE /\ guard' = 0 /\ guard = turn
      /\ UNCHANGED <<turns, kind, hadSend, lastText, posted, asked, said, sent, owed, failures>>
  BY DEF FailTurn, guardHistory, GuardInv, TurnIsGuarded
<1>2. Finish(guard, "quiet")
  BY <1>1 DEF FailTurn, AbortGuard
<1>3. turn \in Turn
  BY <1>1, TurnGuardAssumption DEF GuardInv, TurnGuardTypeOK, Turn
<1>4. turn \notin owed
  BY <1>1, <1>3 DEF GuardInv, TurnIsGuarded, TurnFits, FinishFits
<1>5. QED
  BY <1>1, <1>2, <1>4, GuardCloses

LEMMA StopKeeps ==
  ASSUME GuardInv, StopTurn
  PROVE  GuardInv'
<1>1. stops' \in 0 .. MaxStops /\ stops' >= stops /\ stops' > 0
  BY TurnGuardAssumption DEF GuardInv, TurnGuardTypeOK, StopTurn
<1>2. CASE kind[turn] = "claude"
  BY <1>1, <1>2, FailedTurnKeeps DEF StopTurn
<1>3. CASE kind[turn] # "claude"
  BY <1>1, <1>3, GuardRests DEF StopTurn, guardHistory
<1>4. QED
  BY <1>2, <1>3

\* A call of the progress message that comes back leaves its finish() alone.
LEMMA BarMoves ==
  ASSUME GuardInv, NEW x \in Turn, bar[x].queued \/ bar[x].busy # "no",
         OnlyBars, UNCHANGED <<finish, posted>>,
         failures' \in 0 .. MaxFailures, failures' >= failures,
         bar' \in [Turn -> BarType], \A t \in Turn : t # x => bar'[t] = bar[t],
         bar'[x].closed = bar[x].closed, bar'[x].msg \in {bar[x].msg, "shown"}
  PROVE  GuardInv'
<1>1. /\ UNCHANGED <<working, turn, turns, kind, guard, hadSend, lastText, asked, said, sent, owed, stops>>
      /\ failures \in Nat /\ failures' \in Nat /\ turns \in Nat /\ x \in Nat
  BY TurnGuardAssumption DEF OnlyBars, guardHistory, GuardInv, TurnGuardTypeOK, Turn
<1>2. TurnGuardTypeOK'
  BY <1>1 DEF GuardInv, TurnGuardTypeOK, BarType
<1>3. TurnIsGuarded'
  <2>1. guard # 0 => guard \in Turn
    BY TurnGuardAssumption DEF GuardInv, TurnGuardTypeOK, Turn
  <2>2. guard # 0 => bar'[guard].closed = bar[guard].closed
    BY <2>1
  <2>3. QED
    BY <1>1, <2>2 DEF GuardInv, TurnIsGuarded
<1>4. ASSUME NEW t \in Turn PROVE TurnFits(t)'
  <2>1. TurnFits(t)
    BY DEF GuardInv
  <2>2. CASE t # x
    <3>1. bar'[t] = bar[t] /\ (t <= turns => bar'[t].closed \/ t = guard' \/ stops' > 0)
      BY <1>1, <2>1, <2>2 DEF TurnFits, TurnHasItsTime
    <3>2. QED
      BY <1>1, <2>1, <3>1, Untouched
  <2>3. CASE t = x
    <3>1. x <= turns /\ finish[x].step \in {"no", "flush"} /\ Enabled(x)
          /\ bar[x].msg \in {"none", "shown"} /\ posted[x] = 0
      <4>1. finish[x] \in EndType
        BY DEF GuardInv, TurnGuardTypeOK, EndType
      <4>2. x <= turns
        BY <1>1, <2>1, <2>3 DEF TurnFits, TurnHasItsTime, NoBar
      <4>3. finish[x].step \in {"no", "flush"} /\ Enabled(x)
        BY <2>1, <2>3, <4>1 DEF TurnFits, FinishFits, EndType
      <4>4. QED
        BY <2>1, <2>3, <4>2, <4>3 DEF TurnFits, AnswersFit
    <3>2. TurnHasItsTime(t)'
      BY <1>1, <2>1, <2>3, <3>1 DEF TurnFits, TurnHasItsTime
    <3>3. FinishFits(t)'
      BY <1>1, <2>1, <2>3, <3>1 DEF TurnFits, FinishFits, Enabled
    <3>4. AnswersFit(t)'
      BY <1>1, <2>3, <3>1 DEF AnswersFit
    <3>5. QED
      BY <3>2, <3>3, <3>4 DEF TurnFits
  <2>4. QED
    BY <2>2, <2>3
<1>5. QED
  BY <1>2, <1>3, <1>4 DEF GuardInv

LEMMA FlushKeeps ==
  ASSUME GuardInv, NEW x \in Turn, FlushBar(x)
  PROVE  GuardInv'
<1> DEFINE next == IF bar[x].closed THEN "no" ELSE IF bar[x].msg = "none" THEN "post" ELSE "edit"
<1>1. bar[x].queued /\ bar' = [bar EXCEPT ![x].queued = FALSE, ![x].busy = next]
      /\ OnlyBars /\ UNCHANGED <<finish, posted, failures>>
  BY DEF FlushBar
<1>2. bar \in [Turn -> BarType] /\ bar[x] \in BarType /\ next \in {"no", "post", "edit"}
  BY DEF GuardInv, TurnGuardTypeOK, BarType
<1> HIDE DEF next
<1>3. /\ bar'[x] = [bar[x] EXCEPT !.queued = FALSE, !.busy = next]
      /\ \A t \in Turn : t # x => bar'[t] = bar[t]
  BY <1>1, <1>2
<1>4. bar'[x] \in BarType /\ bar'[x].closed = bar[x].closed /\ bar'[x].msg = bar[x].msg
  BY <1>2, <1>3 DEF BarType
<1>5. bar' \in [Turn -> BarType]
  BY <1>1, <1>2, <1>3, <1>4
<1>6. failures' \in 0 .. MaxFailures /\ failures' >= failures
  BY <1>1, TurnGuardAssumption DEF GuardInv, TurnGuardTypeOK
<1>7. QED
  BY <1>1, <1>3, <1>4, <1>5, <1>6, BarMoves

LEMMA ReturnKeeps ==
  ASSUME GuardInv, NEW x \in Turn, FlushReturns(x)
  PROVE  GuardInv'
<1> DEFINE next == IF bar[x].busy = "post" THEN "shown" ELSE bar[x].msg
<1>1. /\ bar[x].busy # "no" /\ OnlyBars /\ UNCHANGED <<finish, posted>>
      /\ \/ bar' = [bar EXCEPT ![x].busy = "no", ![x].msg = next] /\ UNCHANGED failures
         \/ bar' = [bar EXCEPT ![x].busy = "no"] /\ CallFails
  BY DEF FlushReturns
<1>2. bar \in [Turn -> BarType] /\ bar[x] \in BarType
      /\ next \in {"none", "shown", "gone", "answer"} /\ next \in {bar[x].msg, "shown"}
  BY DEF GuardInv, TurnGuardTypeOK, BarType
<1>3. failures' \in 0 .. MaxFailures /\ failures' >= failures
  BY <1>1, TurnGuardAssumption DEF GuardInv, TurnGuardTypeOK, CallFails
<1> HIDE DEF next
<1>4. CASE bar' = [bar EXCEPT ![x].busy = "no", ![x].msg = next]
  <2>1. /\ bar'[x] = [bar[x] EXCEPT !.busy = "no", !.msg = next]
        /\ \A t \in Turn : t # x => bar'[t] = bar[t]
    BY <1>2, <1>4
  <2>2. bar'[x] \in BarType /\ bar'[x].closed = bar[x].closed /\ bar'[x].msg = next
    BY <1>2, <2>1 DEF BarType
  <2>3. bar' \in [Turn -> BarType]
    BY <1>2, <1>4, <2>1, <2>2
  <2>4. QED
    BY <1>1, <1>2, <1>3, <2>1, <2>2, <2>3, BarMoves
<1>5. CASE bar' = [bar EXCEPT ![x].busy = "no"]
  <2>1. /\ bar'[x] = [bar[x] EXCEPT !.busy = "no"]
        /\ \A t \in Turn : t # x => bar'[t] = bar[t]
    BY <1>2, <1>5
  <2>2. bar'[x] \in BarType /\ bar'[x].closed = bar[x].closed /\ bar'[x].msg = bar[x].msg
    BY <1>2, <2>1 DEF BarType
  <2>3. bar' \in [Turn -> BarType]
    BY <1>2, <1>5, <2>1, <2>2
  <2>4. QED
    BY <1>1, <1>3, <2>1, <2>2, <2>3, BarMoves
<1>6. QED
  BY <1>1, <1>4, <1>5

\* finish() comes a step further: it has closed the message before, so that no flush of
\* its own is under way, and the answer is counted where the call or the post makes it.
LEMMA EndMoves ==
  ASSUME GuardInv, NEW x \in Turn, finish[x].step \in {"flush", "edit", "remove"},
         bar[x].busy = "no", ~bar[x].queued,
         UNCHANGED <<working, turn, turns, kind, guard, hadSend, lastText, said, sent, owed, stops>>,
         failures' \in 0 .. MaxFailures, failures' >= failures,
         bar' \in [Turn -> BarType], finish' \in [Turn -> EndType],
         posted' \in [Turn -> Nat], asked' \in [Turn -> Nat],
         \A t \in Turn : t # x => bar'[t] = bar[t] /\ finish'[t] = finish[t] /\ posted'[t] = posted[t],
         bar'[x].closed = bar[x].closed, bar'[x].busy = "no", ~bar'[x].queued,
         bar'[x].msg # "none" => Enabled(x),
         finish'[x].plan = finish[x].plan,
         finish'[x].step \in {"edit", "remove", "done"},
         finish'[x].step = "edit" => finish[x].plan = "answer",
         finish'[x].step = "remove" => finish[x].plan # "answer",
         finish'[x].step \in {"edit", "remove"} => Enabled(x),
         AnswersFit(x)'
  PROVE  GuardInv'
<1>1. failures \in Nat /\ failures' \in Nat /\ turns \in Nat /\ x \in Nat /\ bar[x].closed
      /\ TurnFits(x)
  BY TurnGuardAssumption DEF GuardInv, TurnGuardTypeOK, Turn, TurnFits, FinishFits
<1>2. TurnGuardTypeOK'
  BY DEF GuardInv, TurnGuardTypeOK, BarType, EndType
<1>3. TurnIsGuarded'
  <2>1. guard # 0 => guard \in Turn
    BY TurnGuardAssumption DEF GuardInv, TurnGuardTypeOK, Turn
  <2>2. guard # 0 => bar'[guard].closed = bar[guard].closed
    BY <2>1
  <2>3. QED
    BY <2>2 DEF GuardInv, TurnIsGuarded
<1>4. ASSUME NEW t \in Turn PROVE TurnFits(t)'
  <2>1. TurnFits(t)
    BY DEF GuardInv
  <2>2. CASE t # x
    <3>1. /\ bar'[t] = bar[t] /\ finish'[t] = finish[t] /\ posted'[t] = posted[t]
          /\ (t <= turns => bar'[t].closed \/ t = guard' \/ stops' > 0)
      BY <2>1, <2>2 DEF TurnFits, TurnHasItsTime
    <3>2. QED
      BY <1>1, <2>1, <3>1, Untouched
  <2>3. CASE t = x
    <3>1. x <= turns
      BY <1>1 DEF TurnFits, TurnHasItsTime, NoBar
    <3>2. ~(x > turns') /\ bar'[x].closed
      BY <1>1, <3>1
    <3>3. TurnHasItsTime(t)'
      BY <2>3, <3>2 DEF TurnHasItsTime
    <3>4. FinishFits(t)'
      BY <1>1, <2>3 DEF TurnFits, FinishFits, Enabled
    <3>5. QED
      BY <2>3, <3>3, <3>4 DEF TurnFits
  <2>4. QED
    BY <2>2, <2>3
<1>5. QED
  BY <1>2, <1>3, <1>4 DEF GuardInv

\* What a step of finish() does to the counters and to its own place.
LEMMA ToMoves ==
  ASSUME finish \in [Turn -> EndType], NEW x \in Turn,
         NEW step \in {"no", "flush", "edit", "remove", "done"}, To(x, step)
  PROVE  /\ finish' \in [Turn -> EndType] /\ finish'[x].step = step
         /\ finish'[x].plan = finish[x].plan
         /\ \A t \in Turn : t # x => finish'[t] = finish[t]
<1>1. finish' = [finish EXCEPT ![x].step = step] /\ finish[x] \in EndType
  BY DEF To
<1>2. finish'[x] = [finish[x] EXCEPT !.step = step] /\ \A t \in Turn : t # x => finish'[t] = finish[t]
  BY <1>1
<1>3. finish'[x] \in EndType /\ finish'[x].step = step /\ finish'[x].plan = finish[x].plan
  BY <1>1, <1>2 DEF EndType
<1>4. finish' \in [Turn -> EndType]
  BY <1>1, <1>2, <1>3
<1>5. QED
  BY <1>2, <1>3, <1>4

LEMMA ConcludedMoves ==
  ASSUME finish \in [Turn -> EndType], posted \in [Turn -> Nat], asked \in [Turn -> Nat],
         NEW x \in Turn, NEW rewritten \in BOOLEAN, Concluded(x, rewritten)
  PROVE  /\ finish' \in [Turn -> EndType] /\ finish'[x].step = "done"
         /\ finish'[x].plan = finish[x].plan
         /\ posted' \in [Turn -> Nat] /\ asked' \in [Turn -> Nat]
         /\ posted'[x] = posted[x] + (IF finish[x].plan = "answer" /\ ~rewritten THEN 1 ELSE 0)
         /\ \A t \in Turn : t # x => finish'[t] = finish[t] /\ posted'[t] = posted[t]
<1>1. To(x, "done")
  BY DEF Concluded
<1>2. /\ finish' \in [Turn -> EndType] /\ finish'[x].step = "done"
      /\ finish'[x].plan = finish[x].plan /\ \A t \in Turn : t # x => finish'[t] = finish[t]
  BY <1>1, ToMoves
<1>3. asked' \in [Turn -> Nat]
  BY DEF Concluded
<1>4. posted' \in [Turn -> Nat] /\ \A t \in Turn : t # x => posted'[t] = posted[t]
  BY DEF Concluded
<1>5. posted'[x] = posted[x] + (IF finish[x].plan = "answer" /\ ~rewritten THEN 1 ELSE 0)
  BY DEF Concluded
<1>6. QED
  BY <1>2, <1>3, <1>4, <1>5

LEMMA FlushedKeeps ==
  ASSUME GuardInv, NEW x \in Turn, FinishFlushed(x)
  PROVE  GuardInv'
<1>1. /\ finish[x].step = "flush" /\ bar[x].busy = "no" /\ ~bar[x].queued
      /\ UNCHANGED <<working, turn, turns, kind, guard, hadSend, lastText, bar, said, sent, owed,
                     failures, stops>>
  BY DEF FinishFlushed, guardHistory
<1>2. /\ finish \in [Turn -> EndType] /\ bar \in [Turn -> BarType] /\ posted \in [Turn -> Nat]
      /\ asked \in [Turn -> Nat] /\ failures \in 0 .. MaxFailures /\ failures \in Nat
  BY TurnGuardAssumption DEF GuardInv, TurnGuardTypeOK, BarType, EndType
<1>3. /\ posted[x] = 0 /\ bar[x].msg \in {"none", "shown"} /\ (bar[x].msg # "none" => Enabled(x))
      /\ (finish[x].plan = "answer" <=> x \in owed)
  BY <1>1 DEF GuardInv, TurnFits, FinishFits, AnswersFit
<1>4. bar' = bar /\ failures' = failures /\ failures' >= failures
  BY <1>1, <1>2
<1>5. CASE Enabled(x) /\ bar[x].msg = "shown"
  <2>1. To(x, IF finish[x].plan = "answer" THEN "edit" ELSE "remove") /\ UNCHANGED <<posted, asked>>
    BY <1>5 DEF FinishFlushed
  <2>2. PICK step \in {"edit", "remove"} :
          To(x, step) /\ (step = "edit" => finish[x].plan = "answer")
          /\ (step = "remove" => finish[x].plan # "answer")
    BY <2>1
  <2>3. /\ finish' \in [Turn -> EndType] /\ finish'[x].step = step
        /\ finish'[x].plan = finish[x].plan
        /\ \A t \in Turn : t # x => finish'[t] = finish[t]
    BY <1>2, <2>2, ToMoves
  <2>4. AnswersFit(x)'
    BY <1>3, <1>4, <2>1, <2>3 DEF AnswersFit
  <2>5. QED
    BY <1>1, <1>2, <1>3, <1>4, <1>5, <2>1, <2>2, <2>3, <2>4, EndMoves
<1>6. CASE ~(Enabled(x) /\ bar[x].msg = "shown")
  <2>1. Concluded(x, FALSE)
    BY <1>6 DEF FinishFlushed
  <2>2. /\ finish' \in [Turn -> EndType] /\ finish'[x].step = "done"
        /\ finish'[x].plan = finish[x].plan
        /\ posted' \in [Turn -> Nat] /\ asked' \in [Turn -> Nat]
        /\ posted'[x] = posted[x] + (IF finish[x].plan = "answer" /\ ~FALSE THEN 1 ELSE 0)
        /\ \A t \in Turn : t # x => finish'[t] = finish[t] /\ posted'[t] = posted[t]
    BY <1>2, <2>1, ConcludedMoves
  <2>3. AnswersFit(x)'
    BY <1>1, <1>3, <1>4, <1>6, <2>2 DEF AnswersFit, Answers
  <2>4. QED
    BY <1>1, <1>2, <1>3, <1>4, <2>2, <2>3, EndMoves
<1>7. QED
  BY <1>5, <1>6

LEMMA CalledKeeps ==
  ASSUME GuardInv, NEW x \in Turn, FinishCalled(x)
  PROVE  GuardInv'
<1> DEFINE next == IF finish[x].step = "edit" THEN "answer" ELSE "gone"
           rewritten == finish[x].step = "edit"
<1>1. /\ finish[x].step \in {"edit", "remove"} /\ Concluded(x, rewritten)
      /\ \/ bar' = [bar EXCEPT ![x].msg = next] /\ UNCHANGED failures
         \/ UNCHANGED bar /\ CallFails
      /\ UNCHANGED <<working, turn, turns, kind, guard, hadSend, lastText, said, sent, owed, stops>>
  BY DEF FinishCalled, guardHistory
<1>2. /\ finish \in [Turn -> EndType] /\ bar \in [Turn -> BarType] /\ bar[x] \in BarType
      /\ posted \in [Turn -> Nat]
      /\ asked \in [Turn -> Nat] /\ failures \in 0 .. MaxFailures /\ failures \in Nat
  BY TurnGuardAssumption DEF GuardInv, TurnGuardTypeOK, BarType, EndType
<1>3. failures' \in 0 .. MaxFailures /\ failures' >= failures
  BY <1>1, <1>2, TurnGuardAssumption DEF CallFails
<1>4. /\ posted[x] = 0 /\ bar[x].msg \in {"none", "shown"} /\ (bar[x].msg # "none" => Enabled(x))
      /\ (finish[x].plan = "answer" <=> x \in owed) /\ bar[x].busy = "no" /\ ~bar[x].queued
      /\ (rewritten <=> x \in owed)
  BY <1>1 DEF GuardInv, TurnFits, FinishFits, AnswersFit
<1>5. next \in {"gone", "answer"} /\ (next = "answer" <=> x \in owed) /\ rewritten \in BOOLEAN
  BY <1>4
<1> HIDE DEF next, rewritten
<1>6. /\ finish' \in [Turn -> EndType] /\ finish'[x].step = "done"
      /\ finish'[x].plan = finish[x].plan
      /\ posted' \in [Turn -> Nat] /\ asked' \in [Turn -> Nat]
      /\ posted'[x] = posted[x] + (IF finish[x].plan = "answer" /\ ~rewritten THEN 1 ELSE 0)
      /\ \A t \in Turn : t # x => finish'[t] = finish[t] /\ posted'[t] = posted[t]
  BY <1>1, <1>2, <1>5, ConcludedMoves
<1>7. posted'[x] = 0
  BY <1>4, <1>6
<1>8. CASE bar' = [bar EXCEPT ![x].msg = next] /\ UNCHANGED failures
  <2>1. bar'[x] = [bar[x] EXCEPT !.msg = next] /\ \A t \in Turn : t # x => bar'[t] = bar[t]
    BY <1>2, <1>8
  <2>2. bar'[x] \in BarType /\ bar'[x].closed = bar[x].closed /\ bar'[x].msg = next
        /\ bar'[x].busy = "no" /\ ~bar'[x].queued
    BY <1>2, <1>4, <1>5, <2>1 DEF BarType
  <2>3. bar' \in [Turn -> BarType]
    BY <1>2, <1>8, <2>1, <2>2
  <2>4. AnswersFit(x)'
    BY <1>1, <1>5, <1>6, <1>7, <2>2 DEF AnswersFit, Answers
  <2>5. Enabled(x)
    BY <1>1 DEF GuardInv, TurnFits, FinishFits
  <2>6. QED
    BY <1>1, <1>3, <1>4, <1>6, <2>1, <2>2, <2>3, <2>4, <2>5, EndMoves
<1>9. CASE UNCHANGED bar /\ CallFails
  <2>1. bar' = bar /\ failures' # 0
    BY <1>2, <1>9 DEF CallFails
  <2>2. AnswersFit(x)'
    BY <1>1, <1>4, <1>6, <1>7, <2>1 DEF AnswersFit, Answers
  <2>3. QED
    BY <1>1, <1>2, <1>3, <1>4, <1>6, <2>1, <2>2, EndMoves
<1>10. QED
  BY <1>1, <1>8, <1>9

LEMMA GuardNext ==
  ASSUME GuardInv, [TurnGuardNext]_guardVars
  PROVE  GuardInv'
<1>1. CASE UNCHANGED guardVars
  BY <1>1
  DEF guardVars, GuardInv, TurnGuardTypeOK, TurnIsGuarded, TurnFits, TurnHasItsTime, FinishFits,
      AnswersFit, Answers, Enabled
<1>2. CASE TurnGuardNext
  <2>1. ASSUME NEW k \in Kind, ArmTurnGuard(k) PROVE GuardInv'
    BY <2>1, ArmKeeps
  <2>2. CASE Note
    BY <2>2, NoteKeeps
  <2>3. CASE GuardedTurnEnds
    BY <2>3, EndKeeps
  <2>4. CASE TurnFails
    <3>1. stops' \in 0 .. MaxStops /\ stops' >= stops
      BY <2>4, TurnGuardAssumption DEF TurnFails, GuardInv, TurnGuardTypeOK
    <3>2. QED
      BY <2>4, <3>1, FailedTurnKeeps DEF TurnFails
  <2>5. CASE StopTurn
    BY <2>5, StopKeeps
  <2>6. ASSUME NEW t \in Turn, FlushBar(t) \/ FlushReturns(t) \/ FinishFlushed(t) \/ FinishCalled(t)
        PROVE  GuardInv'
    BY <2>6, FlushKeeps, ReturnKeeps, FlushedKeeps, CalledKeeps
  <2>7. QED
    BY <1>2, <2>1, <2>2, <2>3, <2>4, <2>5, <2>6 DEF TurnGuardNext
<1>3. QED
  BY <1>1, <1>2

\* The guard, the progress message and the state of finish() of each turn fit each
\* other, whatever the order in which calls, frames, ends and stops come.
THEOREM GuardInvariantHolds == TurnGuardSpec => []GuardInv
<1>1. TurnGuardInit => GuardInv
  BY GuardStart
<1>2. GuardInv /\ [TurnGuardNext]_guardVars => GuardInv'
  BY GuardNext
<1>3. QED
  BY <1>1, <1>2, PTL DEF TurnGuardSpec

\* A channel gets the answer an agent wrote but did not send, once, and keeps no progress
\* message of a turn that is over: finish() and the turn.end handler of progress-turn.ts
\* and agent-runtime.ts, for any number of turns and calls.
THEOREM ChannelsStayInOrder == TurnGuardSpec => []ChannelIsLeftInOrder
<1>1. ASSUME GuardInv PROVE ChannelIsLeftInOrder
  <2>1. ASSUME NEW t \in Turn
        PROVE  /\ Answers(t) <= (IF t \in owed THEN 1 ELSE 0)
               /\ failures = 0 /\ t \in owed /\ finish[t].step = "done" => Answers(t) = 1
    BY <1>1 DEF GuardInv, TurnFits, AnswersFit, Answers
  <2>2. owed \subseteq Turn
    BY <1>1 DEF GuardInv, TurnGuardTypeOK
  <2>3. AnsweredOnce
    BY <2>1, <2>2 DEF AnsweredOnce
  <2>4. ASSUME failures = 0, stops = 0, NEW t \in Turn, Over(t)
        PROVE  finish[t].step # "no" /\ (Settled(t) => bar[t].msg # "shown")
    <3>1. turn \in {0, turns} /\ (turn = 0 => guard = 0) /\ (turn # 0 => guard = turn)
      BY <1>1, <2>4 DEF GuardInv, TurnIsGuarded
    <3>2. t # guard /\ t <= turns /\ TurnFits(t) /\ t \in Nat /\ t # 0
      BY <1>1, <2>4, <3>1, TurnGuardAssumption DEF Over, Turn, GuardInv
    <3>3. finish[t].step # "no"
      BY <2>4, <3>2 DEF TurnFits, TurnHasItsTime, FinishFits
    <3>4. QED
      BY <2>4, <3>2, <3>3 DEF TurnFits, AnswersFit, Settled
  <2>5. QED
    BY <2>3, <2>4 DEF ChannelIsLeftInOrder, BarIsCleared
<1>2. QED
  BY <1>1, GuardInvariantHolds, PTL

-----------------------------------------------------------------------------
(* The ledger                                                                *)

\* the provider's total is what the baseline says, or that of a process the driver does
\* not know to be new
BaselineFits ==
  /\ process.total \in {0, process.base}
  /\ ~hidden => process.total = process.base

\* rows that were taken from the ledger at some time
RowsFit(rows) ==
  /\ DOMAIN rows \subseteq CostKey
  /\ \A k \in DOMAIN rows : rows[k] \in Nat /\ rows[k] <= ledger[k]

\* an answered report is in the server's table
ReportFits ==
  report.sent =>
    /\ report = [sent |-> TRUE, rows |-> report.rows, answer |-> report.answer]
    /\ RowsFit(report.rows)
    /\ report.answer = "ok" => \A k \in DOMAIN report.rows : report.rows[k] <= reported[k]

CostInv ==
  /\ CostTypeOK /\ BaselineFits /\ LedgerIsTheSpend /\ ReportIsTheLedger
  /\ ReportFits /\ \A rows \in onTheWay : RowsFit(rows)

\* The larger of two, as CHOOSE gives it.
LEMMA MaxOfTwo ==
  ASSUME NEW a \in Nat, NEW b \in Nat
  PROVE  Max({a, b}) \in {a, b} /\ Max({a, b}) >= a /\ Max({a, b}) >= b
<1>1. \E x \in {a, b} : \A y \in {a, b} : x >= y
  <2>1. CASE a >= b
    BY <2>1
  <2>2. CASE b >= a
    BY <2>2
  <2>3. QED
    BY <2>1, <2>2
<1>2. QED
  BY <1>1 DEF Max

\* Nothing is spent before the first turn.
LEMMA CostStart == CostInit => CostInv
<1> SUFFICES ASSUME CostInit PROVE CostInv
  OBVIOUS
<1>1. Zero \in Totals /\ \A k \in CostKey : Zero[k] = 0
  BY DEF Zero, Totals
<1>2. CostTypeOK
  <2>1. process \in [total : Nat, base : Nat] /\ day \in 0 .. Days /\ report.sent \in BOOLEAN
    BY CostAssumption DEF CostInit, NoReport
  <2>2. QED
    BY <1>1, <2>1 DEF CostInit, CostTypeOK
<1>3. BaselineFits /\ ReportFits /\ \A rows \in onTheWay : RowsFit(rows)
  BY DEF CostInit, BaselineFits, ReportFits, NoReport
<1>4. LedgerIsTheSpend /\ ReportIsTheLedger
  BY <1>1 DEF CostInit, LedgerIsTheSpend, ReportIsTheLedger
<1>5. QED
  BY <1>2, <1>3, <1>4 DEF CostInv

\* A step that leaves the ledger and the server's table alone disturbs nothing that
\* was said about them.
LEMMA TablesRest ==
  ASSUME CostInv, UNCHANGED <<ledger, reported, spent>>, hidden' \in BOOLEAN, hidden => hidden',
         process' \in [total : Nat, base : Nat], BaselineFits',
         turnIn' \in CostChannel \cup {NoChannel}, day' \in 0 .. Days,
         dirty' \subseteq CostKey, unsent' \subseteq CostKey,
         \A k \in dirty \cup unsent :
           k \in dirty' \cup unsent' \/ ledger[k] <= reported[k],
         report' = report \/ report' = NoReport, onTheWay' \subseteq onTheWay
  PROVE  CostInv'
<1>1. CostTypeOK'
  <2>1. report'.sent \in BOOLEAN
    <3>1. CASE report' = report
      BY <3>1 DEF CostInv, CostTypeOK
    <3>2. CASE report' = NoReport
      BY <3>2 DEF NoReport
    <3>3. QED
      BY <3>1, <3>2
  <2>2. QED
    BY <2>1 DEF CostInv, CostTypeOK
<1>2. LedgerIsTheSpend'
  BY DEF CostInv, LedgerIsTheSpend
<1>3. ReportIsTheLedger'
  <2>1. ASSUME NEW k \in CostKey
        PROVE  reported[k] <= ledger[k] /\ (reported[k] < ledger[k] => k \in dirty' \cup unsent')
    BY DEF CostInv, CostTypeOK, Totals, ReportIsTheLedger
  <2>2. QED
    BY <2>1 DEF ReportIsTheLedger
<1>4. ReportFits'
  BY DEF CostInv, ReportFits, RowsFit, NoReport
<1>5. \A rows \in onTheWay' : RowsFit(rows)'
  BY DEF CostInv, RowsFit
<1>6. QED
  BY <1>1, <1>2, <1>3, <1>4, <1>5 DEF CostInv

\* What is added to the ledger is the price of the turn, or less if the process was
\* replaced unseen.
LEMMA DeltaIsThePrice ==
  ASSUME process \in [total : Nat, base : Nat], BaselineFits, NEW price \in Nat
  PROVE  /\ Delta(process.total + price) \in Nat
         /\ Delta(process.total + price) <= price
         /\ ~hidden => Delta(process.total + price) = price
BY DEF BaselineFits, Delta

LEMMA EndTurnKeeps ==
  ASSUME CostInv, NEW price \in Prices, NEW written \in BOOLEAN, EndTurn(price, written)
  PROVE  CostInv'
<1> DEFINE total == process.total + price
           key == <<turnIn, day>>
           delta == Delta(total)
<1>1. /\ turnIn # NoChannel /\ turnIn' = NoChannel
      /\ process' = [total |-> total, base |-> total]
      /\ ledger' = IF written THEN [ledger EXCEPT ![key] = @ + delta] ELSE ledger
      /\ dirty' = dirty \cup {key}
      /\ spent' = [spent EXCEPT ![key] = @ + price]
      /\ hidden' = (hidden \/ ~written)
      /\ UNCHANGED <<day, report, onTheWay, reported, unsent>>
  BY DEF EndTurn
<1>2. /\ price \in Nat /\ process \in [total : Nat, base : Nat] /\ total \in Nat
      /\ key \in CostKey /\ ledger \in [CostKey -> Nat] /\ spent \in [CostKey -> Nat]
      /\ reported \in [CostKey -> Nat] /\ dirty \subseteq CostKey
      /\ hidden \in BOOLEAN
  BY <1>1, CostAssumption DEF CostInv, CostTypeOK, CostKey, Totals
<1>3. delta \in Nat /\ delta <= price /\ (~hidden => delta = price)
  BY <1>2, DeltaIsThePrice DEF CostInv
<1>4. process' \in [total : Nat, base : Nat] /\ process'.total = process'.base
  BY <1>1, <1>2
<1> HIDE DEF total, key, delta
<1>5. /\ ledger' \in [CostKey -> Nat] /\ spent' \in [CostKey -> Nat]
      /\ \A k \in CostKey : k # key => ledger'[k] = ledger[k] /\ spent'[k] = spent[k]
      /\ spent'[key] = spent[key] + price
      /\ ledger'[key] = IF written THEN ledger[key] + delta ELSE ledger[key]
  BY <1>1, <1>2, <1>3
<1>6. \A k \in CostKey : ledger[k] <= ledger'[k]
  BY <1>2, <1>3, <1>5
<1>7. CostTypeOK'
  BY <1>1, <1>2, <1>4, <1>5, CostAssumption DEF CostInv, CostTypeOK, Totals
<1>8. BaselineFits'
  BY <1>4 DEF BaselineFits
<1>9. LedgerIsTheSpend'
  <2>1. ASSUME NEW k \in CostKey
        PROVE  ledger'[k] <= spent'[k] /\ (hidden' \/ ledger'[k] = spent'[k])
    <3>1. ledger[k] <= spent[k] /\ (hidden \/ ledger[k] = spent[k]) /\ ledger[k] \in Nat /\ spent[k] \in Nat
      BY <1>2 DEF CostInv, LedgerIsTheSpend
    <3>2. CASE k # key
      BY <1>1, <1>5, <3>1, <3>2
    <3>3. CASE k = key
      <4>1. ledger'[key] <= spent'[key]
        BY <1>2, <1>3, <1>5, <3>1, <3>3
      <4>2. ~hidden' => ~hidden /\ written
        BY <1>1
      <4>3. ~hidden /\ written => ledger'[key] = spent'[key]
        BY <1>2, <1>3, <1>5, <3>1, <3>3
      <4>4. QED
        BY <3>3, <4>1, <4>2, <4>3
    <3>4. QED
      BY <3>2, <3>3
  <2>2. QED
    BY <2>1 DEF LedgerIsTheSpend
<1>10. ReportIsTheLedger'
  <2>1. ASSUME NEW k \in CostKey
        PROVE  reported[k] <= ledger'[k] /\ (reported[k] < ledger'[k] => k \in dirty' \cup unsent)
    BY <1>1, <1>2, <1>5, <1>6 DEF CostInv, ReportIsTheLedger
  <2>2. QED
    BY <1>1, <2>1 DEF ReportIsTheLedger
<1>11. ASSUME NEW rows, RowsFit(rows) PROVE RowsFit(rows)'
  <2>1. ASSUME NEW k \in DOMAIN rows PROVE rows[k] \in Nat /\ rows[k] <= ledger'[k]
    <3>1. rows[k] \in Nat /\ rows[k] <= ledger[k] /\ k \in CostKey
      BY <1>11 DEF RowsFit
    <3>2. QED
      BY <1>2, <1>5, <1>6, <3>1
  <2>2. QED
    BY <1>11, <2>1 DEF RowsFit
<1>12. ReportFits' /\ \A rows \in onTheWay' : RowsFit(rows)'
  BY <1>1, <1>11 DEF CostInv, ReportFits
<1>13. QED
  BY <1>7, <1>8, <1>9, <1>10, <1>12 DEF CostInv

\* A report is a copy of what the ledger holds.
LEMMA FlushCostsKeeps ==
  ASSUME CostInv, Flush
  PROVE  CostInv'
<1> DEFINE keys == {k \in dirty : ledger[k] > 0}
           rows == [k \in keys |-> ledger[k]]
<1>1. /\ ~report.sent
      /\ IF keys = {}
         THEN dirty' = {} /\ UNCHANGED <<report, onTheWay>>
         ELSE /\ report' = [sent |-> TRUE, rows |-> rows, answer |-> "none"]
              /\ onTheWay' = onTheWay \cup {rows}
              /\ UNCHANGED dirty
      /\ UNCHANGED <<process, turnIn, day, ledger, reported, spent, hidden, unsent>>
  BY DEF Flush
<1>2. ledger \in [CostKey -> Nat] /\ reported \in [CostKey -> Nat] /\ dirty \subseteq CostKey
  BY DEF CostInv, CostTypeOK, Totals
<1>3. CASE keys = {}
  <2>1. dirty' = {} /\ UNCHANGED <<report, onTheWay>>
    BY <1>1, <1>3
  <2>2. \A k \in dirty : ledger[k] <= reported[k]
    BY <1>2, <1>3
  <2>3. BaselineFits'
    BY <1>1 DEF CostInv, BaselineFits
  <2> HIDE DEF keys, rows
  <2>4. QED
    BY <1>1, <2>1, <2>2, <2>3, TablesRest DEF CostInv, CostTypeOK
<1>4. CASE keys # {}
  <2>1. /\ report' = [sent |-> TRUE, rows |-> rows, answer |-> "none"]
        /\ onTheWay' = onTheWay \cup {rows} /\ dirty' = dirty
    BY <1>1, <1>4
  <2>2. RowsFit(rows)
    BY <1>2 DEF RowsFit
  <2> HIDE DEF keys, rows
  <2>3. DOMAIN rows \subseteq CostKey
    BY <2>2 DEF RowsFit
  <2>4. report'.sent = TRUE /\ report'.rows = rows /\ report'.answer = "none"
    BY <2>1
  <2>5. CostTypeOK'
    BY <1>1, <2>1, <2>3, <2>4 DEF CostInv, CostTypeOK
  <2>6. BaselineFits' /\ LedgerIsTheSpend' /\ ReportIsTheLedger'
    BY <1>1, <2>1 DEF CostInv, BaselineFits, LedgerIsTheSpend, ReportIsTheLedger
  <2>7. ReportFits'
    <3>1. RowsFit(report.rows)'
      BY <1>1, <2>2, <2>4 DEF RowsFit
    <3>2. report' = [sent |-> TRUE, rows |-> report'.rows, answer |-> report'.answer]
      BY <2>1, <2>4
    <3>3. QED
      BY <2>4, <3>1, <3>2 DEF ReportFits
  <2>8. \A r \in onTheWay' : RowsFit(r)'
    BY <1>1, <2>1, <2>2 DEF CostInv, RowsFit
  <2>9. QED
    BY <2>5, <2>6, <2>7, <2>8 DEF CostInv
<1>5. QED
  BY <1>3, <1>4

LEMMA AnswerMoves ==
  ASSUME NEW r, NEW a, NEW b, NEW p, NEW q,
         p = [sent |-> TRUE, rows |-> r, answer |-> a], q = [p EXCEPT !.answer = b]
  PROVE  q = [sent |-> TRUE, rows |-> r, answer |-> b]
<1>1. p \in [sent : {TRUE}, rows : {r}, answer : {a}]
  OBVIOUS
<1>2. q \in [sent : {TRUE}, rows : {r}, answer : {a, b}] /\ q.answer = b
  BY <1>1
<1>3. QED
  BY <1>2

\* The server's table grows to what it is told and no further.
LEMMA SyncKeeps ==
  ASSUME CostInv, NEW rows \in onTheWay, ServerSyncs(rows)
  PROVE  CostInv'
<1> DEFINE accepted == Cardinality(DOMAIN rows) <= MaxRows
           mine == report.sent /\ report.rows = rows
<1>1. /\ onTheWay' = onTheWay \ {rows}
      /\ reported' = IF accepted THEN Raised(rows) ELSE reported
      /\ report' = IF mine THEN [report EXCEPT !.answer = IF accepted THEN "ok" ELSE "refused"]
                   ELSE report
      /\ UNCHANGED <<process, turnIn, day, ledger, dirty, spent, hidden, unsent>>
  BY DEF ServerSyncs
<1>2. ledger \in [CostKey -> Nat] /\ reported \in [CostKey -> Nat] /\ RowsFit(rows)
  BY DEF CostInv, CostTypeOK, Totals
<1> HIDE DEF accepted
<1>3. ASSUME NEW k \in CostKey
      PROVE  /\ Raised(rows)[k] \in Nat /\ reported[k] <= Raised(rows)[k]
             /\ Raised(rows)[k] <= ledger[k]
             /\ k \in DOMAIN rows => rows[k] <= Raised(rows)[k]
  <2>1. Raised(rows)[k] = IF k \in DOMAIN rows THEN Max({rows[k], reported[k]}) ELSE reported[k]
    BY DEF Raised
  <2>2. reported[k] \in Nat /\ ledger[k] \in Nat /\ reported[k] <= ledger[k]
    BY <1>2 DEF CostInv, ReportIsTheLedger
  <2>3. CASE k \in DOMAIN rows
    <3>1. rows[k] \in Nat /\ rows[k] <= ledger[k]
      BY <1>2, <2>3 DEF RowsFit
    <3>2. /\ Max({rows[k], reported[k]}) \in {rows[k], reported[k]}
          /\ Max({rows[k], reported[k]}) >= rows[k] /\ Max({rows[k], reported[k]}) >= reported[k]
      BY <2>2, <3>1, MaxOfTwo
    <3>3. QED
      BY <2>1, <2>2, <2>3, <3>1, <3>2
  <2>4. CASE k \notin DOMAIN rows
    BY <2>1, <2>2, <2>4
  <2>5. QED
    BY <2>3, <2>4
<1>4. Raised(rows) \in [CostKey -> Nat]
  BY <1>3 DEF Raised
<1>5. /\ reported' \in [CostKey -> Nat]
      /\ \A k \in CostKey : reported[k] <= reported'[k] /\ reported'[k] <= ledger[k]
      /\ accepted => \A k \in DOMAIN rows : rows[k] <= reported'[k]
  <2>1. CASE accepted
    <3>1. reported' = Raised(rows) /\ DOMAIN rows \subseteq CostKey
      BY <1>1, <1>2, <2>1 DEF RowsFit
    <3>2. QED
      BY <1>3, <1>4, <3>1
  <2>2. CASE ~accepted
    BY <1>1, <1>2, <2>2 DEF CostInv, ReportIsTheLedger
  <2>3. QED
    BY <2>1, <2>2
<1>6. ReportFits' /\ report'.sent = report.sent
  <2>1. CASE ~mine
    <3>1. report' = report
      BY <1>1, <2>1
    <3>2. ASSUME report.sent, report.answer = "ok", NEW k \in DOMAIN report.rows
          PROVE  report.rows[k] <= reported'[k]
      <4>1. k \in CostKey /\ report.rows[k] \in Nat /\ report.rows[k] <= reported[k]
        BY <3>2 DEF CostInv, ReportFits, RowsFit
      <4>2. QED
        BY <1>2, <1>5, <4>1
    <3>3. QED
      BY <1>1, <3>1, <3>2 DEF CostInv, ReportFits, RowsFit
  <2>2. CASE mine
    <3> DEFINE answer == IF accepted THEN "ok" ELSE "refused"
    <3>1. PICK before : report = [sent |-> TRUE, rows |-> rows, answer |-> before]
      <4>1. report = [sent |-> TRUE, rows |-> rows, answer |-> report.answer]
        BY <2>2 DEF CostInv, ReportFits
      <4>2. QED
        BY <4>1, Zenon
    <3>2. report' = [report EXCEPT !.answer = answer]
      BY <1>1, <2>2
    <3>3. answer = "ok" => accepted
      OBVIOUS
    <3> HIDE DEF answer
    <3>4. report' = [sent |-> TRUE, rows |-> rows, answer |-> answer]
      BY <3>1, <3>2, AnswerMoves
    <3>5. report'.sent = TRUE /\ report'.rows = rows /\ report'.answer = answer
      BY <3>4
    <3>6. RowsFit(report.rows)'
      BY <1>1, <1>2, <3>5 DEF RowsFit
    <3>7. QED
      BY <1>5, <2>2, <3>3, <3>4, <3>5, <3>6 DEF ReportFits
  <2>3. QED
    BY <2>1, <2>2
<1>7. CostTypeOK'
  BY <1>1, <1>5, <1>6 DEF CostInv, CostTypeOK, Totals
<1>8. BaselineFits' /\ LedgerIsTheSpend'
  BY <1>1 DEF CostInv, BaselineFits, LedgerIsTheSpend
<1>9. ReportIsTheLedger'
  <2>1. ASSUME NEW k \in CostKey
        PROVE  reported'[k] <= ledger[k] /\ (reported'[k] < ledger[k] => k \in dirty \cup unsent)
    BY <1>2, <1>5 DEF CostInv, ReportIsTheLedger
  <2>2. QED
    BY <1>1, <2>1 DEF ReportIsTheLedger
<1>10. \A r \in onTheWay' : RowsFit(r)'
  BY <1>1 DEF CostInv, RowsFit
<1>11. QED
  BY <1>6, <1>7, <1>8, <1>9, <1>10 DEF CostInv

\* What stays in the ledger beyond a report that was answered stays to be reported.
LEMMA FlushDoneKeeps ==
  ASSUME CostInv, FlushDone
  PROVE  CostInv'
<1>1. /\ report.sent /\ report.answer = "ok" /\ dirty' = dirty \ CleanNow /\ report' = NoReport
      /\ UNCHANGED <<process, turnIn, day, ledger, onTheWay, reported, spent, hidden, unsent>>
  BY DEF FlushDone
<1>2. ASSUME NEW k \in CleanNow PROVE ledger[k] <= reported[k]
  <2>1. /\ k \in CostKey /\ report.rows[k] \in Nat /\ ledger[k] <= report.rows[k]
        /\ report.rows[k] <= reported[k]
    BY <1>1, <1>2 DEF CleanNow, CostInv, ReportFits, RowsFit
  <2>2. QED
    BY <2>1 DEF CostInv, CostTypeOK, Totals
<1>3. \A k \in dirty \cup unsent : k \in dirty' \cup unsent' \/ ledger[k] <= reported[k]
  BY <1>1, <1>2
<1>4. BaselineFits'
  BY <1>1 DEF CostInv, BaselineFits
<1>5. QED
  BY <1>1, <1>3, <1>4, TablesRest DEF CostInv, CostTypeOK

LEMMA CostNextKeeps ==
  ASSUME CostInv, [CostNext]_costVars
  PROVE  CostInv'
<1> USE DEF CostInv
<1>1. CASE UNCHANGED costVars
  <2>1. BaselineFits'
    BY <1>1 DEF costVars, BaselineFits
  <2>2. QED
    BY <1>1, <2>1, TablesRest DEF costVars, CostTypeOK
<1>2. ASSUME NEW c \in CostChannel, BeginTurn(c) PROVE CostInv'
  <2>1. BaselineFits'
    BY <1>2 DEF BeginTurn, BaselineFits
  <2>2. QED
    BY <1>2, <2>1, TablesRest DEF BeginTurn, CostTypeOK
<1>3. CASE EndSession
  <2>1. BaselineFits' /\ process' \in [total : Nat, base : Nat]
    BY <1>3 DEF EndSession, NewProcess, BaselineFits
  <2>2. QED
    BY <1>3, <2>1, TablesRest DEF EndSession, CostTypeOK
<1>4. CASE ReplaceProcess
  <2>1. BaselineFits' /\ process' \in [total : Nat, base : Nat] /\ hidden' = TRUE
    BY <1>4 DEF ReplaceProcess, BaselineFits, CostTypeOK
  <2>2. QED
    BY <1>4, <2>1, TablesRest DEF ReplaceProcess, CostTypeOK
<1>5. CASE NextDay
  <2>1. BaselineFits' /\ day' \in 0 .. Days
    BY <1>5, CostAssumption DEF NextDay, BaselineFits, CostTypeOK
  <2>2. QED
    BY <1>5, <2>1, TablesRest DEF NextDay, CostTypeOK
<1>6. CASE FlushFails
  <2>1. BaselineFits'
    BY <1>6 DEF FlushFails, BaselineFits
  <2>2. QED
    BY <1>6, <2>1, TablesRest DEF FlushFails, CostTypeOK
<1>7. CASE CrashWithCosts
  <2>1. BaselineFits' /\ process' \in [total : Nat, base : Nat]
    BY <1>7 DEF CrashWithCosts, BaselineFits
  <2>2. \A k \in dirty \cup unsent : k \in dirty' \cup unsent'
    BY <1>7 DEF CrashWithCosts
  <2>3. QED
    BY <1>7, <2>1, <2>2, TablesRest DEF CrashWithCosts, CostTypeOK
<1>8. QED
  BY <1>1, <1>2, <1>3, <1>4, <1>5, <1>6, <1>7, EndTurnKeeps, FlushCostsKeeps, SyncKeeps,
     FlushDoneKeeps DEF CostNext

\* The baseline, the ledger, the reports on their way and the server's table fit each
\* other through turns, lost and repeated reports and crashes.
THEOREM CostInvariantHolds == CostSpec => []CostInv
<1>1. CostInit => CostInv
  BY CostStart
<1>2. CostInv /\ [CostNext]_costVars => CostInv'
  BY CostNextKeeps
<1>3. QED
  BY <1>1, <1>2, PTL DEF CostSpec

\* The ledger says what the turns have cost, and the server's copy of it is never ahead
\* and never behind unnoticed (cost-tracker.ts and cost-reporter.ts).
THEOREM TheLedgerIsKept == CostSpec => []LedgerIsKept
<1>1. CostInv => LedgerIsKept
  BY DEF CostInv, LedgerIsKept
<1>2. QED
  BY <1>1, CostInvariantHolds, PTL
-----------------------------------------------------------------------------
(* Sums over a finite set                                                     *)

\* Numbers have a least one.
LEMMA LeastNumber ==
  ASSUME NEW T \in SUBSET Nat, T # {} PROVE \E m \in T : \A k \in T : m <= k
<1> DEFINE before == OpToRel(<, Nat)
<1>1. \A k, l \in Nat : <<k, l>> \in before <=> k < l
  BY DEF OpToRel
<1>2. IsWellFoundedOn(before, Nat)
  BY NatLessThanWellFounded
<1> HIDE DEF before
<1>3. PICK m \in T : \A k \in T : ~ (<<k, m>> \in before)
  BY <1>2, WFMin, Zenon
<1>4. ASSUME NEW k \in T PROVE m <= k
  <2>1. k \in Nat /\ m \in Nat
    OBVIOUS
  <2>2. ~ (k < m)
    BY <1>1, <1>3, <2>1, Zenon
  <2> QED
    BY <2>1, <2>2
<1> QED
  BY <1>4

\* the element that the fold of the community modules takes next
Picked(s) == CHOOSE x \in s : TRUE

\* the recursion that a sum over S is computed by
SumsUp(f, S, total) ==
  total = [s \in SUBSET S |-> IF s = {} THEN 0 ELSE f[Picked(s)] + total[s \ {Picked(s)}]]

\* The sum of the community modules is that recursion.
LEMMA SumIsChosen ==
  ASSUME NEW S, NEW f
  PROVE  SumFunctionOnSet(f, S) = (CHOOSE total : SumsUp(f, S, total))[S]
  BY DEF SumFunctionOnSet, FoldFunctionOnSet, MapThenFoldSet, SumsUp, Picked

\* One element less.
LEMMA OnePicked ==
  ASSUME NEW s, IsFiniteSet(s), s # {}
  PROVE  /\ Picked(s) \in s /\ IsFiniteSet(s \ {Picked(s)})
         /\ Cardinality(s) \in Nat /\ Cardinality(s) > 0
         /\ Cardinality(s \ {Picked(s)}) = Cardinality(s) - 1
<1>1. Picked(s) \in s
  BY DEF Picked
<1>2. Cardinality(s) \in Nat /\ Cardinality(s) # 0
  BY FS_CardinalityType, FS_EmptySet
<1> QED
  BY <1>1, <1>2, FS_RemoveElement

\* The recursion has a solution.
LEMMA SumsExist ==
  ASSUME NEW S, IsFiniteSet(S), NEW f, \A x \in S : f[x] \in Nat
  PROVE  \E total \in [SUBSET S -> Nat] : SumsUp(f, S, total)
<1> DEFINE Small(n) == {s \in SUBSET S : Cardinality(s) <= n}
           Good(n) == \E g \in [Small(n) -> Nat] :
                        \A s \in Small(n) :
                          g[s] = IF s = {} THEN 0 ELSE f[Picked(s)] + g[s \ {Picked(s)}]
           Bad == {n \in Nat : ~Good(n)}
<1>1. \A s \in SUBSET S : IsFiniteSet(s) /\ Cardinality(s) \in Nat /\ Cardinality(s) <= Cardinality(S)
  BY FS_Subset, FS_CardinalityType
<1>2. \A s \in SUBSET S : s # {} =>
        /\ Picked(s) \in S /\ s \ {Picked(s)} \in SUBSET S
        /\ f[Picked(s)] \in Nat /\ Cardinality(s \ {Picked(s)}) = Cardinality(s) - 1
        /\ Cardinality(s) > 0
  BY <1>1, OnePicked
<1>3. Bad = {}
  <2> SUFFICES ASSUME Bad # {} PROVE FALSE
    OBVIOUS
  <2>1. Bad \in SUBSET Nat
    OBVIOUS
  <2>2. PICK m \in Bad : \A k \in Bad : m <= k
    BY <2>1, LeastNumber
  <2>3. m \in Nat /\ ~Good(m)
    OBVIOUS
  <2>4. CASE m = 0
    <3>1. ASSUME NEW s \in Small(m) PROVE s = {}
      <4>1. s \in SUBSET S /\ Cardinality(s) <= 0
        BY <2>4
      <4>2. s # {} => Cardinality(s) > 0
        BY <1>2, <4>1
      <4>3. Cardinality(s) \in Nat
        BY <1>1, <4>1
      <4> QED
        BY <4>1, <4>2, <4>3
    <3> HIDE DEF Small
    <3>2. PICK g : g = [s \in Small(m) |-> 0]
      OBVIOUS
    <3>3. g \in [Small(m) -> Nat]
      BY <3>2
    <3>4. \A s \in Small(m) : g[s] = IF s = {} THEN 0 ELSE f[Picked(s)] + g[s \ {Picked(s)}]
      BY <3>1, <3>2
    <3>5. Good(m)
      BY <3>3, <3>4
    <3> QED
      BY <2>3, <3>5
  <2>5. CASE m # 0
    <3>1. m - 1 \in Nat /\ ~(m <= m - 1)
      BY <2>3, <2>5
    <3>2. Good(m - 1)
      BY <2>2, <3>1
    <3>3. PICK g \in [Small(m - 1) -> Nat] :
            \A s \in Small(m - 1) :
              g[s] = IF s = {} THEN 0 ELSE f[Picked(s)] + g[s \ {Picked(s)}]
      BY <3>2
    <3>4. PICK h : h = [s \in Small(m) |-> IF s = {} THEN 0
                                           ELSE f[Picked(s)] + g[s \ {Picked(s)}]]
      OBVIOUS
    <3>5. \A s \in Small(m) : s # {} => s \ {Picked(s)} \in Small(m - 1)
      BY <1>1, <1>2, <2>3
    <3>6. \A s \in Small(m - 1) : s \in Small(m) /\ h[s] = g[s]
      BY <1>1, <2>3, <3>3, <3>4
    <3> HIDE DEF Small
    <3>7. \A s \in Small(m) : s \in SUBSET S
      BY DEF Small
    <3>8. h \in [Small(m) -> Nat]
      <4>1. ASSUME NEW s \in Small(m), s # {}
            PROVE  f[Picked(s)] + g[s \ {Picked(s)}] \in Nat
        <5>1. f[Picked(s)] \in Nat
          BY <1>2, <3>7, <4>1
        <5>2. g[s \ {Picked(s)}] \in Nat
          BY <3>3, <3>5, <4>1
        <5> QED
          BY <5>1, <5>2
      <4>2. \A s \in Small(m) :
              (IF s = {} THEN 0 ELSE f[Picked(s)] + g[s \ {Picked(s)}]) \in Nat
        BY <4>1
      <4> QED
        BY <3>4, <4>2
    <3>9. \A s \in Small(m) :
            h[s] = IF s = {} THEN 0 ELSE f[Picked(s)] + h[s \ {Picked(s)}]
      BY <3>4, <3>5, <3>6
    <3> QED
      BY <2>3, <3>8, <3>9
  <2> QED
    BY <2>4, <2>5
<1>4. Cardinality(S) \in Nat
  BY FS_CardinalityType
<1>5. Good(Cardinality(S))
  BY <1>3, <1>4
<1>6. Small(Cardinality(S)) = SUBSET S
  BY <1>1
<1> HIDE DEF Small
<1>7. PICK g \in [SUBSET S -> Nat] :
        \A s \in SUBSET S : g[s] = IF s = {} THEN 0 ELSE f[Picked(s)] + g[s \ {Picked(s)}]
  BY <1>5, <1>6
<1>8. SumsUp(f, S, g)
  BY <1>7 DEF SumsUp
<1> QED
  BY <1>8

\* Sets of elements of S, one element at a time.
LEMMA OneByOne ==
  ASSUME NEW S, IsFiniteSet(S), NEW Good \in SUBSET (SUBSET S), {} \in Good,
         \A s \in SUBSET S : s # {} /\ (\A x \in s : s \ {x} \in Good) => s \in Good
  PROVE  SUBSET S \subseteq Good
<1>1. \A s \in SUBSET S : IsFiniteSet(s) /\ Cardinality(s) \in Nat
  BY FS_Subset, FS_CardinalityType
<1>2. PICK Sizes : Sizes = {Cardinality(s) : s \in (SUBSET S) \ Good}
  OBVIOUS
<1>3. Sizes \in SUBSET Nat
  BY <1>1, <1>2
<1> SUFFICES ASSUME NEW b \in SUBSET S, b \notin Good PROVE FALSE
  OBVIOUS
<1>4. Sizes # {}
  BY <1>2
<1>5. PICK m \in Sizes : \A k \in Sizes : m <= k
  BY <1>3, <1>4, LeastNumber
<1>6. PICK s \in (SUBSET S) \ Good : m = Cardinality(s)
  BY <1>2
<1>7. s # {}
  BY <1>6
<1>8. ASSUME NEW x \in s PROVE s \ {x} \in Good
  <2>1. IsFiniteSet(s) /\ Cardinality(s) \in Nat /\ IsFiniteSet(s \ {x})
    BY <1>1, <1>6
  <2>2. Cardinality(s \ {x}) = Cardinality(s) - 1
    BY <2>1, FS_RemoveElement
  <2>3. ~ (m <= Cardinality(s \ {x}))
    BY <1>6, <2>1, <2>2
  <2>4. Cardinality(s \ {x}) \notin Sizes
    BY <1>5, <2>3
  <2> QED
    BY <1>2, <1>6, <2>4
<1> QED
  BY <1>6, <1>7, <1>8

\* a total for every set of elements, whatever the order they were taken in
AddsUp(f, S, total) ==
  /\ total \in [SUBSET S -> Nat]
  /\ SumFunctionOnSet(f, S) = total[S] /\ total[{}] = 0
  /\ \A s \in SUBSET S : \A k \in S \ s : total[s \cup {k}] = f[k] + total[s]

\* What a sum is.
LEMMA SumIs ==
  ASSUME NEW S, IsFiniteSet(S), NEW f, \A x \in S : f[x] \in Nat
  PROVE  \E total : AddsUp(f, S, total)
<1>0. \A x \in S : f[x] \in Nat
  OBVIOUS
<1>1. PICK total : total = CHOOSE t : SumsUp(f, S, t)
  OBVIOUS
<1>2. \E t : SumsUp(f, S, t)
  BY SumsExist
<1>3. SumsUp(f, S, total)
  BY <1>1, <1>2
<1>4. \A s \in SUBSET S : total[s] = IF s = {} THEN 0 ELSE f[Picked(s)] + total[s \ {Picked(s)}]
  BY <1>3 DEF SumsUp
<1>5. total = [s \in SUBSET S |-> total[s]]
  BY <1>3 DEF SumsUp
<1>6. \A s \in SUBSET S : s # {} => Picked(s) \in s
  BY DEF Picked
<1>7. \A s \in SUBSET S : total[s] \in Nat
  <2>1. PICK Good : Good = {s \in SUBSET S : total[s] \in Nat}
    OBVIOUS
  <2>2. {} \in Good
    <3>1. {} \in SUBSET S
      OBVIOUS
    <3>2. total[{}] = 0
      BY <1>4, <3>1, Zenon
    <3> QED
      BY <2>1, <3>1, <3>2
  <2>3. ASSUME NEW s \in SUBSET S, s # {}, \A x \in s : s \ {x} \in Good PROVE s \in Good
    <3>1. PICK x : x = Picked(s)
      OBVIOUS
    <3>2. x \in s /\ total[s] = f[x] + total[s \ {x}]
      BY <1>4, <1>6, <2>3, <3>1
    <3>3. f[x] \in Nat
      BY <1>0, <3>2
    <3>4. total[s \ {x}] \in Nat
      BY <2>1, <2>3, <3>2
    <3>5. total[s] \in Nat
      BY <3>2, <3>3, <3>4
    <3> QED
      BY <2>1, <3>5
  <2>4. Good \in SUBSET (SUBSET S)
    BY <2>1
  <2>5. SUBSET S \subseteq Good
    BY <2>2, <2>3, <2>4, OneByOne
  <2> QED
    BY <2>1, <2>5
<1>8. \A s \in SUBSET S : \A k \in S \ s : total[s \cup {k}] = f[k] + total[s]
  <2>1. PICK Good : Good = {s \in SUBSET S : \A k \in s : total[s] = f[k] + total[s \ {k}]}
    OBVIOUS
  <2>2. {} \in Good
    BY <2>1
  <2>3. ASSUME NEW s \in SUBSET S, s # {}, \A x \in s : s \ {x} \in Good PROVE s \in Good
    <3>1. PICK x : x = Picked(s)
      OBVIOUS
    <3>2. x \in s /\ total[s] = f[x] + total[s \ {x}]
      BY <1>4, <1>6, <2>3, <3>1
    <3>3. ASSUME NEW k \in s, k # x PROVE total[s] = f[k] + total[s \ {k}]
      <4>1. PICK r : r = (s \ {x}) \ {k}
        OBVIOUS
      <4>2. r = (s \ {k}) \ {x}
        BY <4>1
      <4>3. total[s \ {x}] = f[k] + total[r]
        BY <2>1, <2>3, <3>2, <3>3, <4>1
      <4>4. total[s \ {k}] = f[x] + total[r]
        BY <2>1, <2>3, <3>2, <3>3, <4>2
      <4>5. f[x] \in Nat /\ f[k] \in Nat
        BY <1>0, <3>2
      <4>6. total[r] \in Nat
        BY <1>7, <4>1
      <4> QED
        BY <3>2, <4>3, <4>4, <4>5, <4>6
    <3>4. \A k \in s : total[s] = f[k] + total[s \ {k}]
      BY <3>2, <3>3
    <3> QED
      BY <2>1, <3>4
  <2>4. Good \in SUBSET (SUBSET S)
    BY <2>1
  <2>5. SUBSET S \subseteq Good
    BY <2>2, <2>3, <2>4, OneByOne
  <2>6. ASSUME NEW s \in SUBSET S, NEW k \in S \ s PROVE total[s \cup {k}] = f[k] + total[s]
    <3>1. s \cup {k} \in SUBSET S /\ k \in s \cup {k} /\ (s \cup {k}) \ {k} = s
      OBVIOUS
    <3>2. total[s \cup {k}] = f[k] + total[(s \cup {k}) \ {k}]
      BY <2>1, <2>5, <3>1
    <3> QED
      BY <3>1, <3>2
  <2> QED
    BY <2>6
<1>9. total \in [SUBSET S -> Nat] /\ total[{}] = 0
  BY <1>4, <1>5, <1>7
<1>10. SumFunctionOnSet(f, S) = total[S]
  BY <1>1, SumIsChosen
<1> QED
  BY <1>8, <1>9, <1>10 DEF AddsUp

\* One term more is that much more.
LEMMA SumWithOneMore ==
  ASSUME NEW S, IsFiniteSet(S), NEW f, NEW g, \A x \in S : f[x] \in Nat /\ g[x] \in Nat
  PROVE  /\ SumFunctionOnSet(f, S) \in Nat
         /\ (\A x \in S : g[x] = f[x]) => SumFunctionOnSet(g, S) = SumFunctionOnSet(f, S)
         /\ (\A x \in S : f[x] = 0) => SumFunctionOnSet(f, S) = 0
         /\ \A k \in S, d \in Nat :
              g[k] = f[k] + d /\ (\A x \in S \ {k} : g[x] = f[x])
                => SumFunctionOnSet(g, S) = SumFunctionOnSet(f, S) + d
<1>a. (\A x \in S : f[x] \in Nat) /\ (\A x \in S : g[x] \in Nat)
  OBVIOUS
<1>1. PICK F : AddsUp(f, S, F)
  <2>1. \A x \in S : f[x] \in Nat
    BY <1>a
  <2> QED
    BY <2>1, SumIs
<1>2. PICK G : AddsUp(g, S, G)
  <2>1. \A x \in S : g[x] \in Nat
    BY <1>a
  <2> QED
    BY <2>1, SumIs
<1>3. \A s \in SUBSET S : \A x \in s : F[s] = f[x] + F[s \ {x}] /\ G[s] = g[x] + G[s \ {x}]
  <2>1. ASSUME NEW s \in SUBSET S, NEW x \in s
        PROVE  F[s] = f[x] + F[s \ {x}] /\ G[s] = g[x] + G[s \ {x}]
    <3>1. s \ {x} \in SUBSET S /\ x \in S \ (s \ {x}) /\ (s \ {x}) \cup {x} = s
      OBVIOUS
    <3>2. F[(s \ {x}) \cup {x}] = f[x] + F[s \ {x}] /\ G[(s \ {x}) \cup {x}] = g[x] + G[s \ {x}]
      BY <1>1, <1>2, <3>1 DEF AddsUp
    <3> QED
      BY <3>1, <3>2
  <2> QED
    BY <2>1
<1>4. \A s \in SUBSET S : (\A x \in s : g[x] = f[x]) => G[s] = F[s]
  <2>1. PICK Good : Good = {s \in SUBSET S : (\A x \in s : g[x] = f[x]) => G[s] = F[s]}
    OBVIOUS
  <2>2. {} \in Good
    BY <1>1, <1>2, <2>1 DEF AddsUp
  <2>3. ASSUME NEW s \in SUBSET S, s # {}, \A x \in s : s \ {x} \in Good PROVE s \in Good
    <3>1. PICK x \in s : TRUE
      BY <2>3
    <3>2. ASSUME \A y \in s : g[y] = f[y] PROVE G[s] = F[s]
      <4>1. G[s \ {x}] = F[s \ {x}]
        BY <2>1, <2>3, <3>2
      <4>2. g[x] = f[x]
        BY <3>2
      <4>3. F[s] = f[x] + F[s \ {x}] /\ G[s] = g[x] + G[s \ {x}]
        BY <1>3
      <4> QED
        BY <4>1, <4>2, <4>3
    <3> QED
      BY <2>1, <3>2
  <2>4. Good \in SUBSET (SUBSET S)
    BY <2>1
  <2>5. SUBSET S \subseteq Good
    BY <2>2, <2>3, <2>4, OneByOne
  <2> QED
    BY <2>1, <2>5
<1>5. ASSUME \A x \in S : f[x] = 0 PROVE F[S] = 0
  <2>1. PICK Good : Good = {s \in SUBSET S : F[s] = 0}
    OBVIOUS
  <2>2. {} \in Good
    BY <1>1, <2>1 DEF AddsUp
  <2>3. ASSUME NEW s \in SUBSET S, s # {}, \A x \in s : s \ {x} \in Good PROVE s \in Good
    <3>1. PICK x \in s : TRUE
      BY <2>3
    <3>2. F[s \ {x}] = 0
      BY <2>1, <2>3
    <3>3. F[s] = f[x] + F[s \ {x}]
      BY <1>3
    <3>4. f[x] = 0
      BY <1>5
    <3> QED
      BY <2>1, <3>2, <3>3, <3>4
  <2>4. Good \in SUBSET (SUBSET S)
    BY <2>1
  <2>5. SUBSET S \subseteq Good
    BY <2>2, <2>3, <2>4, OneByOne
  <2> QED
    BY <2>1, <2>5
<1>6. ASSUME NEW k \in S, NEW d \in Nat, g[k] = f[k] + d, \A x \in S \ {k} : g[x] = f[x]
      PROVE  G[S] = F[S] + d
  <2>1. G[S \ {k}] = F[S \ {k}]
    BY <1>4, <1>6
  <2>2. F[S] = f[k] + F[S \ {k}] /\ G[S] = g[k] + G[S \ {k}]
    BY <1>3
  <2>3. F[S \ {k}] \in Nat
    BY <1>1 DEF AddsUp
  <2>4. f[k] \in Nat
    BY <1>a
  <2> QED
    BY <1>6, <2>1, <2>2, <2>3, <2>4
<1>7. F[S] \in Nat
  BY <1>1 DEF AddsUp
<1>8. (\A x \in S : g[x] = f[x]) => G[S] = F[S]
  BY <1>4
<1>9. (\A x \in S : f[x] = 0) => F[S] = 0
  BY <1>5
<1> QED
  <2>1. SumFunctionOnSet(f, S) = F[S] /\ SumFunctionOnSet(g, S) = G[S]
    BY <1>1, <1>2 DEF AddsUp
  <2> QED
    BY <1>6, <1>7, <1>8, <1>9, <2>1
-----------------------------------------------------------------------------
(* The budget.  The gate lets a turn in while the day's spending is below the *)
(* budget; one turn is all that can follow, and it adds its price at most.     *)

\* what a turn that was let in may rely on, and a day that has not come
BudgetKnown ==
  /\ turnIn # NoChannel => SpendOfDay(ledger, day) < Budget
  /\ \A k \in CostKey : k[2] > day => ledger[k] = 0

BudgetInv == BudgetKnown /\ BudgetHolds

\* The maximum that the budget may be passed by is a price.
LEMMA DearestPrice ==
  Max(Prices) \in Nat /\ \A price \in Prices : price <= Max(Prices)
<1>1. \E m \in Prices : \A price \in Prices : m >= price
  BY CostAssumption
<1>2. Max(Prices) \in Prices /\ \A price \in Prices : Max(Prices) >= price
  BY <1>1 DEF Max
<1> QED
  BY <1>2, CostAssumption

\* A day's spending is a sum over finitely many rows.
LEMMA RowsOfDay ==
  ASSUME NEW d
  PROVE  IsFiniteSet({k \in CostKey : k[2] = d}) /\ {k \in CostKey : k[2] = d} \subseteq CostKey
<1>1. IsFiniteSet(0 .. Days) /\ IsFiniteSet(CostChannel)
  BY CostAssumption, FS_Interval
<1>2. IsFiniteSet(CostChannel \X (0 .. Days))
  BY <1>1, FS_Product
<1>3. IsFiniteSet({k \in CostChannel \X (0 .. Days) : k[2] = d})
  BY <1>2, FS_Subset
<1> QED
  BY <1>3 DEF CostKey

\* What an entry that grows does to the sums.
LEMMA SpendGrows ==
  ASSUME NEW f \in [CostKey -> Nat], NEW g \in [CostKey -> Nat], NEW d
  PROVE  /\ SpendOfDay(f, d) \in Nat
         /\ (\A k \in CostKey : k[2] = d => g[k] = f[k]) => SpendOfDay(g, d) = SpendOfDay(f, d)
         /\ (\A k \in CostKey : k[2] = d => f[k] = 0) => SpendOfDay(f, d) = 0
         /\ \A key \in CostKey, more \in Nat :
              key[2] = d /\ g[key] = f[key] + more /\ (\A k \in CostKey \ {key} : g[k] = f[k])
                => SpendOfDay(g, d) = SpendOfDay(f, d) + more
<1>1. PICK S : S = {k \in CostKey : k[2] = d}
  OBVIOUS
<1>2. IsFiniteSet(S) /\ S \subseteq CostKey
  BY <1>1, RowsOfDay
<1>3. \A x \in S : f[x] \in Nat /\ g[x] \in Nat
  BY <1>2
<1>4. SpendOfDay(f, d) = SumFunctionOnSet(f, S) /\ SpendOfDay(g, d) = SumFunctionOnSet(g, S)
  BY <1>1 DEF SpendOfDay
<1>5. /\ SumFunctionOnSet(f, S) \in Nat
      /\ (\A x \in S : g[x] = f[x]) => SumFunctionOnSet(g, S) = SumFunctionOnSet(f, S)
      /\ (\A x \in S : f[x] = 0) => SumFunctionOnSet(f, S) = 0
      /\ \A k \in S, more \in Nat :
           g[k] = f[k] + more /\ (\A x \in S \ {k} : g[x] = f[x])
             => SumFunctionOnSet(g, S) = SumFunctionOnSet(f, S) + more
  BY <1>2, <1>3, SumWithOneMore
<1>6. SpendOfDay(f, d) \in Nat
  BY <1>4, <1>5
<1>7. ASSUME \A k \in CostKey : k[2] = d => g[k] = f[k] PROVE SpendOfDay(g, d) = SpendOfDay(f, d)
  <2>1. \A x \in S : g[x] = f[x]
    BY <1>1, <1>7
  <2> QED
    BY <1>4, <1>5, <2>1
<1>8. ASSUME \A k \in CostKey : k[2] = d => f[k] = 0 PROVE SpendOfDay(f, d) = 0
  <2>1. \A x \in S : f[x] = 0
    BY <1>1, <1>8
  <2> QED
    BY <1>4, <1>5, <2>1
<1>9. ASSUME NEW key \in CostKey, NEW more \in Nat, key[2] = d, g[key] = f[key] + more,
             \A k \in CostKey \ {key} : g[k] = f[k]
      PROVE  SpendOfDay(g, d) = SpendOfDay(f, d) + more
  <2>1. key \in S /\ \A x \in S \ {key} : g[x] = f[x]
    BY <1>1, <1>9
  <2> QED
    BY <1>4, <1>5, <1>9, <2>1
<1> QED
  BY <1>6, <1>7, <1>8, <1>9

LEMMA NothingSpent ==
  ASSUME NEW f \in [CostKey -> Nat], NEW d, \A k \in CostKey : k[2] = d => f[k] = 0
  PROVE  SpendOfDay(f, d) = 0
<1>1. (\A k \in CostKey : k[2] = d => f[k] = 0) => SpendOfDay(f, d) = 0
  BY SpendGrows
<1> QED
  BY <1>1

\* The gate is open before the first turn.
LEMMA BudgetStart == CostInit => BudgetInv
<1> SUFFICES ASSUME CostInit PROVE BudgetInv
  OBVIOUS
<1>1. /\ ledger \in [CostKey -> Nat] /\ \A k \in CostKey : ledger[k] = 0
      /\ turnIn = NoChannel
  BY DEF CostInit, Zero
<1>2. ASSUME NEW d \in 0 .. Days PROVE SpendOfDay(ledger, d) = 0
  <2>1. \A k \in CostKey : k[2] = d => ledger[k] = 0
    BY <1>1
  <2> QED
    BY <1>1, <2>1, NothingSpent
<1>3. Budget \in Nat /\ Budget > 0 /\ Max(Prices) \in Nat
  <2>1. Budget \in Nat /\ Budget > 0
    BY CostAssumption
  <2> QED
    BY <2>1, DearestPrice
<1>4. BudgetHolds
  BY <1>2, <1>3 DEF BudgetHolds
<1> QED
  BY <1>1, <1>4 DEF BudgetInv, BudgetKnown

\* The turn that ends is the one that was let in below the budget.
LEMMA EndTurnFits ==
  ASSUME CostTypeOK, BaselineFits, BudgetInv,
         NEW price \in Prices, NEW written \in BOOLEAN, EndTurn(price, written)
  PROVE  BudgetInv'
<1>1. PICK key, delta : key = <<turnIn, day>> /\ delta = Delta(process.total + price)
  OBVIOUS
<1>2. /\ turnIn # NoChannel /\ turnIn' = NoChannel /\ day' = day
      /\ ledger' = IF written THEN [ledger EXCEPT ![key] = @ + delta] ELSE ledger
  BY <1>1 DEF EndTurn
<1>3. /\ price \in Nat /\ process \in [total : Nat, base : Nat] /\ key \in CostKey /\ key[2] = day
      /\ ledger \in [CostKey -> Nat] /\ day \in 0 .. Days
  BY <1>1, <1>2, CostAssumption DEF CostTypeOK, CostKey, Totals
<1>4. delta \in Nat /\ delta <= price
  BY <1>1, <1>3, DeltaIsThePrice
<1>5. /\ Max(Prices) \in Nat /\ Budget \in Nat /\ delta <= Max(Prices)
  <2>1. Max(Prices) \in Nat /\ price <= Max(Prices) /\ Budget \in Nat
    BY DearestPrice, CostAssumption
  <2> QED
    BY <1>3, <1>4, <2>1
<1>6. PICK more \in Nat :
        /\ more <= Max(Prices) /\ ledger' \in [CostKey -> Nat]
        /\ ledger'[key] = ledger[key] + more /\ \A k \in CostKey \ {key} : ledger'[k] = ledger[k]
  <2>0. ledger[key] \in Nat
    BY <1>3
  <2>1. CASE written
    <3>1. ledger' = [ledger EXCEPT ![key] = ledger[key] + delta]
      BY <1>2, <2>1
    <3>2. ledger[key] + delta \in Nat
      BY <1>4, <2>0
    <3>3. ledger' \in [CostKey -> Nat]
      BY <1>3, <3>1, <3>2
    <3>4. ledger'[key] = ledger[key] + delta /\ \A k \in CostKey \ {key} : ledger'[k] = ledger[k]
      BY <1>3, <3>1
    <3> QED
      BY <1>4, <1>5, <3>3, <3>4
  <2>2. CASE ~written
    <3>1. ledger' = ledger
      BY <1>2, <2>2
    <3>2. 0 \in Nat /\ 0 <= Max(Prices) /\ ledger[key] = ledger[key] + 0
      BY <1>5, <2>0
    <3> QED
      BY <1>3, <3>1, <3>2
  <2> QED
    BY <2>1, <2>2
<1>7. \A d \in 0 .. Days : SpendOfDay(ledger', d) < Budget + Max(Prices)
  <2> SUFFICES ASSUME NEW d \in 0 .. Days PROVE SpendOfDay(ledger', d) < Budget + Max(Prices)
    OBVIOUS
  <2>1. SpendOfDay(ledger, d) \in Nat
    BY <1>3, SpendGrows
  <2>2. CASE d = day
    <3>1. SpendOfDay(ledger, d) < Budget
      BY <1>2, <2>2 DEF BudgetInv, BudgetKnown
    <3>2. SpendOfDay(ledger', d) = SpendOfDay(ledger, d) + more
      BY <1>3, <1>6, <2>2, SpendGrows
    <3> QED
      BY <1>5, <1>6, <2>1, <3>1, <3>2
  <2>3. CASE d # day
    <3>1. \A k \in CostKey : k[2] = d => ledger'[k] = ledger[k]
      BY <1>3, <1>6, <2>3
    <3>2. SpendOfDay(ledger', d) = SpendOfDay(ledger, d)
      BY <1>3, <1>6, <3>1, SpendGrows
    <3> QED
      BY <3>2 DEF BudgetInv, BudgetHolds
  <2> QED
    BY <2>2, <2>3
<1>8. \A k \in CostKey : k[2] > day => ledger'[k] = 0
  <2>1. ASSUME NEW k \in CostKey, k[2] > day PROVE ledger'[k] = 0
    <3>1. k # key
      BY <1>3, <2>1
    <3> QED
      BY <1>6, <2>1, <3>1 DEF BudgetInv, BudgetKnown
  <2> QED
    BY <2>1
<1> QED
  BY <1>2, <1>7, <1>8 DEF BudgetInv, BudgetKnown, BudgetHolds

\* No other step spends, and a new day begins with nothing spent.
LEMMA BudgetKeeps ==
  ASSUME CostTypeOK, BaselineFits, BudgetInv, [CostNext]_costVars
  PROVE  BudgetInv'
\* nothing is spent, and whoever runs has been let in
<1>1. ASSUME ledger' = ledger, day' = day,
             turnIn' # NoChannel => SpendOfDay(ledger, day) < Budget
      PROVE  BudgetInv'
  BY <1>1 DEF BudgetInv, BudgetKnown, BudgetHolds
<1>2. turnIn # NoChannel => SpendOfDay(ledger, day) < Budget
  BY DEF BudgetInv, BudgetKnown
<1>3. CASE UNCHANGED costVars
  <2>1. ledger' = ledger /\ day' = day /\ turnIn' = turnIn
    BY <1>3 DEF costVars
  <2> QED
    BY <1>1, <1>2, <2>1
<1>4. ASSUME NEW c \in CostChannel, BeginTurn(c) PROVE BudgetInv'
  <2>1. ledger' = ledger /\ day' = day /\ SpendOfDay(ledger, day) < Budget
    BY <1>4 DEF BeginTurn, BudgetLeft
  <2> QED
    BY <1>1, <2>1
<1>5. CASE NextDay
  <2>1. day \in 0 .. Days /\ day' = day + 1 /\ ledger' = ledger /\ ledger \in [CostKey -> Nat]
    BY <1>5 DEF NextDay, CostTypeOK, Totals
  <2>2. \A k \in CostKey : k[2] > day' => k[2] > day
    BY <2>1, CostAssumption DEF CostKey
  <2>3. \A k \in CostKey : k[2] = day' => k[2] > day
    BY <2>1, CostAssumption DEF CostKey
  <2>4. SpendOfDay(ledger, day') = 0
    <3>1. \A k \in CostKey : k[2] = day' => ledger[k] = 0
      BY <2>3 DEF BudgetInv, BudgetKnown
    <3> QED
      BY <2>1, <3>1, NothingSpent
  <2>5. 0 < Budget
    BY CostAssumption
  <2> QED
    BY <2>1, <2>2, <2>4, <2>5 DEF BudgetInv, BudgetKnown, BudgetHolds
<1>6. CASE EndSession \/ CrashWithCosts
  <2>1. ledger' = ledger /\ day' = day /\ turnIn' = NoChannel
    BY <1>6 DEF EndSession, CrashWithCosts
  <2> QED
    BY <1>1, <2>1
<1>7. CASE ReplaceProcess \/ Flush \/ FlushDone \/ FlushFails \/ \E rows \in onTheWay : ServerSyncs(rows)
  <2>1. ledger' = ledger /\ day' = day /\ turnIn' = turnIn
    BY <1>7 DEF ReplaceProcess, Flush, FlushDone, FlushFails, ServerSyncs
  <2> QED
    BY <1>1, <1>2, <2>1
<1> QED
  BY <1>3, <1>4, <1>5, <1>6, <1>7, EndTurnFits DEF CostNext

\* What is spent is known, reported and held within the budget: the ledger is right, the
\* server's copy of it is never ahead and never behind unnoticed, and on no day does the
\* spending pass the budget by more than one turn (cost-tracker.ts, cost-reporter.ts and
\* the cost gate of the dispatch).
THEOREM CostsKept == CostSpec => []CostsAreKept
<1>1. CostInit => BudgetInv
  BY BudgetStart
<1>2. CostInv /\ BudgetInv /\ [CostNext]_costVars => BudgetInv'
  BY BudgetKeeps DEF CostInv
<1>3. CostSpec => []BudgetInv
  BY <1>1, <1>2, CostInvariantHolds, PTL DEF CostSpec
<1>4. LedgerIsKept /\ BudgetInv => CostsAreKept
  BY DEF BudgetInv, CostsAreKept
<1> QED
  BY <1>3, <1>4, TheLedgerIsKept, PTL
-----------------------------------------------------------------------------
(* The breaker: the inductive invariant                                       *)

GuardEntry == [identity : Identity \cup {NoIdentity}, failures : Nat, openUntil : Nat,
               cooldown : Nat \ {0}]

\* CrashGuardTypeOK without the bounds.
BreakerShape ==
  breaker \in [entry : GuardEntry, config : Identity, session : Identity \cup {NoIdentity},
               turn : Identity \cup {NoIdentity}, late : Identity \cup {NoIdentity},
               clock : Nat \ {0}, spawns : Nat, crashes : Nat, waits : Nat, mixed : BOOLEAN]

\* A dispatch past the guard has a session, of its profile.
TurnHasSession == breaker.turn # NoIdentity => breaker.session = breaker.turn

\* The crashes of this configuration are among the failures that its entry counts.
CrashesAreCounted ==
  ~breaker.mixed => breaker.crashes <= EntryFor(breaker, breaker.config).failures

\* What can crash next - a session, or one that the guard would let start - has a crash
\* left before the bound.
RoomForTheNext ==
  ~breaker.mixed /\ (\/ breaker.session # NoIdentity
                     \/ ~Blocked(EntryFor(breaker, breaker.config), breaker.clock))
    => breaker.crashes + 1 <= Threshold + breaker.waits

CrashGuardInv ==
  BreakerShape /\ TurnHasSession /\ CrashesAreCounted /\ RoomForTheNext /\ RespawnsSlowDown

-----------------------------------------------------------------------------
(* Lemmas about the guard                                                     *)

LEMMA FreshIsAnEntry ==
  ASSUME NEW i \in Identity \cup {NoIdentity}
  PROVE  /\ Fresh(i) \in GuardEntry /\ Fresh(i).identity = i
         /\ Fresh(i).failures = 0 /\ Fresh(i).openUntil = 0
  BY CrashGuardAssumption DEF Fresh, GuardEntry

LEMMA EntryForIsAnEntry ==
  ASSUME BreakerShape, NEW i \in Identity
  PROVE  EntryFor(breaker, i) \in GuardEntry /\ EntryFor(breaker, i).identity = i
  BY FreshIsAnEntry DEF BreakerShape, EntryFor

\* recordFailure counts one; it opens the breaker at the threshold and never closes it.
LEMMA FailedCounts ==
  ASSUME NEW e \in GuardEntry, NEW now \in Nat \ {0}
  PROVE  /\ Failed(e, now) \in GuardEntry /\ Failed(e, now).identity = e.identity
         /\ Failed(e, now).failures = e.failures + 1
         /\ Blocked(e, now) => Blocked(Failed(e, now), now)
         /\ e.failures + 1 >= Threshold => Blocked(Failed(e, now), now)
<1>1. Smaller(2 * e.cooldown, MaxCooldown) \in Nat \ {0}
  BY CrashGuardAssumption DEF Smaller, GuardEntry
<1>2. CASE e.failures + 1 >= Threshold /\ e.openUntil <= now
  <2>1. Failed(e, now) = [e EXCEPT !.failures = @ + 1, !.openUntil = now + e.cooldown,
                                   !.cooldown = Smaller(2 * @, MaxCooldown)]
    BY <1>2 DEF Failed
  <2>2. e.failures \in Nat /\ e.cooldown \in Nat \ {0}
    BY DEF GuardEntry
  <2>3. now + e.cooldown \in Nat /\ now + e.cooldown > now /\ now + e.cooldown > 0
    BY <2>2
  <2>4. /\ Failed(e, now) \in GuardEntry /\ Failed(e, now).identity = e.identity
        /\ Failed(e, now).failures = e.failures + 1
        /\ Failed(e, now).openUntil = now + e.cooldown
    <3> DEFINE k == e.failures + 1
               u == now + e.cooldown
               c == Smaller(2 * e.cooldown, MaxCooldown)
    <3>1. k \in Nat /\ u \in Nat /\ c \in Nat \ {0}
      BY <1>1, <2>2, <2>3
    <3>2. Failed(e, now) = [e EXCEPT !.failures = k, !.openUntil = u, !.cooldown = c]
      BY <2>1
    <3> HIDE DEF k, u, c
    <3>3. Failed(e, now) \in GuardEntry /\ Failed(e, now).identity = e.identity
            /\ Failed(e, now).failures = k /\ Failed(e, now).openUntil = u
      BY <3>1, <3>2 DEF GuardEntry
    <3> QED BY <3>3 DEF k, u
  <2> QED BY <2>3, <2>4 DEF Blocked
<1>3. CASE ~(e.failures + 1 >= Threshold /\ e.openUntil <= now)
  <2>1. Failed(e, now) = [e EXCEPT !.failures = @ + 1]
    BY <1>3 DEF Failed
  <2>2. e.failures \in Nat /\ e.openUntil \in Nat /\ Threshold \in Nat
    BY CrashGuardAssumption DEF GuardEntry
  <2>3. e.failures + 1 >= Threshold => Blocked(e, now)
    BY <1>3, <2>2 DEF Blocked
  <2>4. /\ Failed(e, now) \in GuardEntry /\ Failed(e, now).identity = e.identity
        /\ Failed(e, now).failures = e.failures + 1
        /\ Failed(e, now).openUntil = e.openUntil
    BY <2>1, <2>2 DEF GuardEntry
  <2> QED BY <2>3, <2>4 DEF Blocked
<1> QED BY <1>2, <1>3

-----------------------------------------------------------------------------
(* The steps                                                                  *)

LEMMA CrashGuardStarts == CrashGuardInit => CrashGuardInv
<1> SUFFICES ASSUME CrashGuardInit PROVE CrashGuardInv
  OBVIOUS
<1>1. (CHOOSE i \in Identity : TRUE) \in Identity
  BY CrashGuardAssumption
<1>2. BreakerShape
  BY <1>1, FreshIsAnEntry DEF CrashGuardInit, BreakerShape
<1>3. breaker.crashes = 0 /\ breaker.waits = 0 /\ breaker.turn = NoIdentity
  BY DEF CrashGuardInit
<1>4. EntryFor(breaker, breaker.config) \in GuardEntry
  BY <1>2, EntryForIsAnEntry DEF BreakerShape
<1> QED BY <1>2, <1>3, <1>4, CrashGuardAssumption
        DEF CrashGuardInv, GuardEntry, TurnHasSession, CrashesAreCounted, RoomForTheNext,
            RespawnsSlowDown

\* After a step that sets the history back, nothing is left to show but the shape.
LEMMA AfterReset ==
  ASSUME BreakerShape', TurnHasSession', breaker'.crashes = 0, breaker'.waits = 0
  PROVE  CrashGuardInv'
<1>1. EntryFor(breaker', breaker'.config) \in GuardEntry
  BY FreshIsAnEntry DEF BreakerShape, EntryFor
<1>2. CrashesAreCounted'
  BY <1>1 DEF CrashesAreCounted, GuardEntry
<1> QED BY <1>2, CrashGuardAssumption DEF CrashGuardInv, RoomForTheNext, RespawnsSlowDown

LEMMA DispatchOrRefuseKeeps == CrashGuardInv /\ DispatchOrRefuse => CrashGuardInv'
<1> SUFFICES ASSUME CrashGuardInv, DispatchOrRefuse PROVE CrashGuardInv'
  OBVIOUS
<1> DEFINE e == EntryFor(breaker, breaker.config)
<1>1. BreakerShape /\ breaker.config \in Identity /\ e \in GuardEntry
        /\ e.identity = breaker.config
  BY EntryForIsAnEntry DEF CrashGuardInv, BreakerShape
<1>2. CASE breaker' = [breaker EXCEPT !.turn = breaker.config]
             /\ breaker.session = breaker.config
  BY <1>1, <1>2 DEF CrashGuardInv, BreakerShape, TurnHasSession, CrashesAreCounted,
                    RoomForTheNext, RespawnsSlowDown, EntryFor
<1>3. CASE breaker' = [breaker EXCEPT !.session = NoIdentity, !.entry = e]
             /\ Blocked(e, breaker.clock) /\ breaker.turn = NoIdentity
  <2>1. BreakerShape' /\ TurnHasSession'
    BY <1>1, <1>3 DEF BreakerShape, TurnHasSession
  <2>2. EntryFor(breaker', breaker'.config) = e
    BY <1>1, <1>3 DEF BreakerShape, EntryFor
  <2> QED BY <1>1, <1>3, <2>1, <2>2 DEF CrashGuardInv, BreakerShape, CrashesAreCounted,
                                        RoomForTheNext, RespawnsSlowDown
<1>4. CASE breaker' = [breaker EXCEPT !.spawns = @ + 1, !.entry = e,
                                      !.turn = breaker.config, !.session = breaker.config]
             /\ ~Blocked(e, breaker.clock)
  <2>1. BreakerShape' /\ TurnHasSession'
    <3>1. breaker.spawns + 1 \in Nat
      BY <1>1 DEF BreakerShape
    <3>2. breaker' = [breaker EXCEPT !.spawns = breaker.spawns + 1, !.entry = e,
                                     !.turn = breaker.config, !.session = breaker.config]
      BY <1>4
    <3> HIDE DEF e
    <3> QED BY <1>1, <3>1, <3>2 DEF BreakerShape, TurnHasSession
  <2>2. EntryFor(breaker', breaker'.config) = e
    BY <1>1, <1>4 DEF BreakerShape, EntryFor
  <2> QED BY <1>1, <1>4, <2>1, <2>2 DEF CrashGuardInv, BreakerShape, CrashesAreCounted,
                                        RoomForTheNext, RespawnsSlowDown
<1> QED BY <1>2, <1>3, <1>4 DEF DispatchOrRefuse

LEMMA TurnSucceedsKeeps == CrashGuardInv /\ TurnSucceeds => CrashGuardInv'
<1> SUFFICES ASSUME CrashGuardInv, TurnSucceeds PROVE CrashGuardInv'
  OBVIOUS
<1>1. Fresh(breaker.turn) \in GuardEntry
  BY FreshIsAnEntry DEF CrashGuardInv, BreakerShape
<1>2. BreakerShape' /\ TurnHasSession'
  BY <1>1 DEF CrashGuardInv, BreakerShape, TurnHasSession, TurnSucceeds
<1>3. breaker'.crashes = 0 /\ breaker'.waits = 0
  BY DEF CrashGuardInv, BreakerShape, TurnSucceeds
<1> QED BY <1>2, <1>3, AfterReset

\* The crash itself: the session had one left, and the breaker opens where it was the last.
LEMMA TurnCrashesKeeps == CrashGuardInv /\ TurnCrashes => CrashGuardInv'
<1> SUFFICES ASSUME CrashGuardInv, TurnCrashes PROVE CrashGuardInv'
  OBVIOUS
<1> DEFINE e == EntryFor(breaker, breaker.turn)
           f == Failed(e, breaker.clock)
<1>1. BreakerShape /\ breaker.turn \in Identity /\ breaker.clock \in Nat \ {0}
  BY DEF CrashGuardInv, BreakerShape, TurnCrashes
<1>2. e \in GuardEntry /\ e.identity = breaker.turn
  BY <1>1, EntryForIsAnEntry
<1>3. /\ f \in GuardEntry /\ f.identity = breaker.turn /\ f.failures = e.failures + 1
      /\ e.failures + 1 >= Threshold => Blocked(f, breaker.clock)
  BY <1>1, <1>2, FailedCounts
<1> HIDE DEF e, f
<1>4. breaker' = [breaker EXCEPT !.turn = NoIdentity, !.session = NoIdentity, !.entry = f,
                    !.crashes = IF breaker.turn = breaker.config THEN @ + 1 ELSE @,
                    !.mixed = @ \/ breaker.turn # breaker.config]
  BY DEF TurnCrashes, e, f
<1>5. BreakerShape' /\ TurnHasSession'
  <2> DEFINE c == IF breaker.turn = breaker.config THEN breaker.crashes + 1 ELSE breaker.crashes
             m == breaker.mixed \/ breaker.turn # breaker.config
  <2>1. c \in Nat /\ m \in BOOLEAN
    BY <1>1 DEF BreakerShape
  <2>2. breaker' = [breaker EXCEPT !.turn = NoIdentity, !.session = NoIdentity, !.entry = f,
                                   !.crashes = c, !.mixed = m]
    BY <1>4
  <2> HIDE DEF c, m
  <2> QED BY <1>1, <1>3, <2>1, <2>2 DEF BreakerShape, TurnHasSession
<1>6. CASE breaker'.mixed
  BY <1>5, <1>6 DEF CrashGuardInv, CrashesAreCounted, RoomForTheNext, RespawnsSlowDown
<1>7. CASE ~breaker'.mixed
  <2>1. ~breaker.mixed /\ breaker.turn = breaker.config
          /\ breaker'.crashes = breaker.crashes + 1 /\ breaker'.session = NoIdentity
          /\ breaker'.waits = breaker.waits /\ breaker'.clock = breaker.clock
          /\ breaker'.config = breaker.config /\ breaker'.entry = f
    BY <1>1, <1>4, <1>7 DEF BreakerShape
  <2>2. EntryFor(breaker', breaker'.config) = f
    BY <1>3, <2>1 DEF EntryFor
  <2>3. breaker.crashes \in Nat /\ breaker.waits \in Nat /\ e.failures \in Nat
          /\ Threshold \in Nat
    BY <1>1, <1>2, CrashGuardAssumption DEF BreakerShape, GuardEntry
  <2>4. breaker.session # NoIdentity
    BY <1>1, CrashGuardAssumption DEF CrashGuardInv, TurnHasSession
  <2>5. breaker.crashes + 1 <= Threshold + breaker.waits
    BY <2>1, <2>4 DEF CrashGuardInv, RoomForTheNext
  <2>6. breaker.crashes <= e.failures
    BY <2>1 DEF CrashGuardInv, CrashesAreCounted, e
  <2>7. CrashesAreCounted'
    BY <1>3, <2>1, <2>2, <2>3, <2>6 DEF CrashesAreCounted
  <2>8. RoomForTheNext'
    BY <1>3, <2>1, <2>2, <2>3, <2>6 DEF RoomForTheNext
  <2>9. RespawnsSlowDown'
    BY <2>1, <2>5 DEF RespawnsSlowDown
  <2> QED BY <1>5, <2>7, <2>8, <2>9 DEF CrashGuardInv
<1> QED BY <1>6, <1>7

LEMMA TurnFailsOtherwiseKeeps == CrashGuardInv /\ TurnFailsOtherwise => CrashGuardInv'
  BY DEF CrashGuardInv, BreakerShape, TurnHasSession, CrashesAreCounted, RoomForTheNext,
         RespawnsSlowDown, EntryFor, TurnFailsOtherwise

LEMMA StopGuardedKeeps == CrashGuardInv /\ StopGuarded => CrashGuardInv'
  BY DEF CrashGuardInv, BreakerShape, TurnHasSession, CrashesAreCounted, RoomForTheNext,
         RespawnsSlowDown, EntryFor, StopGuarded

LEMMA ForgetGuardedKeeps == CrashGuardInv /\ ForgetGuarded => CrashGuardInv'
<1> SUFFICES ASSUME CrashGuardInv, ForgetGuarded PROVE CrashGuardInv'
  OBVIOUS
<1>1. Fresh(NoIdentity) \in GuardEntry
  BY FreshIsAnEntry
<1>2. BreakerShape' /\ TurnHasSession'
  BY <1>1 DEF CrashGuardInv, BreakerShape, TurnHasSession, ForgetGuarded
<1>3. breaker'.crashes = 0 /\ breaker'.waits = 0
  BY DEF CrashGuardInv, BreakerShape, ForgetGuarded
<1> QED BY <1>2, <1>3, AfterReset

\* A late failure counts without a crash: it may open the breaker and never closes it.
LEMMA LateFailureKeeps == CrashGuardInv /\ LateFailure => CrashGuardInv'
<1> SUFFICES ASSUME CrashGuardInv, LateFailure PROVE CrashGuardInv'
  OBVIOUS
<1> DEFINE e == EntryFor(breaker, breaker.late)
           f == Failed(e, breaker.clock)
<1>1. BreakerShape /\ breaker.late \in Identity /\ breaker.clock \in Nat \ {0}
  BY DEF CrashGuardInv, BreakerShape, LateFailure
<1>2. e \in GuardEntry /\ e.identity = breaker.late
  BY <1>1, EntryForIsAnEntry
<1>3. /\ f \in GuardEntry /\ f.identity = breaker.late /\ f.failures = e.failures + 1
      /\ Blocked(e, breaker.clock) => Blocked(f, breaker.clock)
  BY <1>1, <1>2, FailedCounts
<1> HIDE DEF e, f
<1>4. CASE breaker' = [breaker EXCEPT !.late = NoIdentity]
  BY <1>4 DEF CrashGuardInv, BreakerShape, TurnHasSession, CrashesAreCounted, RoomForTheNext,
              RespawnsSlowDown, EntryFor
<1>5. CASE breaker' = [breaker EXCEPT !.late = NoIdentity, !.entry = f,
                                      !.mixed = @ \/ breaker.late # breaker.config]
  <2>1. BreakerShape' /\ TurnHasSession'
    BY <1>1, <1>3, <1>5 DEF CrashGuardInv, BreakerShape, TurnHasSession
  <2>2. CASE breaker'.mixed
    BY <2>1, <2>2 DEF CrashGuardInv, CrashesAreCounted, RoomForTheNext, RespawnsSlowDown
  <2>3. CASE ~breaker'.mixed
    <3>1. ~breaker.mixed /\ breaker.late = breaker.config
            /\ breaker'.crashes = breaker.crashes /\ breaker'.session = breaker.session
            /\ breaker'.waits = breaker.waits /\ breaker'.clock = breaker.clock
            /\ breaker'.config = breaker.config /\ breaker'.entry = f
      BY <1>1, <1>5, <2>3 DEF BreakerShape
    <3>2. EntryFor(breaker', breaker'.config) = f
      BY <1>3, <3>1 DEF EntryFor
    <3>3. breaker.crashes \in Nat /\ e.failures \in Nat
      BY <1>1, <1>2 DEF BreakerShape, GuardEntry
    <3>4. breaker.crashes <= e.failures
      BY <3>1 DEF CrashGuardInv, CrashesAreCounted, e
    <3>5. CrashesAreCounted'
      BY <1>3, <3>1, <3>2, <3>3, <3>4 DEF CrashesAreCounted
    <3>6. breaker.session # NoIdentity \/ ~Blocked(e, breaker.clock)
            => breaker.crashes + 1 <= Threshold + breaker.waits
      BY <3>1 DEF CrashGuardInv, RoomForTheNext, e
    <3>7. RoomForTheNext'
      BY <1>3, <3>1, <3>2, <3>6 DEF RoomForTheNext
    <3>8. RespawnsSlowDown'
      BY <3>1 DEF CrashGuardInv, RespawnsSlowDown
    <3> QED BY <2>1, <3>5, <3>7, <3>8 DEF CrashGuardInv
  <2> QED BY <2>2, <2>3
<1> QED BY <1>4, <1>5 DEF LateFailure, e, f

LEMMA EditProfileKeeps == CrashGuardInv /\ EditProfile => CrashGuardInv'
<1> SUFFICES ASSUME CrashGuardInv, NEW i \in Identity,
                    breaker' = [breaker EXCEPT !.config = i, !.crashes = 0, !.waits = 0,
                                  !.mixed = breaker.turn # NoIdentity \/ breaker.late # NoIdentity]
             PROVE  CrashGuardInv'
  BY DEF EditProfile
<1>1. BreakerShape' /\ TurnHasSession'
  BY DEF CrashGuardInv, BreakerShape, TurnHasSession
<1>2. breaker'.crashes = 0 /\ breaker'.waits = 0
  BY DEF CrashGuardInv, BreakerShape
<1> QED BY <1>1, <1>2, AfterReset

\* When the breaker closes, a cool-down was sat out: one more crash is allowed.
LEMMA GuardTickKeeps == CrashGuardInv /\ GuardTick => CrashGuardInv'
<1> SUFFICES ASSUME CrashGuardInv, GuardTick PROVE CrashGuardInv'
  OBVIOUS
<1> DEFINE e == EntryFor(breaker, breaker.config)
<1>1. breaker' = [breaker EXCEPT !.clock = @ + 1,
                    !.waits = IF breaker.entry.openUntil = breaker.clock + 1 THEN @ + 1 ELSE @]
  BY DEF GuardTick
<1>2. BreakerShape
  BY DEF CrashGuardInv
<1>3. BreakerShape' /\ TurnHasSession'
  <2> DEFINE w == IF breaker.entry.openUntil = breaker.clock + 1
                  THEN breaker.waits + 1 ELSE breaker.waits
             c == breaker.clock + 1
  <2>1. w \in Nat /\ c \in Nat \ {0}
    BY <1>2 DEF BreakerShape
  <2>2. breaker' = [breaker EXCEPT !.clock = c, !.waits = w]
    BY <1>1
  <2> HIDE DEF w, c
  <2> QED BY <2>1, <2>2 DEF CrashGuardInv, BreakerShape, TurnHasSession
<1>4. /\ breaker'.entry = breaker.entry /\ breaker'.config = breaker.config
      /\ breaker'.clock = breaker.clock + 1 /\ breaker'.crashes = breaker.crashes
      /\ breaker'.session = breaker.session /\ breaker'.mixed = breaker.mixed
      /\ breaker'.waits = IF breaker.entry.openUntil = breaker.clock + 1
                          THEN breaker.waits + 1 ELSE breaker.waits
  BY <1>1, <1>2 DEF BreakerShape
<1>5. EntryFor(breaker', breaker'.config) = e
  BY <1>4 DEF EntryFor
<1>6. /\ breaker.crashes \in Nat /\ breaker.waits \in Nat /\ breaker.clock \in Nat
      /\ e.openUntil \in Nat /\ Threshold \in Nat
  BY <1>2, EntryForIsAnEntry, CrashGuardAssumption DEF BreakerShape, GuardEntry
<1>7. CrashesAreCounted'
  BY <1>4, <1>5 DEF CrashGuardInv, CrashesAreCounted
<1>8. ~breaker.mixed => breaker.crashes <= Threshold + breaker.waits
  BY DEF CrashGuardInv, RespawnsSlowDown
<1>9. RespawnsSlowDown'
  BY <1>4, <1>6, <1>8 DEF RespawnsSlowDown
<1>10. RoomForTheNext'
  <2> SUFFICES ASSUME ~breaker.mixed,
                      breaker.session # NoIdentity \/ ~Blocked(e, breaker.clock + 1)
               PROVE  breaker.crashes + 1 <= Threshold + breaker'.waits
    BY <1>4, <1>5 DEF RoomForTheNext
  <2>1. CASE breaker.session # NoIdentity \/ ~Blocked(e, breaker.clock)
    <3>1. breaker.crashes + 1 <= Threshold + breaker.waits
      BY <2>1 DEF CrashGuardInv, RoomForTheNext
    <3> QED BY <1>4, <1>6, <3>1
  <2>2. CASE Blocked(e, breaker.clock) /\ ~Blocked(e, breaker.clock + 1)
    <3>1. e.openUntil = breaker.clock + 1 /\ e.openUntil > 0
      BY <1>6, <2>2 DEF Blocked
    <3>2. e = breaker.entry
      BY <1>2, <3>1, FreshIsAnEntry DEF EntryFor, BreakerShape
    <3> QED BY <1>4, <1>6, <1>8, <3>1, <3>2
  <2> QED BY <2>1, <2>2
<1> QED BY <1>3, <1>7, <1>9, <1>10 DEF CrashGuardInv

LEMMA CrashGuardRests == CrashGuardInv /\ UNCHANGED crashGuardVars => CrashGuardInv'
  BY DEF CrashGuardInv, crashGuardVars, BreakerShape, TurnHasSession, CrashesAreCounted,
         RoomForTheNext, RespawnsSlowDown, EntryFor

LEMMA GuardGoesOn == CrashGuardInv /\ [CrashGuardNext]_crashGuardVars => CrashGuardInv'
  BY DispatchOrRefuseKeeps, TurnSucceedsKeeps, TurnCrashesKeeps, TurnFailsOtherwiseKeeps,
     StopGuardedKeeps, ForgetGuardedKeeps, LateFailureKeeps, EditProfileKeeps,
     GuardTickKeeps, CrashGuardRests DEF CrashGuardNext

-----------------------------------------------------------------------------
(* The theorem                                                                *)

\* The crash guard's promise, for every threshold, cool-down and set of profiles and
\* without a bound on the life of the agent: Threshold starts of a worker that crashes,
\* and one more for each cool-down that was sat out.
THEOREM CrashesAreSlowedDown == CrashGuardSpec => []RespawnsSlowDown
<1>1. CrashGuardInv /\ [CrashGuardNext]_crashGuardVars => CrashGuardInv'
  BY GuardGoesOn
<1>2. CrashGuardInv => RespawnsSlowDown
  BY DEF CrashGuardInv
<1> QED BY CrashGuardStarts, <1>1, <1>2, PTL DEF CrashGuardSpec
-----------------------------------------------------------------------------
(* The supervisor: the inductive invariant                                    *)

\* What the steps need of the types.
SupervisorShape ==
  /\ daemon \in [Daemon -> {"none", "up", "ending", "gone"}]
  /\ started \in Nat \ {0}
  /\ child \in Daemon \cup {0}
  /\ waits \in [Daemon -> Nat]

\* Only the dead are heard.
HeardAreGone == \A d \in heard : d \in Daemon /\ daemon[d] = "gone"

\* The next number is that of no process yet.
NextIsNew == \A d \in Daemon : d > started => daemon[d] = "none"

\* While an exit would be taken for a planned one, a restart does wait.
PlannedMeansWaiting == expectRestart => \E d \in Daemon : waits[d] > 0

SupervisorInv ==
  SupervisorShape /\ HeardAreGone /\ NextIsNew /\ PlannedMeansWaiting /\ DaemonComesBack

-----------------------------------------------------------------------------
(* Lemmas about the supervisor                                                *)

LEMMA FirstIsADaemon == 1 \in Daemon
  BY SupervisorAssumption DEF Daemon

\* The first daemon runs.
LEMMA SupervisorStarts == SupervisorInit => SupervisorInv
<1> SUFFICES ASSUME SupervisorInit PROVE SupervisorInv
  OBVIOUS
<1> USE FirstIsADaemon
<1>1. SupervisorShape
  BY DEF SupervisorInit, SupervisorShape
<1>2. HeardAreGone /\ PlannedMeansWaiting
  BY DEF SupervisorInit, HeardAreGone, PlannedMeansWaiting
<1>3. NextIsNew
  BY DEF SupervisorInit, NextIsNew
<1>4. daemon[1] = "up"
  BY DEF SupervisorInit
<1>5. DaemonComesBack
  BY <1>4 DEF DaemonComesBack
<1> QED BY <1>1, <1>2, <1>3, <1>5 DEF SupervisorInv

\* startChild keeps what is known of the processes, and one runs after it.
LEMMA StartKeeps ==
  ASSUME SupervisorInv, StartDaemon, waits' \in [Daemon -> Nat], heard' = heard
  PROVE  /\ SupervisorShape' /\ HeardAreGone' /\ NextIsNew' /\ DaemonComesBack'
<1> DEFINE n == started + 1
<1>1. n \in Daemon /\ n > started /\ started \in Nat \ {0}
  BY DEF SupervisorInv, SupervisorShape, StartDaemon
<1>2. daemon[n] = "none"
  BY <1>1 DEF SupervisorInv, NextIsNew
<1>3. daemon' = [daemon EXCEPT ![n] = "up"] /\ started' = n /\ child' = n
  BY DEF StartDaemon
<1>4. SupervisorShape'
  BY <1>1, <1>3 DEF SupervisorInv, SupervisorShape
<1>5. HeardAreGone'
  BY <1>2, <1>3 DEF SupervisorInv, HeardAreGone, SupervisorShape
<1>6. NextIsNew'
  <2> SUFFICES ASSUME NEW d \in Daemon, d > n PROVE daemon'[d] = "none"
    BY <1>3 DEF NextIsNew
  <2>1. d \in Int /\ d > started /\ d # n
    BY <1>1 DEF Daemon
  <2> QED BY <2>1, <1>3 DEF SupervisorInv, NextIsNew, SupervisorShape
<1>7. daemon'[n] = "up"
  BY <1>1, <1>3 DEF SupervisorInv, SupervisorShape
<1>8. DaemonComesBack'
  BY <1>1, <1>7 DEF DaemonComesBack
<1> QED BY <1>4, <1>5, <1>6, <1>8

\* killTree only asks: it changes no process that is not up.
LEMMA KillKeeps ==
  ASSUME SupervisorInv, NEW k \in Daemon, Kill(k), waits' \in [Daemon -> Nat],
         UNCHANGED <<heard, started, child>>
  PROVE  SupervisorShape' /\ HeardAreGone' /\ NextIsNew'
<1>1. SupervisorShape'
  BY DEF SupervisorInv, SupervisorShape, Kill
<1>2. HeardAreGone'
  BY DEF SupervisorInv, SupervisorShape, HeardAreGone, Kill
<1>3. NextIsNew'
  BY DEF SupervisorInv, SupervisorShape, NextIsNew, Kill
<1> QED BY <1>1, <1>2, <1>3

-----------------------------------------------------------------------------
(* The steps                                                                  *)

LEMMA FileChangesKeeps == SupervisorInv /\ FileChanges => SupervisorInv'
<1> SUFFICES ASSUME SupervisorInv, FileChanges PROVE SupervisorInv'
  OBVIOUS
<1>1. CASE child = 0
  <2>1. StartDaemon /\ waits' = waits /\ heard' = heard /\ expectRestart' = expectRestart
    BY <1>1 DEF FileChanges
  <2>2. waits' \in [Daemon -> Nat]
    BY <2>1 DEF SupervisorInv, SupervisorShape
  <2>3. SupervisorShape' /\ HeardAreGone' /\ NextIsNew' /\ DaemonComesBack'
    BY <2>1, <2>2, StartKeeps
  <2>4. PlannedMeansWaiting'
    BY <2>1 DEF SupervisorInv, PlannedMeansWaiting
  <2> QED BY <2>3, <2>4 DEF SupervisorInv
<1>2. CASE child # 0
  <2>1. child \in Daemon /\ waits \in [Daemon -> Nat]
    BY <1>2 DEF SupervisorInv, SupervisorShape
  <2>2. Kill(child) /\ waits' = [waits EXCEPT ![child] = @ + 1]
          /\ UNCHANGED <<heard, started, child>>
    BY <1>2 DEF FileChanges
  <2>3. waits' \in [Daemon -> Nat] /\ waits'[child] > 0
    BY <2>1, <2>2
  <2>4. SupervisorShape' /\ HeardAreGone' /\ NextIsNew'
    BY <2>1, <2>2, <2>3, KillKeeps
  <2>5. PlannedMeansWaiting' /\ DaemonComesBack'
    BY <2>1, <2>3 DEF PlannedMeansWaiting, DaemonComesBack
  <2> QED BY <2>4, <2>5 DEF SupervisorInv
<1> QED BY <1>1, <1>2

LEMMA DaemonDiesKeeps ==
  ASSUME NEW d \in Daemon
  PROVE  SupervisorInv /\ DaemonDies(d) => SupervisorInv'
<1> SUFFICES ASSUME SupervisorInv, DaemonDies(d) PROVE SupervisorInv'
  OBVIOUS
<1>1. daemon[d] \in {"up", "ending"} /\ daemon' = [daemon EXCEPT ![d] = "gone"]
        /\ UNCHANGED <<heard, started, child, expectRestart, waits>>
  BY DEF DaemonDies
<1>2. SupervisorShape'
  BY <1>1 DEF SupervisorInv, SupervisorShape
<1>3. HeardAreGone'
  BY <1>1 DEF SupervisorInv, SupervisorShape, HeardAreGone
<1>4. NextIsNew'
  BY <1>1 DEF SupervisorInv, SupervisorShape, NextIsNew
<1>5. PlannedMeansWaiting'
  BY <1>1 DEF SupervisorInv, PlannedMeansWaiting
<1>6. daemon'[d] = "gone" /\ d \notin heard'
  BY <1>1 DEF SupervisorInv, SupervisorShape, HeardAreGone
<1>7. DaemonComesBack'
  BY <1>6 DEF DaemonComesBack
<1> QED BY <1>2, <1>3, <1>4, <1>5, <1>7 DEF SupervisorInv

\* The exit of the last daemon sets the timer, or is the one a restart waits for.
LEMMA DaemonExitsKeeps ==
  ASSUME NEW d \in Daemon
  PROVE  SupervisorInv /\ DaemonExits(d) => SupervisorInv'
<1> SUFFICES ASSUME SupervisorInv, DaemonExits(d) PROVE SupervisorInv'
  OBVIOUS
<1>1. daemon[d] = "gone" /\ heard' = heard \cup {d} /\ child' = 0
        /\ UNCHANGED <<daemon, started, shuttingDown, waits, ended>>
  BY DEF DaemonExits
<1>2. SupervisorShape' /\ NextIsNew'
  BY <1>1 DEF SupervisorInv, SupervisorShape, NextIsNew
<1>3. HeardAreGone'
  BY <1>1 DEF SupervisorInv, HeardAreGone
<1>4. PlannedMeansWaiting'
  BY <1>1 DEF SupervisorInv, PlannedMeansWaiting, DaemonExits
<1>5. shuttingDown \/ restartTimer' \/ expectRestart
  BY DEF DaemonExits
<1>6. DaemonComesBack'
  BY <1>1, <1>5 DEF SupervisorInv, PlannedMeansWaiting, DaemonComesBack
<1> QED BY <1>2, <1>3, <1>4, <1>6 DEF SupervisorInv

LEMMA KilledKeeps ==
  ASSUME NEW d \in Daemon
  PROVE  SupervisorInv /\ Killed(d) => SupervisorInv'
<1> SUFFICES ASSUME SupervisorInv, Killed(d) PROVE SupervisorInv'
  OBVIOUS
<1>1. waits' = [waits EXCEPT ![d] = @ - 1] /\ waits[d] > 0 /\ ~expectRestart'
        /\ UNCHANGED <<heard, shuttingDown>>
  BY DEF Killed
<1>2. waits' \in [Daemon -> Nat]
  BY <1>1 DEF SupervisorInv, SupervisorShape
<1>3. PlannedMeansWaiting'
  BY <1>1 DEF PlannedMeansWaiting
<1>4. CASE shuttingDown
  <2>1. UNCHANGED <<started, child, daemon>>
    BY <1>4 DEF Killed, NothingStarts
  <2>2. SupervisorShape' /\ HeardAreGone' /\ NextIsNew'
    BY <1>1, <1>2, <2>1 DEF SupervisorInv, SupervisorShape, HeardAreGone, NextIsNew
  <2>3. DaemonComesBack'
    BY <1>1, <1>4 DEF DaemonComesBack
  <2> QED BY <1>3, <2>2, <2>3 DEF SupervisorInv
<1>5. CASE ~shuttingDown
  <2>1. StartDaemon /\ heard' = heard
    BY <1>5 DEF Killed
  <2> QED BY <1>2, <1>3, <2>1, StartKeeps DEF SupervisorInv
<1> QED BY <1>4, <1>5

LEMMA RestartTimerFiresKeeps == SupervisorInv /\ RestartTimerFires => SupervisorInv'
<1> SUFFICES ASSUME SupervisorInv, RestartTimerFires PROVE SupervisorInv'
  OBVIOUS
<1>1. UNCHANGED <<heard, expectRestart, shuttingDown, waits>>
  BY DEF RestartTimerFires
<1>2. waits' \in [Daemon -> Nat]
  BY <1>1 DEF SupervisorInv, SupervisorShape
<1>3. PlannedMeansWaiting'
  BY <1>1 DEF SupervisorInv, PlannedMeansWaiting
<1>4. CASE shuttingDown
  <2>1. UNCHANGED <<started, child, daemon>>
    BY <1>4 DEF RestartTimerFires, NothingStarts
  <2>2. SupervisorShape' /\ HeardAreGone' /\ NextIsNew'
    BY <1>1, <2>1 DEF SupervisorInv, SupervisorShape, HeardAreGone, NextIsNew
  <2>3. DaemonComesBack'
    BY <1>1, <1>4 DEF DaemonComesBack
  <2> QED BY <1>3, <2>2, <2>3 DEF SupervisorInv
<1>5. CASE ~shuttingDown
  <2>1. StartDaemon /\ heard' = heard
    BY <1>5 DEF RestartTimerFires
  <2> QED BY <1>2, <1>3, <2>1, StartKeeps DEF SupervisorInv
<1> QED BY <1>4, <1>5

LEMMA ShutdownKeeps == SupervisorInv /\ Shutdown => SupervisorInv'
<1> SUFFICES ASSUME SupervisorInv, Shutdown PROVE SupervisorInv'
  OBVIOUS
<1>1. shuttingDown' /\ UNCHANGED <<heard, started, child, expectRestart, waits>>
  BY DEF Shutdown
<1>2. waits' \in [Daemon -> Nat] /\ child \in Daemon \cup {0}
  BY <1>1 DEF SupervisorInv, SupervisorShape
<1>3. PlannedMeansWaiting' /\ DaemonComesBack'
  BY <1>1 DEF SupervisorInv, PlannedMeansWaiting, DaemonComesBack
<1>4. CASE child = 0
  <2>1. daemon' = daemon
    BY <1>4 DEF Shutdown
  <2>2. SupervisorShape' /\ HeardAreGone' /\ NextIsNew'
    BY <1>1, <2>1 DEF SupervisorInv, SupervisorShape, HeardAreGone, NextIsNew
  <2> QED BY <1>3, <2>2 DEF SupervisorInv
<1>5. CASE child # 0
  <2>1. Kill(child) /\ child \in Daemon
    BY <1>2, <1>5 DEF Shutdown
  <2> QED BY <1>1, <1>2, <1>3, <2>1, KillKeeps DEF SupervisorInv
<1> QED BY <1>4, <1>5

LEMMA SupervisorEndsKeeps == SupervisorInv /\ SupervisorEnds => SupervisorInv'
  BY DEF SupervisorInv, SupervisorEnds, SupervisorShape, HeardAreGone, NextIsNew,
         PlannedMeansWaiting, DaemonComesBack

LEMMA SupervisorRests == SupervisorInv /\ UNCHANGED supervisorVars => SupervisorInv'
  BY DEF SupervisorInv, supervisorVars, SupervisorShape, HeardAreGone, NextIsNew,
         PlannedMeansWaiting, DaemonComesBack

LEMMA SupervisorGoesOn == SupervisorInv /\ [SupervisorNext]_supervisorVars => SupervisorInv'
  BY FileChangesKeeps, DaemonDiesKeeps, DaemonExitsKeeps, KilledKeeps,
     RestartTimerFiresKeeps, ShutdownKeeps, SupervisorEndsKeeps, SupervisorRests
     DEF SupervisorNext

-----------------------------------------------------------------------------
(* The theorem                                                                *)

\* While the supervisor is not told to end, a daemon runs, or an exit is still to be
\* heard, or a restart is on its way (restartForChange, killTree and the exit listener
\* of startChild), for every number of crashes and of file changes.
THEOREM ADaemonComesBack == SupervisorSpec => []DaemonComesBack
<1>1. SupervisorInv /\ [SupervisorNext]_supervisorVars => SupervisorInv'
  BY SupervisorGoesOn
<1>2. SupervisorInv => DaemonComesBack
  BY DEF SupervisorInv
<1> QED BY SupervisorStarts, <1>1, <1>2, PTL DEF SupervisorSpec
-----------------------------------------------------------------------------
(* The breaker stays within its bounds.                                       *)

Spent(i) == IF i = NoIdentity THEN 0 ELSE 1

EntryInBounds(e) ==
  /\ e.cooldown >= BaseCooldown /\ e.cooldown <= MaxCooldown
  /\ e.openUntil <= MaxClock + MaxCooldown

\* A crash and a failure each cost a spawn, and so did the worker that runs and the one
\* whose end is still to be heard of.
GuardBounds ==
  /\ breaker.clock <= MaxClock /\ breaker.spawns <= MaxSpawns
  /\ EntryInBounds(breaker.entry) /\ breaker.waits + 1 <= breaker.clock
  /\ breaker.crashes + Spent(breaker.session) <= breaker.spawns
  /\ breaker.entry.failures + Spent(breaker.session) + Spent(breaker.late) <= breaker.spawns

LEMMA GuardNumbers ==
  ASSUME NEW b, b \in [entry : GuardEntry, config : Identity, session : Identity \cup {NoIdentity},
               turn : Identity \cup {NoIdentity}, late : Identity \cup {NoIdentity},
               clock : Nat \ {0}, spawns : Nat, crashes : Nat, waits : Nat, mixed : BOOLEAN]
  PROVE  /\ b.entry \in GuardEntry /\ b.entry.failures \in Nat /\ b.entry.openUntil \in Nat
         /\ b.entry.cooldown \in Nat \ {0} /\ b.clock \in Nat \ {0}
         /\ b.spawns \in Nat /\ b.crashes \in Nat /\ b.waits \in Nat /\ b.mixed \in BOOLEAN
         /\ Spent(b.session) \in 0 .. 1 /\ Spent(b.late) \in 0 .. 1
         /\ Spent(NoIdentity) = 0
  BY DEF GuardEntry, Spent

LEMMA EntriesInBounds ==
  ASSUME GuardBounds, BreakerShape, NEW i \in Identity \cup {NoIdentity}
  PROVE  /\ EntryInBounds(Fresh(i)) /\ Fresh(i).failures = 0
         /\ EntryInBounds(EntryFor(breaker, i))
         /\ EntryFor(breaker, i).failures <= breaker.entry.failures
         /\ EntryFor(breaker, i) \in GuardEntry
<1>1. EntryInBounds(Fresh(i)) /\ Fresh(i).failures = 0 /\ Fresh(i) \in GuardEntry
  BY CrashGuardAssumption DEF Fresh, EntryInBounds, GuardEntry
<1>2. breaker.entry \in GuardEntry /\ breaker.entry.failures \in Nat
  BY DEF BreakerShape, GuardEntry
<1> QED
  BY <1>1, <1>2 DEF EntryFor, GuardBounds

LEMMA FailedInBounds ==
  ASSUME NEW e \in GuardEntry, NEW now \in 1 .. MaxClock, EntryInBounds(e)
  PROVE  EntryInBounds(Failed(e, now))
<1>1. e.failures \in Nat /\ e.cooldown \in Nat \ {0} /\ e.openUntil \in Nat
  BY DEF GuardEntry
<1>2. PICK c : c = Smaller(2 * e.cooldown, MaxCooldown)
  OBVIOUS
<1>3. c \in Nat /\ c >= BaseCooldown /\ c <= MaxCooldown
  BY <1>1, <1>2, CrashGuardAssumption DEF Smaller, EntryInBounds
<1>4. PICK u : u = now + e.cooldown
  OBVIOUS
<1>5. u \in Nat /\ u <= MaxClock + MaxCooldown
  BY <1>1, <1>4, CrashGuardAssumption DEF EntryInBounds
<1>6. CASE e.failures + 1 >= Threshold /\ e.openUntil <= now
  <2>1. Failed(e, now) = [e EXCEPT !.failures = e.failures + 1, !.openUntil = u, !.cooldown = c]
    BY <1>2, <1>4, <1>6 DEF Failed
  <2>2. Failed(e, now).openUntil = u /\ Failed(e, now).cooldown = c
    BY <2>1 DEF GuardEntry
  <2> QED
    BY <1>3, <1>5, <2>2 DEF EntryInBounds
<1>7. CASE ~(e.failures + 1 >= Threshold /\ e.openUntil <= now)
  <2>1. Failed(e, now) = [e EXCEPT !.failures = e.failures + 1]
    BY <1>7 DEF Failed
  <2>2. Failed(e, now).openUntil = e.openUntil /\ Failed(e, now).cooldown = e.cooldown
    BY <2>1 DEF GuardEntry
  <2> QED
    BY <2>2 DEF EntryInBounds
<1> QED
  BY <1>6, <1>7

LEMMA BoundsStart == CrashGuardInit => GuardBounds
<1> SUFFICES ASSUME CrashGuardInit PROVE GuardBounds
  OBVIOUS
<1>1. /\ breaker.clock = 1 /\ breaker.spawns = 0 /\ breaker.waits = 0 /\ breaker.crashes = 0
      /\ breaker.session = NoIdentity /\ breaker.late = NoIdentity
      /\ breaker.entry = Fresh(NoIdentity)
  BY DEF CrashGuardInit
<1>2. EntryInBounds(Fresh(NoIdentity)) /\ Fresh(NoIdentity).failures = 0
  BY CrashGuardAssumption DEF Fresh, EntryInBounds
<1> QED
  BY <1>1, <1>2, CrashGuardAssumption DEF GuardBounds, Spent

LEMMA BoundsKept ==
  ASSUME CrashGuardInv, GuardBounds, [CrashGuardNext]_crashGuardVars, CrashGuardInv'
  PROVE  GuardBounds'
<1> DEFINE b == breaker
           c == breaker'
<1>1. BreakerShape /\ BreakerShape'
  BY DEF CrashGuardInv
<1>2. /\ b.entry \in GuardEntry /\ b.entry.failures \in Nat /\ b.clock \in Nat \ {0}
      /\ b.spawns \in Nat /\ b.crashes \in Nat /\ b.waits \in Nat
      /\ Spent(b.session) \in 0 .. 1 /\ Spent(b.late) \in 0 .. 1 /\ Spent(NoIdentity) = 0
      /\ MaxClock \in Nat /\ MaxSpawns \in Nat
  BY <1>1, GuardNumbers, CrashGuardAssumption DEF BreakerShape
<1>3. /\ c.entry.failures \in Nat /\ c.clock \in Nat \ {0}
      /\ c.spawns \in Nat /\ c.crashes \in Nat /\ c.waits \in Nat
      /\ Spent(c.session) \in 0 .. 1 /\ Spent(c.late) \in 0 .. 1
  BY <1>1, GuardNumbers DEF BreakerShape
<1>4. /\ b.config \in Identity /\ b.session \in Identity \cup {NoIdentity}
      /\ b.turn \in Identity \cup {NoIdentity} /\ b.late \in Identity \cup {NoIdentity}
      /\ NoIdentity \notin Identity
  BY <1>1, CrashGuardAssumption DEF BreakerShape
<1>5. \A i \in Identity : Spent(i) = 1
  BY CrashGuardAssumption DEF Spent
\* everything the step may change, in numbers
<1>6. SUFFICES ASSUME TRUE
      PROVE  /\ c.clock <= MaxClock /\ c.spawns <= MaxSpawns
             /\ EntryInBounds(c.entry) /\ c.waits + 1 <= c.clock
             /\ c.crashes + Spent(c.session) <= c.spawns
             /\ c.entry.failures + Spent(c.session) + Spent(c.late) <= c.spawns
  BY DEF GuardBounds
<1>7. /\ b.clock <= MaxClock /\ b.spawns <= MaxSpawns
      /\ EntryInBounds(b.entry) /\ b.waits + 1 <= b.clock
      /\ b.crashes + Spent(b.session) <= b.spawns
      /\ b.entry.failures + Spent(b.session) + Spent(b.late) <= b.spawns
  BY DEF GuardBounds
<1>8. CASE DispatchOrRefuse
  <2>1. PICK e : e = EntryFor(b, b.config)
    OBVIOUS
  <2>2. EntryInBounds(e) /\ e.failures <= b.entry.failures /\ e \in GuardEntry /\ e.failures \in Nat
    BY <1>1, <1>4, <2>1, EntriesInBounds DEF GuardEntry
  <2>3. CASE c = [b EXCEPT !.turn = b.config]
    <3>1. /\ c.clock = b.clock /\ c.spawns = b.spawns /\ c.entry = b.entry /\ c.waits = b.waits
          /\ c.crashes = b.crashes /\ c.session = b.session /\ c.late = b.late
      BY <1>1, <2>3 DEF BreakerShape
    <3> QED
      BY <1>7, <3>1
  <2>4. CASE c = [b EXCEPT !.session = NoIdentity, !.entry = e]
    <3>1. /\ c.clock = b.clock /\ c.spawns = b.spawns /\ c.entry = e /\ c.waits = b.waits
          /\ c.crashes = b.crashes /\ c.session = NoIdentity /\ c.late = b.late
      BY <1>1, <2>4 DEF BreakerShape
    <3> QED
      BY <1>2, <1>7, <2>2, <3>1
  <2>5. CASE /\ b.spawns < MaxSpawns
             /\ c = [b EXCEPT !.spawns = @ + 1, !.entry = e, !.turn = b.config, !.session = b.config]
    <3>1. /\ c.clock = b.clock /\ c.spawns = b.spawns + 1 /\ c.entry = e /\ c.waits = b.waits
          /\ c.crashes = b.crashes /\ c.session = b.config /\ c.late = b.late
      BY <1>1, <2>5 DEF BreakerShape
    <3> QED
      BY <1>2, <1>4, <1>5, <1>7, <2>2, <2>5, <3>1
  <2> QED
    BY <1>8, <2>1, <2>3, <2>4, <2>5 DEF DispatchOrRefuse
<1>9. CASE TurnSucceeds
  <2>1. /\ c.clock = b.clock /\ c.spawns = b.spawns /\ c.entry = Fresh(b.turn) /\ c.waits = 0
        /\ c.crashes = 0 /\ c.session = b.session /\ c.late = b.late
    BY <1>1, <1>9 DEF BreakerShape, TurnSucceeds
  <2> QED
    BY <1>1, <1>2, <1>4, <1>7, <2>1, EntriesInBounds
<1>10. CASE TurnCrashes
  <2>1. PICK e : e = EntryFor(b, b.turn)
    OBVIOUS
  <2>2. EntryInBounds(e) /\ e.failures <= b.entry.failures /\ e \in GuardEntry /\ e.failures \in Nat
    BY <1>1, <1>4, <2>1, EntriesInBounds DEF GuardEntry
  <2>3. EntryInBounds(Failed(e, b.clock)) /\ Failed(e, b.clock).failures = e.failures + 1
    <3>1. b.clock \in 1 .. MaxClock
      BY <1>2, <1>7
    <3> QED
      BY <1>2, <2>2, <3>1, FailedInBounds, FailedCounts
  <2>4. Spent(b.session) = 1
    BY <1>4, <1>5, <1>10 DEF CrashGuardInv, TurnHasSession, TurnCrashes
  <2>5. /\ c.clock = b.clock /\ c.spawns = b.spawns /\ c.entry = Failed(e, b.clock)
        /\ c.waits = b.waits /\ c.crashes \in {b.crashes, b.crashes + 1}
        /\ c.session = NoIdentity /\ c.late = b.late
    BY <1>1, <1>10, <2>1 DEF BreakerShape, TurnCrashes
  <2> QED
    BY <1>2, <1>7, <2>2, <2>3, <2>4, <2>5
<1>11. CASE TurnFailsOtherwise
  <2>1. /\ c.clock = b.clock /\ c.spawns = b.spawns /\ c.entry = b.entry /\ c.waits = b.waits
        /\ c.crashes = b.crashes /\ c.session = NoIdentity /\ c.late = b.late
    BY <1>1, <1>11 DEF BreakerShape, TurnFailsOtherwise
  <2> QED
    BY <1>2, <1>7, <2>1
<1>12. CASE StopGuarded \/ ForgetGuarded
  <2>1. /\ c.clock = b.clock /\ c.spawns = b.spawns /\ c.entry \in {b.entry, Fresh(NoIdentity)}
        /\ c.waits \in {b.waits, 0} /\ c.crashes \in {b.crashes, 0}
        /\ c.session = NoIdentity /\ c.late = b.turn
    BY <1>1, <1>12 DEF BreakerShape, StopGuarded, ForgetGuarded
  <2>2. Spent(b.turn) <= Spent(b.session) /\ Spent(b.turn) \in 0 .. 1
    BY <1>4 DEF CrashGuardInv, TurnHasSession, Spent
  <2>3. EntryInBounds(c.entry) /\ c.entry.failures <= b.entry.failures
    BY <1>1, <1>2, <1>4, <1>7, <2>1, EntriesInBounds
  <2> QED
    BY <1>2, <1>3, <1>7, <2>1, <2>2, <2>3
<1>13. CASE LateFailure
  <2>1. PICK e : e = EntryFor(b, b.late)
    OBVIOUS
  <2>2. EntryInBounds(e) /\ e.failures <= b.entry.failures /\ e \in GuardEntry /\ e.failures \in Nat
    BY <1>1, <1>4, <2>1, EntriesInBounds DEF GuardEntry
  <2>3. EntryInBounds(Failed(e, b.clock)) /\ Failed(e, b.clock).failures = e.failures + 1
    <3>1. b.clock \in 1 .. MaxClock
      BY <1>2, <1>7
    <3> QED
      BY <1>2, <2>2, <3>1, FailedInBounds, FailedCounts
  <2>4. Spent(b.late) = 1
    BY <1>4, <1>5, <1>13 DEF LateFailure
  <2>5. /\ c.clock = b.clock /\ c.spawns = b.spawns /\ c.entry \in {b.entry, Failed(e, b.clock)}
        /\ c.waits = b.waits /\ c.crashes = b.crashes
        /\ c.session = b.session /\ c.late = NoIdentity
    BY <1>1, <1>13, <2>1 DEF BreakerShape, LateFailure
  <2> QED
    BY <1>2, <1>7, <2>2, <2>3, <2>4, <2>5
<1>14. CASE EditProfile
  <2>1. /\ c.clock = b.clock /\ c.spawns = b.spawns /\ c.entry = b.entry /\ c.waits = 0
        /\ c.crashes = 0 /\ c.session = b.session /\ c.late = b.late
    BY <1>1, <1>14 DEF BreakerShape, EditProfile
  <2> QED
    BY <1>2, <1>7, <2>1
<1>15. CASE GuardTick
  <2>1. /\ c.clock = b.clock + 1 /\ c.spawns = b.spawns /\ c.entry = b.entry
        /\ c.waits \in {b.waits, b.waits + 1} /\ b.clock < MaxClock
        /\ c.crashes = b.crashes /\ c.session = b.session /\ c.late = b.late
    BY <1>1, <1>15 DEF BreakerShape, GuardTick
  <2> QED
    BY <1>2, <1>7, <2>1
<1>16. CASE UNCHANGED crashGuardVars
  <2>1. c = b
    BY <1>16 DEF crashGuardVars
  <2> QED
    BY <1>7, <2>1
<1> QED
  BY <1>8, <1>9, <1>10, <1>11, <1>12, <1>13, <1>14, <1>15, <1>16 DEF CrashGuardNext

LEMMA GuardTypes ==
  ASSUME CrashGuardInv, GuardBounds PROVE CrashGuardTypeOK
<1>1. BreakerShape
  BY DEF CrashGuardInv
<1>2. /\ breaker.entry \in GuardEntry /\ breaker.entry.failures \in Nat
      /\ breaker.entry.openUntil \in Nat /\ breaker.entry.cooldown \in Nat \ {0}
      /\ breaker.clock \in Nat \ {0} /\ breaker.spawns \in Nat /\ breaker.crashes \in Nat
      /\ breaker.waits \in Nat /\ Spent(breaker.session) \in 0 .. 1 /\ Spent(breaker.late) \in 0 .. 1
  BY <1>1, GuardNumbers DEF BreakerShape
<1>3. /\ breaker.entry.failures \in 0 .. MaxSpawns + 1
      /\ breaker.entry.openUntil \in 0 .. MaxClock + MaxCooldown
      /\ breaker.entry.cooldown \in BaseCooldown .. MaxCooldown
      /\ breaker.clock \in 1 .. MaxClock /\ breaker.spawns \in 0 .. MaxSpawns
      /\ breaker.crashes \in 0 .. MaxSpawns /\ breaker.waits \in 0 .. MaxClock
  BY <1>2, CrashGuardAssumption DEF GuardBounds, EntryInBounds
<1>4. PICK e : e = breaker.entry
  OBVIOUS
<1>5. e \in [identity : Identity \cup {NoIdentity}, failures : 0 .. MaxSpawns + 1,
             openUntil : 0 .. MaxClock + MaxCooldown, cooldown : BaseCooldown .. MaxCooldown]
  BY <1>2, <1>3, <1>4 DEF GuardEntry
<1> QED
  BY <1>1, <1>3, <1>4, <1>5 DEF BreakerShape, CrashGuardTypeOK
-----------------------------------------------------------------------------
(* The supervisor's flags and counts                                          *)

SupervisorFlags ==
  /\ expectRestart \in BOOLEAN /\ restartTimer \in BOOLEAN
  /\ shuttingDown \in BOOLEAN /\ ended \in BOOLEAN
SupervisorNumbers == crashes \in 0 .. MaxCrashes /\ changes \in 0 .. MaxChanges
SupervisorCounts == SupervisorFlags /\ SupervisorNumbers

LEMMA CountsStart == SupervisorInit => SupervisorCounts
<1>1. SupervisorInit => SupervisorFlags
  BY Zenon DEF SupervisorInit, SupervisorFlags
<1>2. SupervisorInit => crashes = 0 /\ changes = 0
  BY Zenon DEF SupervisorInit
<1>3. SupervisorInit => SupervisorNumbers
  BY <1>2, SupervisorAssumption DEF SupervisorNumbers
<1> QED
  BY <1>1, <1>3 DEF SupervisorCounts

LEMMA CountsKept ==
  ASSUME SupervisorCounts, [SupervisorNext]_supervisorVars PROVE SupervisorCounts'
<1>1. CASE UNCHANGED supervisorVars
  BY <1>1 DEF supervisorVars, SupervisorCounts, SupervisorFlags, SupervisorNumbers
<1>2. CASE FileChanges
  <2>1. SupervisorFlags'
    BY <1>2, Zenon DEF FileChanges, SupervisorCounts, SupervisorFlags
  <2>2. crashes' = crashes /\ changes < MaxChanges /\ changes' = changes + 1
    BY <1>2, Zenon DEF FileChanges
  <2> QED
    BY <2>1, <2>2, SupervisorAssumption DEF SupervisorCounts, SupervisorNumbers
<1>3. CASE RestartTimerFires \/ Shutdown \/ SupervisorEnds
  <2>1. SupervisorFlags'
    BY <1>3, Zenon DEF RestartTimerFires, Shutdown, SupervisorEnds, SupervisorCounts, SupervisorFlags
  <2>2. crashes' = crashes /\ changes' = changes
    BY <1>3, Zenon DEF RestartTimerFires, Shutdown, SupervisorEnds
  <2> QED
    BY <2>1, <2>2 DEF SupervisorCounts, SupervisorNumbers
<1>4. ASSUME NEW d \in Daemon, DaemonDies(d) \/ DaemonExits(d) \/ Killed(d)
      PROVE  SupervisorCounts'
  <2>1. SupervisorFlags'
    BY <1>4, Zenon DEF DaemonDies, DaemonExits, Killed, SupervisorCounts, SupervisorFlags
  <2>2. /\ crashes' = crashes \/ (crashes < MaxCrashes /\ crashes' = crashes + 1)
        /\ changes' = changes
    BY <1>4, Zenon DEF DaemonDies, DaemonExits, Killed
  <2> QED
    BY <2>1, <2>2, SupervisorAssumption DEF SupervisorCounts, SupervisorNumbers
<1> QED
  BY <1>1, <1>2, <1>3, <1>4 DEF SupervisorNext

LEMMA SupervisorTypes ==
  ASSUME SupervisorInv, SupervisorCounts PROVE SupervisorTypeOK
  BY DEF SupervisorInv, SupervisorShape, HeardAreGone, SupervisorCounts, SupervisorFlags,
         SupervisorNumbers, SupervisorTypeOK
-----------------------------------------------------------------------------
(* The parts of the daemon together                                           *)

LEMMA ClaudeTypes == ASSUME ClaudeInv PROVE ClaudeTypeOK
<1>1. claude \in ClaudeType /\ OnceEach(claude.queue)
  BY DEF ClaudeInv, ClaudeFits, PromptsFit
<1>2. claude.queue \in {q \in Seq(Prompt) : \A i, j \in DOMAIN q : q[i] = q[j] => i = j}
  <2>1. claude.queue \in Seq(Prompt)
    BY <1>1 DEF ClaudeType
  <2>2. DOMAIN claude.queue = 1 .. Len(claude.queue)
    BY <2>1
  <2> QED
    BY <1>1, <2>1, <2>2 DEF OnceEach
<1> QED
  BY <1>1, <1>2 DEF ClaudeType, ClaudeTypeOK

\* In the part a behaviour is about the daemon goes as that part goes alone, and the others
\* rest: what is proved of each part holds of the composition.
THEOREM DaemonPartsAreWhole ==
  DaemonSpec => /\ Spec /\ SarpSpec /\ ClaudeSpec /\ TurnGuardSpec
                /\ CrashGuardSpec /\ CostSpec /\ SupervisorSpec
<1>1. DaemonInit => /\ Init /\ SarpInit /\ ClaudeInit /\ TurnGuardInit
                    /\ CrashGuardInit /\ CostInit /\ SupervisorInit
  BY DEF DaemonInit
<1>2. [DaemonNext]_daemonParts => [Next]_vars
  BY DEF DaemonNext, daemonParts
<1>3. [DaemonNext]_daemonParts => [SarpNext]_ses
  BY DEF DaemonNext, daemonParts
<1>4. [DaemonNext]_daemonParts => [ClaudeNext]_claude
  BY DEF DaemonNext, daemonParts
<1>5. [DaemonNext]_daemonParts => [TurnGuardNext]_guardVars
  BY DEF DaemonNext, daemonParts
<1>6. [DaemonNext]_daemonParts => [CrashGuardNext]_crashGuardVars
  BY DEF DaemonNext, daemonParts
<1>7. [DaemonNext]_daemonParts => [CostNext]_costVars
  BY DEF DaemonNext, daemonParts
<1>8. [DaemonNext]_daemonParts => [SupervisorNext]_supervisorVars
  BY DEF DaemonNext, daemonParts
<1> QED
  BY <1>1, <1>2, <1>3, <1>4, <1>5, <1>6, <1>7, <1>8, PTL
     DEF DaemonSpec, Spec, SarpSpec, ClaudeSpec, TurnGuardSpec, CrashGuardSpec, CostSpec,
         SupervisorSpec

\* Every variable of the seven parts has its type, for all agents, sessions, turns, prices
\* and thresholds.
THEOREM DaemonTypesHold == DaemonSpec => []DaemonTypeOK
<1>1. CrashGuardInv /\ [CrashGuardNext]_crashGuardVars => CrashGuardInv'
  BY GuardGoesOn
<1>2. CrashGuardInv /\ GuardBounds /\ [CrashGuardNext]_crashGuardVars => GuardBounds'
  BY <1>1, BoundsKept
<1>3. SupervisorInv /\ [SupervisorNext]_supervisorVars => SupervisorInv'
  BY SupervisorGoesOn
<1>4. SupervisorCounts /\ [SupervisorNext]_supervisorVars => SupervisorCounts'
  BY CountsKept
<1>5. /\ TypeOK /\ SarpInv /\ ClaudeInv /\ GuardInv /\ CostInv
      /\ CrashGuardInv /\ GuardBounds /\ SupervisorInv /\ SupervisorCounts
      => DaemonTypeOK
  BY ClaudeTypes, GuardTypes, SupervisorTypes
     DEF DaemonTypeOK, SarpInv, SesType, SarpTypeOK, GuardInv, CostInv
<1> QED
  BY <1>1, <1>2, <1>3, <1>4, <1>5, DaemonPartsAreWhole, LifecycleTypeOK, SarpInvariantHolds,
     ClaudeInvariantHolds, GuardInvariantHolds, CostInvariantHolds, CrashGuardStarts,
     BoundsStart, SupervisorStarts, CountsStart, PTL
     DEF CrashGuardSpec, SupervisorSpec
=============================================================================
