------------------------------- MODULE CrashGuard -------------------------------
(* The breaker that keeps a daemon from starting a broken worker for every message.   *)
(* It counts consecutive failures of one agent under one resolved profile, refuses to   *)
(* start a worker while it is open, and opens for longer each time.  A dispatch that      *)
(* finds a session asks nothing; one that was stopped may still fail late.                 *)
EXTENDS Integers

CONSTANTS
  Identity,      \* resolved profiles: runtime, entrypoint, model and manifest revision
  NoIdentity,
  Threshold, BaseCooldown, MaxCooldown,
  MaxClock, MaxSpawns     \* bounds

ASSUME CrashGuardAssumption ==
  /\ Identity # {} /\ NoIdentity \notin Identity /\ Threshold \in Nat \ {0}
  /\ BaseCooldown \in Nat \ {0} /\ MaxCooldown \in Nat /\ BaseCooldown <= MaxCooldown
  /\ MaxClock \in Nat \ {0} /\ MaxSpawns \in Nat

VARIABLE breaker

crashGuardVars == <<breaker>>

\* The guard's entry of the agent, its configuration, session and dispatch, the clock.
CrashGuardTypeOK ==
  breaker \in [entry : [identity : Identity \cup {NoIdentity}, failures : 0 .. MaxSpawns + 1,
                        openUntil : 0 .. MaxClock + MaxCooldown,
                        cooldown : BaseCooldown .. MaxCooldown],
               config : Identity,
               session : Identity \cup {NoIdentity},    \* persistentSessions
               turn : Identity \cup {NoIdentity},       \* a dispatch past the guard
               late : Identity \cup {NoIdentity},       \* one whose agent was stopped
               clock : 1 .. MaxClock, spawns : 0 .. MaxSpawns,
               crashes : 0 .. MaxSpawns,      \* history: of this configuration, in a row
               waits : 0 .. MaxClock,         \* history: cool-downs it sat out
               mixed : BOOLEAN]               \* history: two profiles wrote to the entry

Fresh(i) == [identity |-> i, failures |-> 0, openUntil |-> 0, cooldown |-> BaseCooldown]

CrashGuardInit ==
  breaker = [entry |-> Fresh(NoIdentity), config |-> CHOOSE i \in Identity : TRUE,
             session |-> NoIdentity, turn |-> NoIdentity, late |-> NoIdentity, clock |-> 1,
             spawns |-> 0, crashes |-> 0, waits |-> 0, mixed |-> FALSE]
-----------------------------------------------------------------------------
(* The guard                                                                  *)

\* another identity is another configuration: the count starts anew
EntryFor(b, i) == IF b.entry.identity = i THEN b.entry ELSE Fresh(i)

Blocked(entry, now) == entry.openUntil > 0 /\ entry.openUntil > now

Smaller(x, y) == IF x < y THEN x ELSE y

\* a plausible fault: opens once, at the threshold, and never again
FailedOnce(entry, now) ==
  IF entry.failures + 1 = Threshold /\ entry.openUntil <= now
  THEN [entry EXCEPT !.failures = @ + 1, !.openUntil = now + entry.cooldown,
                     !.cooldown = Smaller(2 * @, MaxCooldown)]
  ELSE [entry EXCEPT !.failures = @ + 1]

\* recordFailure of a code that counts
Failed(entry, now) ==
  IF entry.failures + 1 >= Threshold /\ entry.openUntil <= now
  THEN [entry EXCEPT !.failures = @ + 1, !.openUntil = now + entry.cooldown,
                     !.cooldown = Smaller(2 * @, MaxCooldown)]
  ELSE [entry EXCEPT !.failures = @ + 1]
-----------------------------------------------------------------------------
(* The dispatches that use it                                                 *)

\* a session of another profile is dropped; only a dispatch without one asks the guard
DispatchOrRefuse ==
  LET b == breaker
      entry == EntryFor(b, b.config)
  IN  /\ b.turn = NoIdentity
      /\ IF b.session = b.config THEN breaker' = [b EXCEPT !.turn = b.config]
         ELSE IF Blocked(entry, b.clock)
         THEN breaker' = [b EXCEPT !.session = NoIdentity, !.entry = entry]
         ELSE /\ b.spawns < MaxSpawns
              /\ breaker' = [b EXCEPT !.spawns = @ + 1, !.entry = entry, !.turn = b.config,
                                      !.session = b.config]

TurnSucceeds ==
  /\ breaker.turn # NoIdentity
  /\ breaker' = [breaker EXCEPT !.turn = NoIdentity, !.entry = Fresh(breaker.turn),
                                !.crashes = 0, !.waits = 0]

\* the worker could not be started, died, fell silent or broke the protocol
TurnCrashes ==
  LET b == breaker
  IN  /\ b.turn # NoIdentity
      /\ breaker' = [b EXCEPT !.turn = NoIdentity, !.session = NoIdentity,
                              !.entry = Failed(EntryFor(b, b.turn), b.clock),
                              !.crashes = IF b.turn = b.config THEN @ + 1 ELSE @,
                              !.mixed = @ \/ b.turn # b.config]

\* a provider's or a graph's failure does not count, but the session goes
TurnFailsOtherwise ==
  /\ breaker.turn # NoIdentity
  /\ breaker' = [breaker EXCEPT !.turn = NoIdentity, !.session = NoIdentity]

\* the agent is stopped; what its dispatch was doing ends later
StopGuarded ==
  /\ breaker.late = NoIdentity
  /\ breaker' = [breaker EXCEPT !.turn = NoIdentity, !.session = NoIdentity,
                                !.late = breaker.turn]

\* unregistered: the guard forgets the agent as well
ForgetGuarded ==
  /\ breaker.late = NoIdentity
  /\ breaker' = [breaker EXCEPT !.turn = NoIdentity, !.session = NoIdentity,
                                !.late = breaker.turn, !.entry = Fresh(NoIdentity),
                                !.crashes = 0, !.waits = 0, !.mixed = FALSE]

\* a worker stopped before it was ready counts as one that exited
LateFailure ==
  LET b == breaker
  IN  /\ b.late # NoIdentity
      /\ \/ breaker' = [b EXCEPT !.late = NoIdentity]
         \/ /\ b.entry.failures <= MaxSpawns
            /\ breaker' = [b EXCEPT !.late = NoIdentity,
                                    !.entry = Failed(EntryFor(b, b.late), b.clock),
                                    !.mixed = @ \/ b.late # b.config]

EditProfile ==
  \E i \in Identity \ {breaker.config} :
    breaker' = [breaker EXCEPT !.config = i, !.crashes = 0, !.waits = 0,
                               !.mixed = breaker.turn # NoIdentity \/ breaker.late # NoIdentity]

GuardTick ==
  LET b == breaker
  IN  /\ b.clock < MaxClock
      /\ breaker' = [b EXCEPT !.clock = @ + 1,
                              !.waits = IF b.entry.openUntil = b.clock + 1 THEN @ + 1 ELSE @]

CrashGuardNext ==
  \/ DispatchOrRefuse \/ TurnSucceeds \/ TurnCrashes \/ TurnFailsOtherwise \/ StopGuarded
  \/ ForgetGuarded \/ LateFailure \/ EditProfile \/ GuardTick

CrashGuardSpec == CrashGuardInit /\ [][CrashGuardNext]_crashGuardVars
-----------------------------------------------------------------------------
(* Properties                                                                 *)

\* A worker that keeps crashing is started Threshold times, and then once for each
\* cool-down that was sat out, however its agent is stopped and its profile edited.
RespawnsSlowDown ==
  ~breaker.mixed => breaker.crashes <= Threshold + breaker.waits
=============================================================================
