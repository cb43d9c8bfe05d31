-------------------------------- MODULE MCDaemon --------------------------------
(* One run for the parts of the daemon that keep one agent going: its life cycle,     *)
(* the two session drivers, the guard around its turns, the breaker before its worker,   *)
(* what its turns cost, and the supervisor above all.                                     *)
(* They share no variable.  The part that a behaviour is about is chosen at its start     *)
(* and the others rest, so the state space is the sum of theirs and not the product.       *)
EXTENDS AgentLifecycle, SarpSession, ClaudeSession, TurnGuard, CrashGuard, CostLedger,
        Supervisor

VARIABLE part

daemonParts ==
  <<part, vars, ses, claude, guardVars, crashGuardVars, costVars, supervisorVars>>

DaemonInit ==
  /\ part \in {"lifecycle", "sarp", "claude", "guard", "breaker", "costs", "supervisor"}
  /\ Init /\ SarpInit /\ ClaudeInit /\ TurnGuardInit
  /\ CrashGuardInit /\ CostInit /\ SupervisorInit
  /\ claude.sessionId => part = "claude"

DaemonNext ==
  /\ UNCHANGED part
  /\ part # "lifecycle" => UNCHANGED vars
  /\ part # "sarp" => UNCHANGED ses
  /\ part # "claude" => UNCHANGED claude
  /\ part # "guard" => UNCHANGED guardVars
  /\ part # "breaker" => UNCHANGED crashGuardVars
  /\ part # "costs" => UNCHANGED costVars
  /\ part # "supervisor" => UNCHANGED supervisorVars
  /\ \/ part = "lifecycle" /\ Next
     \/ part = "sarp" /\ SarpNext
     \/ part = "claude" /\ ClaudeNext
     \/ part = "guard" /\ TurnGuardNext
     \/ part = "breaker" /\ CrashGuardNext
     \/ part = "costs" /\ CostNext
     \/ part = "supervisor" /\ SupervisorNext

\* the fairness of AgentLifecycle's FairSpec and SarpSession's SarpFairSpec
DaemonSpec ==
  /\ DaemonInit /\ [][DaemonNext]_daemonParts
  /\ Fairness
  /\ WF_ses(StopTimerExpires) /\ WF_ses(ExitEvent)
-----------------------------------------------------------------------------
(* Properties                                                                 *)

\* Every variable has its type.
DaemonTypeOK ==
  /\ TypeOK /\ SarpTypeOK /\ ClaudeTypeOK /\ TurnGuardTypeOK
  /\ CrashGuardTypeOK /\ CostTypeOK /\ SupervisorTypeOK

\* No call of send() is left without something that will answer it.
CallsAreHeld == SarpCallsAreHeld /\ ClaudeCallsAreHeld

\* What a worker has done is not thrown away and not done again.
WorkIsKept == CancelledKeepsTheWorker /\ RewrittenOnlyIfUnread

\* Both drivers are implementations of the one session the daemon relies on; no call is
\* left unanswered on the way, the work of a living worker is kept, and a session that is
\* told to stop comes to its end.
SessionsKeepTheirContract ==
  /\ SarpKeepsContract /\ ClaudeKeepsContract
  /\ StopCompletes
  /\ WorkIsKept
  /\ [][CallsAreHeld']_daemonParts
=============================================================================
