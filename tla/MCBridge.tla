-------------------------------- MODULE MCBridge --------------------------------
(* One run for four sides of a bridge agent: the messages that wake it, the turns of a  *)
(* conversation between the daemon and the worker processes, the graph thread a worker     *)
(* runs them on, and the prompts that wait for the owner.  They share no variable; a        *)
(* behaviour is about the side chosen at its start, so the state space is the sum of theirs. *)
EXTENDS BridgeTurn, GraphThread, Approvals, MessageWake

VARIABLE side

bridgeSides == <<side, vars, graphVars, approvalVars, wakeVars>>

FirstComputer == CHOOSE d \in Computer : TRUE

\* Everybody who has an agent has a computer and the other way round; the two computers are
\* connected to two instances, so that each can be the sender's own.  Which of them are called
\* the first makes no difference.
WakeStart ==
  /\ serving = Wakee /\ owner[Manager] \in MemberOwner
  /\ {owner[a] : a \in Wakee} = {owner[d] : d \in Computer}
  /\ owner[FirstComputer] = owner[Manager]
  /\ attached[FirstComputer] = CHOOSE i \in Instance : TRUE
  /\ \A d \in Computer \ {FirstComputer} : attached[d] # attached[FirstComputer]
  /\ channel.triage <=> channel.kind = "public"

WakeRests ==
  /\ seated = {} /\ \A a \in Wakee : owner[a] = owner[Manager]
  /\ channel.kind = "public"

BridgeInit ==
  /\ side \in {"messages", "turns", "graph", "prompts"}
  /\ Init /\ GraphInit /\ ApprovalsInit /\ WakeInit /\ WakeStart
  /\ side # "graph" => durable /\ thread = AllNew
  /\ side # "messages" => WakeRests

BridgeNext ==
  \/ side = "messages" /\ WakeNext /\ UNCHANGED <<side, vars, graphVars, approvalVars>>
  \/ side = "turns" /\ Next /\ UNCHANGED <<side, graphVars, approvalVars, wakeVars>>
  \/ side = "graph" /\ GraphNext /\ UNCHANGED <<side, vars, approvalVars, wakeVars>>
  \/ side = "prompts" /\ ApprovalsNext /\ UNCHANGED <<side, vars, graphVars, wakeVars>>

BridgeSpec == BridgeInit /\ [][BridgeNext]_bridgeSides
-----------------------------------------------------------------------------
\* Every variable has its type.
BridgeTypeOK == TypeOK /\ GraphTypeOK /\ ApprovalsTypeOK /\ WakeTypeOK
=============================================================================
