---------------------------- MODULE SessionContract ----------------------------
(* What the daemon's dispatcher may rely on whichever driver it talks to          *)
(* (AgentRuntimeSession of agent-runtime-driver.ts): every send() is a turn that   *)
(* is settled at most once, turns run one at a time, and only a turn that runs can  *)
(* succeed.  Both session drivers are shown to implement it.                       *)

CONSTANT Send     \* the calls of send()
VARIABLE call     \* what the caller's promise shows

CallState == {"unsent", "waiting", "open", "resolved", "rejected"}
Settled == {"resolved", "rejected"}

ContractInit == call = [c \in Send |-> "unsent"]

\* how one call may change in one step; an open turn may go back to wait when the
\* process it was written to turns out never to have opened the conversation
Moves ==
  {<<"unsent", "waiting">>, <<"unsent", "open">>, <<"unsent", "rejected">>,
   <<"waiting", "open">>, <<"waiting", "rejected">>,
   <<"open", "waiting">>, <<"open", "resolved">>, <<"open", "rejected">>}

\* A step takes each call at most one move, and leaves at most one turn running
ContractStep ==
  /\ call' \in [Send -> CallState]
  /\ \A c \in Send : call'[c] = call[c] \/ <<call[c], call'[c]>> \in Moves
  /\ \A c, d \in Send : call'[c] = "open" /\ call'[d] = "open" => c = d

ContractSpec == ContractInit /\ [][ContractStep]_call
=============================================================================
