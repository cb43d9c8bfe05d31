------------------------------ MODULE Membership ------------------------------
(* Servers (here "orgs"), who belongs to them, their invites, and the agents and       *)
(* computers that live in them: packages/server/src/routes/orgs.ts and the parts of      *)
(* auth.ts, computers.ts and agents-public.ts that write the same tables.  A handler       *)
(* asks with one query and acts with another; only what it puts in one transaction or       *)
(* one conditional UPDATE is a single step.  Any request may fail between two steps.          *)
EXTENDS Integers, FiniteSets

CONSTANTS Account, Founder, Invite,         \* accounts, the first owner, invite tokens
          OrgAgent, Box,                    \* agents, machines
          OrgSlot,                          \* requests in flight
          Nothing,
          MaxOrgs, MaxOrgRequests, MaxSeats \* bounds: orgs ever, requests, seats of an invite

Org == 1 .. MaxOrgs                     \* numbered by created_at
Computer == Account \X Org \X Box       \* the unique (user, server, machine) of a row
InviteRow == [org : Org, seats : 0 .. MaxSeats, uses : Nat, open : BOOLEAN]
OrgAgentRow == [keeper : Account, org : Org \cup {Nothing}, computer : Computer \cup {Nothing}]

ASSUME MembershipAssumption ==
  /\ Founder \in Account /\ MaxOrgs \in Nat \ {0} /\ MaxOrgRequests \in Nat /\ MaxSeats \in Nat
  /\ Box # {}
  /\ Nothing \notin Account \cup Invite \cup OrgAgent \cup Org
  /\ Nothing \notin InviteRow \cup OrgAgentRow

VARIABLES
  lastOrg, orgs,      \* orgs made so far; those that exist
  ownerId, isPublic,  \* servers.owner_id, servers.is_public
  role,               \* server_members: <<account, org>> -> role, "none" without a row
  invites,            \* invites: token -> org, seats (0: unlimited), uses, open; Nothing
  orgAgents,          \* agents: keeper, server and computer, the server Nothing once
                      \* the row is gone; Nothing before: an id is used once
  computers,          \* rows of computers
  defaultOrg,         \* the cache of getDefaultServerId; Nothing: absent or expired
  orgsAsked,          \* requests so far
  orgReq,             \* slot -> the request and what it has read
  seated              \* history: token -> accounts it made members

orgVars == <<lastOrg, orgs, ownerId, isPublic, role, invites, orgAgents, computers,
             defaultOrg, orgsAsked, orgReq, seated>>

NoOrgRequest == [op |-> "none"]

\* the founder's machine has connected once and nobody else has come yet
MembershipInit ==
  /\ lastOrg = 1 /\ orgs = {1}
  /\ ownerId = [o \in Org |-> Founder] /\ isPublic = [o \in Org |-> o = 1]
  /\ role = [m \in Account \X Org |-> IF m = <<Founder, 1>> THEN "owner" ELSE "none"]
  /\ invites = [i \in Invite |-> Nothing]
  /\ orgAgents = [g \in OrgAgent |-> Nothing]
  /\ computers = {CHOOSE c \in Computer : c[1] = Founder /\ c[2] = 1}
  /\ defaultOrg = Nothing /\ orgsAsked = 0
  /\ orgReq = [q \in OrgSlot |-> NoOrgRequest]
  /\ seated = [i \in Invite |-> {}]
-----------------------------------------------------------------------------
(* What several handlers ask                                                 *)

IsOrgOwner(u, o) == o \in orgs /\ (role[<<u, o>>] = "owner" \/ ownerId[o] = u)

Earliest(S) == CHOOSE o \in S : \A p \in S : o <= p

\* the earliest public org, else the earliest
DefaultServer ==
  IF \E o \in orgs : isPublic[o] THEN Earliest({o \in orgs : isPublic[o]})
  ELSE IF orgs = {} THEN Nothing ELSE Earliest(orgs)

\* getDefaultServerId: the cache, or the table and then the cache
Cached == IF defaultOrg = Nothing THEN DefaultServer ELSE defaultOrg

IsInstanceAdmin(u) == orgs # {} /\ IsOrgOwner(u, DefaultServer)

\* a deleted agent has no org, and its id, a UUID, is not given to another
Lives(g) == orgAgents[g] # Nothing /\ orgAgents[g].org # Nothing

BoundTo(c) == {g \in OrgAgent : Lives(g) /\ orgAgents[g].computer = c}

tables == <<lastOrg, orgs, ownerId, isPublic, role, invites, orgAgents, computers, seated>>

AskOrg(q, r) == /\ orgReq[q] = NoOrgRequest /\ orgsAsked < MaxOrgRequests
             /\ orgsAsked' = orgsAsked + 1 /\ orgReq' = [orgReq EXCEPT ![q] = r]
Reads(q, r) == orgReq' = [orgReq EXCEPT ![q] = r] /\ UNCHANGED orgsAsked
Ends(q) == Reads(q, NoOrgRequest)

\* one row more, unless there is one (ON CONFLICT DO NOTHING); its org must exist
Joined(u, o, as) == IF role[<<u, o>>] = "none" THEN [role EXCEPT ![<<u, o>>] = as] ELSE role
-----------------------------------------------------------------------------
(* The first query of a request                                              *)

\* the operations isOrgOwner stands before
AskAsOwner(q) ==
  \E u \in Account, o \in orgs :
    /\ IsOrgOwner(u, o)
    /\ \/ \E x \in Account \ {u} : AskOrg(q, [op |-> "transfer", who |-> u, org |-> o, to |-> x])
       \/ \E x \in Account, op \in {"add", "remove"} : AskOrg(q, [op |-> op, org |-> o, to |-> x])
       \/ \E x \in Account, as \in {"member", "admin"} :
            AskOrg(q, [op |-> "role", org |-> o, to |-> x, as |-> as])
       \/ \E i \in Invite, n \in 0 .. MaxSeats :
            /\ invites[i] = Nothing
            /\ AskOrg(q, [op |-> "invite", org |-> o, token |-> i, seats |-> n])
       \/ \E i \in Invite : AskOrg(q, [op |-> "revoke", org |-> o, token |-> i])
       \/ \E g \in OrgAgent, c \in computers :
            /\ orgAgents[g] = Nothing /\ c[1] = u /\ c[2] = o
            /\ AskOrg(q, [op |-> "agent", agent |-> g, computer |-> c])
       \/ \E g \in OrgAgent :
            /\ Lives(g) /\ orgAgents[g].org = o
            /\ AskOrg(q, [op |-> "kick", org |-> o, agent |-> g, keeper |-> orgAgents[g].keeper])
    /\ UNCHANGED <<tables, defaultOrg>>

\* deleting also asks for the default server, which must not go
AskDelete(q) ==
  \E u \in Account, o \in orgs :
    /\ IsOrgOwner(u, o) /\ Cached # o
    /\ AskOrg(q, [op |-> "delete", org |-> o])
    /\ defaultOrg' = Cached /\ UNCHANGED tables

\* is_public is the instance admin's to turn
AskVisibility(q) ==
  \E u \in Account, o \in Org, b \in BOOLEAN :
    /\ IsInstanceAdmin(u) /\ AskOrg(q, [op |-> "visibility", org |-> o, public |-> b])
    /\ UNCHANGED <<tables, defaultOrg>>

\* whoever owns the org must transfer or delete it instead
AskLeave(q) ==
  \E u \in Account, o \in orgs :
    /\ role[<<u, o>>] \notin {"none", "owner"} /\ ownerId[o] # u
    /\ AskOrg(q, [op |-> "leave", org |-> o, to |-> u])
    /\ UNCHANGED <<tables, defaultOrg>>

\* a public org is open to everybody; only members' machines are kept
AskJoin(q) ==
  \E u \in Account, o \in orgs :
    /\ \/ isPublic[o] /\ role[<<u, o>>] = "none" /\ AskOrg(q, [op |-> "add", org |-> o, to |-> u])
       \/ \E b \in Box :
            role[<<u, o>>] # "none" /\ AskOrg(q, [op |-> "ready", computer |-> <<u, o, b>>])
    /\ UNCHANGED <<tables, defaultOrg>>

\* accepting an invite: a member of its org is let through and uses no seat
AskAccept(q) ==
  \E u \in Account, i \in Invite :
    /\ invites[i] # Nothing
    /\ invites[i].open => role[<<u, invites[i].org>>] = "none"
    /\ AskOrg(q, [op |-> "accept", token |-> i, to |-> u])
    /\ UNCHANGED <<tables, defaultOrg>>

\* a machine that no agent is bound to may be deleted
AskForget(q) ==
  \E c \in computers :
    /\ BoundTo(c) = {} /\ AskOrg(q, [op |-> "forget", computer |-> c])
    /\ UNCHANGED <<tables, defaultOrg>>
-----------------------------------------------------------------------------
(* What a request reads after that                                           *)

\* the transaction of a transfer reads the role the target has
ReadTarget(q) ==
  LET r == orgReq[q] IN
  /\ r.op = "transfer" /\ role[<<r.to, r.org>>] # "none"
  /\ Reads(q, [op |-> "promote", who |-> r.who, org |-> r.org, to |-> r.to,
               was |-> role[<<r.to, r.org>>]])
  /\ UNCHANGED <<tables, defaultOrg>>

OwnMachines(u, o) == {c \in computers : c[1] = u /\ c[2] = o}

\* an agent that is put out goes to an org its keeper owns, first one with a machine of theirs
ReadHome(q) ==
  LET r == orgReq[q]
      homes == {o \in orgs : r.op = "kick" /\ o # r.org /\ role[<<r.keeper, o>>] = "owner"}
      best == {o \in homes : \A p \in homes :
                 Cardinality(OwnMachines(r.keeper, p)) <= Cardinality(OwnMachines(r.keeper, o))} IN
  /\ r.op = "kick" /\ homes # {}
  /\ Reads(q, [op |-> "rehome", agent |-> r.agent, keeper |-> r.keeper, home |-> Earliest(best)])
  /\ UNCHANGED <<tables, defaultOrg>>

\* ... and is bound there if the keeper has exactly one machine
ReadMachines(q) ==
  LET r == orgReq[q] IN
  /\ r.op = "rehome"
  /\ LET own == OwnMachines(r.keeper, r.home) IN
     Reads(q, [op |-> "move", agent |-> r.agent, home |-> r.home,
               computer |-> IF Cardinality(own) = 1 THEN CHOOSE c \in own : TRUE ELSE Nothing])
  /\ UNCHANGED <<tables, defaultOrg>>
-----------------------------------------------------------------------------
(* What a request does                                                       *)

\* POST /orgs: server, owner row and private channel in one transaction
CreateOrg ==
  \E u \in Account :
    /\ lastOrg < MaxOrgs /\ lastOrg' = lastOrg + 1 /\ orgs' = orgs \cup {lastOrg + 1}
    /\ ownerId' = [ownerId EXCEPT ![lastOrg + 1] = u]
    /\ role' = [role EXCEPT ![<<u, lastOrg + 1>>] = "owner"]
    /\ UNCHANGED <<isPublic, invites, orgAgents, computers, defaultOrg, orgsAsked, orgReq, seated>>

MembersOnly == UNCHANGED <<lastOrg, orgs, isPublic, orgAgents, computers, defaultOrg>>

\* a plausible fault: the promotion is taken for granted
PromoteUnseen(q) ==
  LET r == orgReq[q] IN
  /\ r.op = "promote" /\ r.org \in orgs
  /\ ownerId' = [ownerId EXCEPT ![r.org] = r.to]
  /\ role' = [m \in DOMAIN role |->
                IF m = <<r.to, r.org>> /\ role[m] # "none" THEN "owner"
                ELSE IF m = <<r.who, r.org>> /\ role[m] = "owner" THEN "member" ELSE role[m]]
  /\ Ends(q) /\ UNCHANGED <<invites, seated>> /\ MembersOnly

\* the target becomes owner if it still is a member, and the two swap roles
Promote(q) ==
  LET r == orgReq[q] IN
  /\ r.op = "promote" /\ role[<<r.to, r.org>>] # "none"
  /\ ownerId' = [ownerId EXCEPT ![r.org] = r.to]
  /\ role' = [m \in DOMAIN role |->
                IF m = <<r.to, r.org>> THEN "owner"
                ELSE IF m = <<r.who, r.org>> /\ role[m] = "owner"
                THEN IF r.was = "owner" THEN "member" ELSE r.was
                ELSE role[m]]
  /\ Ends(q) /\ UNCHANGED <<invites, seated>> /\ MembersOnly

\* members are added, removed and given roles; an owner row is out of reach, but not for leave
ChangeMember(q) ==
  LET r == orgReq[q] IN
  /\ \/ r.op = "add" /\ r.org \in orgs /\ role' = Joined(r.to, r.org, "member")
     \/ /\ r.op = "remove"
        /\ role' = [role EXCEPT ![<<r.to, r.org>>] = IF @ = "owner" THEN @ ELSE "none"]
     \/ r.op = "leave" /\ role' = [role EXCEPT ![<<r.to, r.org>>] = "none"]
     \/ /\ r.op = "role"
        /\ role' = [role EXCEPT ![<<r.to, r.org>>] = IF @ \in {"owner", "none"} THEN @ ELSE r.as]
  /\ Ends(q) /\ UNCHANGED <<ownerId, invites, seated>> /\ MembersOnly

\* an invite is made or revoked
ChangeInvite(q) ==
  LET r == orgReq[q] IN
  /\ \/ /\ r.op = "invite" /\ r.org \in orgs /\ invites[r.token] = Nothing
        /\ invites' = [invites EXCEPT ![r.token] =
                         [org |-> r.org, seats |-> r.seats, uses |-> 0, open |-> TRUE]]
     \/ /\ r.op = "revoke" /\ invites[r.token] # Nothing /\ invites[r.token].org = r.org
        /\ invites' = [invites EXCEPT ![r.token].open = FALSE]
  /\ Ends(q) /\ UNCHANGED <<ownerId, role, seated>> /\ MembersOnly

\* a plausible fault: the seat was looked at with the first query
HasSeatOnce(i) == invites[i] # Nothing /\ invites[i].open

HasSeat(i) == /\ invites[i] # Nothing /\ invites[i].open
              /\ invites[i].seats = 0 \/ invites[i].uses < invites[i].seats

TakeSeat(i, u) ==
  /\ HasSeat(i)
  /\ invites' = [invites EXCEPT ![i].uses = @ + 1]
  /\ role' = Joined(u, invites[i].org, "member")
  /\ seated' = [seated EXCEPT ![i] = IF role' = role THEN @ ELSE @ \cup {u}]

\* the seat is taken by one conditional UPDATE, and the member row written with it
AcceptInvite(q) == /\ orgReq[q].op = "accept" /\ TakeSeat(orgReq[q].token, orgReq[q].to)
             /\ Ends(q) /\ UNCHANGED ownerId /\ MembersOnly

\* registering takes a seat in the same way and then joins the default server; an account
\* without any row stands for a new one
RegisterAccount(q) ==
  \E u \in Account :
    /\ \A o \in Org : role[<<u, o>>] = "none" /\ ownerId[o] # u
    /\ \/ \E i \in Invite : TakeSeat(i, u)
       \/ UNCHANGED <<invites, role, seated>>
    /\ Cached # Nothing /\ defaultOrg' = Cached
    /\ AskOrg(q, [op |-> "add", org |-> Cached, to |-> u])
    /\ UNCHANGED <<lastOrg, orgs, ownerId, isPublic, orgAgents, computers>>

TurnVisibility(q) ==
  LET r == orgReq[q] IN
  /\ r.op = "visibility" /\ r.org \in orgs
  /\ isPublic' = [isPublic EXCEPT ![r.org] = r.public] /\ defaultOrg' = Nothing
  /\ Ends(q)
  /\ UNCHANGED <<lastOrg, orgs, ownerId, role, invites, orgAgents, computers, seated>>

\* machines come and go; a row an agent names cannot be deleted (23503)
ChangeComputer(q) ==
  LET r == orgReq[q] IN
  /\ \/ r.op = "ready" /\ r.computer[2] \in orgs /\ computers' = computers \cup {r.computer}
     \/ /\ r.op = "forget" /\ BoundTo(r.computer) = {}
        /\ computers' = computers \ {r.computer}
  /\ Ends(q)
  /\ UNCHANGED <<lastOrg, orgs, ownerId, isPublic, role, invites, orgAgents, defaultOrg, seated>>

\* an agent is created, or moved to the home that was found; what it names must exist (23503)
ChangeAgent(q) ==
  LET r == orgReq[q] IN
  /\ \/ /\ r.op = "agent" /\ r.computer \in computers /\ orgAgents[r.agent] = Nothing
        /\ orgAgents' = [orgAgents EXCEPT ![r.agent] =
                        [keeper |-> r.computer[1], org |-> r.computer[2], computer |-> r.computer]]
     \/ /\ r.op = "move" /\ Lives(r.agent) /\ r.home \in orgs
        /\ r.computer \in computers \cup {Nothing}
        /\ orgAgents' = [orgAgents EXCEPT ![r.agent] =
                        [@ EXCEPT !.org = r.home, !.computer = r.computer]]
  /\ Ends(q)
  /\ UNCHANGED <<lastOrg, orgs, ownerId, isPublic, role, invites, computers, defaultOrg, seated>>

\* one transaction: agents elsewhere lose the machines of the org, then all of it goes
DeleteOrg(q) ==
  LET r == orgReq[q]
      gone == IF r.op = "delete" THEN {c \in computers : c[2] = r.org} ELSE {} IN
  /\ r.op = "delete" /\ r.org \in orgs /\ orgs' = orgs \ {r.org}
  /\ computers' = computers \ gone
  /\ orgAgents' = [g \in OrgAgent |->
       IF ~Lives(g) THEN orgAgents[g]
       ELSE IF orgAgents[g].org = r.org
       THEN [orgAgents[g] EXCEPT !.org = Nothing, !.computer = Nothing]
       ELSE IF orgAgents[g].computer \in gone THEN [orgAgents[g] EXCEPT !.computer = Nothing]
       ELSE orgAgents[g]]
  /\ role' = [m \in DOMAIN role |-> IF m[2] = r.org THEN "none" ELSE role[m]]
  /\ invites' = [i \in Invite |->
       IF invites[i] # Nothing /\ invites[i].org = r.org THEN Nothing ELSE invites[i]]
  /\ seated' = [i \in Invite |-> IF invites'[i] = Nothing THEN {} ELSE seated[i]]
  /\ Ends(q) /\ UNCHANGED <<lastOrg, ownerId, isPublic, defaultOrg>>

\* a request that is refused at its second step, loses its connection or is rolled back
Fails(q) == orgReq[q] # NoOrgRequest /\ Ends(q) /\ UNCHANGED <<tables, defaultOrg>>

\* sixty seconds pass; an invite's time is over
CacheExpires ==
  defaultOrg # Nothing /\ defaultOrg' = Nothing /\ UNCHANGED <<tables, orgsAsked, orgReq>>

InviteExpires ==
  \E i \in Invite :
    /\ invites[i] # Nothing /\ invites[i].open /\ invites' = [invites EXCEPT ![i].open = FALSE]
    /\ UNCHANGED <<lastOrg, orgs, ownerId, isPublic, role, orgAgents, computers, defaultOrg,
                   orgsAsked, orgReq, seated>>

MembershipNext ==
  \/ CreateOrg \/ CacheExpires \/ InviteExpires
  \/ \E q \in OrgSlot :
       \/ AskAsOwner(q) \/ AskDelete(q) \/ AskVisibility(q) \/ AskLeave(q) \/ AskJoin(q)
       \/ AskAccept(q) \/ AskForget(q) \/ RegisterAccount(q)
       \/ ReadTarget(q) \/ ReadHome(q) \/ ReadMachines(q)
       \/ Promote(q) \/ ChangeMember(q) \/ ChangeInvite(q) \/ AcceptInvite(q) \/ TurnVisibility(q)
       \/ ChangeComputer(q) \/ ChangeAgent(q) \/ DeleteOrg(q) \/ Fails(q)

MembershipSpec == MembershipInit /\ [][MembershipNext]_orgVars
-----------------------------------------------------------------------------
(* Properties                                                                 *)

MembershipTypeOK ==
  /\ lastOrg \in Org /\ orgs \subseteq Org
  /\ ownerId \in [Org -> Account] /\ isPublic \in [Org -> BOOLEAN]
  /\ role \in [Account \X Org -> {"none", "member", "admin", "owner"}]
  /\ \A i \in Invite : invites[i] = Nothing
       \/ invites[i] \in InviteRow
  /\ computers \subseteq Computer /\ defaultOrg \in Org \cup {Nothing}
  /\ \A g \in OrgAgent : orgAgents[g] = Nothing
       \/ orgAgents[g] \in OrgAgentRow
  /\ orgsAsked \in 0 .. MaxOrgRequests /\ seated \in [Invite -> SUBSET Account]

\* An invite admits no more accounts than it has seats, whoever accepts or registers with it
\* at the same time; each account it made a member used one of them.
SeatsAreCounted ==
  \A i \in Invite : invites[i] # Nothing =>
    /\ Cardinality(seated[i]) <= invites[i].uses
    /\ invites[i].seats # 0 => invites[i].uses <= invites[i].seats

\* An agent that is bound is bound to its keeper's machine in the org it lives in, whatever
\* is put out, deleted or registered meanwhile.
AgentsAreAtHome ==
  \A g \in OrgAgent : Lives(g) =>
    /\ orgAgents[g].org \in orgs
    /\ orgAgents[g].computer # Nothing =>
         /\ orgAgents[g].computer \in OwnMachines(orgAgents[g].keeper, orgAgents[g].org)

\* An org is handed over only to an account that is a member at that moment, and its
\* owner row says so.
HandoverReachesAMember ==
  [][\A o \in orgs \cap orgs' : ownerId'[o] # ownerId[o] =>
        role[<<ownerId'[o], o>>] # "none" /\ role'[<<ownerId'[o], o>>] = "owner"]_orgVars

MembershipIsSound == SeatsAreCounted /\ AgentsAreAtHome

\* A transfer leaves one owner row.  Two transfers of one owner to different members, both
\* past isOrgOwner, leave two.
OneOwnerRow ==
  \A o \in orgs : Cardinality({u \in Account : role[<<u, o>>] = "owner"}) <= 1

\* The owner of an org is a member of it.  A transfer to a member whose leave is past its
\* check makes an owner who is not.
OwnersBelong == \A o \in orgs : role[<<ownerId[o], o>>] = "owner"

\* A public org is not deleted.  The second public org is.
PublicOrgsStay == [][\A o \in orgs \ orgs' : ~isPublic[o]]_orgVars
=============================================================================
