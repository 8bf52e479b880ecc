-------------------------------- MODULE Rib --------------------------------
(***************************************************************************)
(* Agent and base-station bookkeeping of the RIB (src/rib/rib.cc) under    *)
(* the message handlers that drive it (src/rib/rib_updater.cc): the task   *)
(* manager's thread takes the messages of all agents from one queue and    *)
(* runs each handler to its end, so a handler is one action.               *)
(*                                                                         *)
(* An agent announces the BS it belongs to and its capabilities in a       *)
(* hello.  It is pending until the pending agents of that BS provide every *)
(* required capability; then the BS is created and its agents registered.  *)
(* When one of them disconnects the BS is removed and the others go back   *)
(* to pending.                                                             *)
(***************************************************************************)
EXTENDS Integers, FiniteSets

CONSTANTS
  Agent,         \* session numbers handed out by connection_manager
  WireBs,        \* non-zero BS identifiers agents put into a hello
  Cap,           \* flex_bs_capability
  Required,      \* the eight capabilities of is_complete(); S1AP is optional
  BS_ID_OFFSET,  \* offset for agents that announce the illegal BS ID 0
  Disciplined    \* TRUE: at most one hello per session and none after its
                 \* disconnect; FALSE: hellos and disconnects in any order

ASSUME AgentAssumption ==
  Agent \subseteq Nat /\ BS_ID_OFFSET \in Nat \ {0}
ASSUME WireBsAssumption == WireBs \subseteq Nat \ {0}
ASSUME CapAssumption == Required \subseteq Cap /\ Required # {}
ASSUME DisciplinedAssumption == Disciplined \in BOOLEAN

VARIABLES
  pending_agents,  \* Rib::pending_agents_, a set of agent_info
  agent_configs,   \* Rib::agent_configs_, the agent_info by agent or NoInfo
  eNB_configs,     \* Rib::eNB_configs_, the agents of each BS, {} if no entry
  bs_list,         \* the BSs bs_add_ has announced and bs_remove_ not withdrawn
  released,        \* the sessions release_connection() was called for
  conn,            \* per session: "none", "open" (connection message handled)
                   \* or "gone" (its disconnect message handled)
  helloed,         \* the sessions a hello was handled for
  aborted          \* an exception left the updater or an end() iterator was
                   \* dereferenced: the process is lost

ribVars == <<pending_agents, agent_configs, eNB_configs, bs_list>>
vars == <<ribVars, released, conn, helloed, aborted>>
-----------------------------------------------------------------------------
Bs == WireBs \cup {BS_ID_OFFSET + a : a \in Agent}

\* agent_info: the constructor refuses an empty set of capabilities.
Info == [agent_id : Agent, bs_id : Bs, capabilities : (SUBSET Cap) \ {{}}]

NoInfo == [agent_id |-> -1, bs_id |-> 0, capabilities |-> {}]

TypeOK ==
  /\ pending_agents \subseteq Info
  /\ agent_configs \in [Agent -> Info \cup {NoInfo}]
  /\ eNB_configs \in [Bs -> SUBSET Info]
  /\ bs_list \subseteq Bs
  /\ released \subseteq Agent
  /\ conn \in [Agent -> {"none", "open", "gone"}]
  /\ helloed \subseteq Agent
  /\ aborted \in BOOLEAN

\* agent_capabilities::orthogonal, ::is_complete after ::merge_in of all
orthogonal(i, j) == i.capabilities \cap j.capabilities = {}

is_complete(S) == Required \subseteq UNION {i.capabilities : i \in S}

has_eNB_config_entry(b) == eNB_configs[b] # {}

agent_is_pending(a) == \E p \in pending_agents : p.agent_id = a

\* 0 for an agent that is not registered
get_bs_id(a) == agent_configs[a].bs_id

\* The agent is known to the RIB under some entry.
Known(a) ==
  \/ agent_is_pending(a)
  \/ agent_configs[a] # NoInfo
  \/ \E b \in Bs : \E m \in eNB_configs[b] : m.agent_id = a
-----------------------------------------------------------------------------
(***************************************************************************)
(* Operations of class Rib                                                 *)
(***************************************************************************)

\* The checks of add_pending_agent().
MayBePending(ai) ==
  /\ ai.bs_id # 0
  /\ ai.capabilities # {}
  /\ ~agent_is_pending(ai.agent_id)
  /\ \A p \in pending_agents : p.bs_id = ai.bs_id => orthogonal(p, ai)

Ids(S) == {i.agent_id : i \in S}

\* std::map::emplace of every agent of S: an existing entry stays.
EmplaceAgents(S) ==
  [a \in Agent |->
     IF agent_configs[a] = NoInfo /\ a \in Ids(S)
     THEN CHOOSE i \in S : i.agent_id = a
     ELSE agent_configs[a]]

EraseAgents(S) ==
  [a \in Agent |-> IF a \in Ids(S) THEN NoInfo ELSE agent_configs[a]]

Overlapping(S) == \E i, j \in S : i # j /\ ~orthogonal(i, j)

\* Mutant: the BS is created whether its agents are complete or not.
MutAddIncomplete(ai) ==
  LET agents == {p \in pending_agents \cup {ai} : p.bs_id = ai.bs_id}
  IN  /\ pending_agents' = (pending_agents \cup {ai}) \ agents
      /\ agent_configs' = EmplaceAgents(agents)
      /\ eNB_configs' = [eNB_configs EXCEPT ![ai.bs_id] = agents]
      /\ bs_list' = bs_list \cup {ai.bs_id}
      /\ UNCHANGED aborted

\* Mutant: the case of a single complete agent is forgotten.
MutAddNeverAlone(ai) ==
  LET agents == {p \in pending_agents \cup {ai} : p.bs_id = ai.bs_id}
      new    == Cardinality(agents) > 1 /\ is_complete(agents)
  IN  /\ pending_agents' = (pending_agents \cup {ai}) \ IF new THEN agents ELSE {}
      /\ agent_configs' = IF new THEN EmplaceAgents(agents) ELSE agent_configs
      /\ eNB_configs' =
           IF new THEN [eNB_configs EXCEPT ![ai.bs_id] = agents] ELSE eNB_configs
      /\ bs_list' = IF new THEN bs_list \cup {ai.bs_id} ELSE bs_list
      /\ UNCHANGED aborted

\* add_pending_agent() succeeded; new_eNB_config_entry() for the agent's BS.
\* It throws on overlapping capabilities, and creates nothing if the BS
\* exists or is not complete.
AddAgent(ai) ==
  LET b      == ai.bs_id
      added  == pending_agents \cup {ai}
      agents == {p \in added : p.bs_id = b}
      new    == /\ ~has_eNB_config_entry(b)
                /\ ~Overlapping(agents)
                /\ is_complete(agents)
  IN  /\ aborted' = (~has_eNB_config_entry(b) /\ Overlapping(agents))
      /\ pending_agents' = IF new THEN added \ agents ELSE added
      /\ agent_configs' = IF new THEN EmplaceAgents(agents) ELSE agent_configs
      /\ eNB_configs' =
           IF new THEN [eNB_configs EXCEPT ![b] = agents] ELSE eNB_configs
      /\ bs_list' = IF new THEN bs_list \cup {b} ELSE bs_list

\* What RemoveEntry does, except for the changes its mutants make.
RemoveEntryBut(a, left, erased, waiting, list) ==
  LET b == agent_configs[a].bs_id
  IN  /\ eNB_configs' = [eNB_configs EXCEPT ![b] = left]
      /\ agent_configs' = EraseAgents(erased)
      /\ pending_agents' = pending_agents \cup waiting
      /\ bs_list' = list
      /\ aborted' = ~has_eNB_config_entry(b)

\* Mutant: bs_remove_ is not raised.
MutRemoveSilent(a) ==
  LET all == eNB_configs[agent_configs[a].bs_id]
  IN  RemoveEntryBut(a, {}, all, all \ {agent_configs[a]}, bs_list)

\* Mutant: the disconnected agent becomes pending with the others.
MutRemoveKeepsDead(a) ==
  LET b == agent_configs[a].bs_id
  IN  RemoveEntryBut(a, {}, eNB_configs[b], eNB_configs[b], bs_list \ {b})

\* Mutant: the BS stays with the agents that are left.
MutRemoveShrinks(a) ==
  LET b == agent_configs[a].bs_id
  IN  RemoveEntryBut(a, eNB_configs[b] \ {agent_configs[a]}, {agent_configs[a]}, {}, bs_list)

\* remove_eNB_config_entry() for a registered agent: all agents of its BS are
\* forgotten, the remaining ones become pending again.
RemoveEntry(a) ==
  LET disconnected == agent_configs[a]
      b   == disconnected.bs_id
      all == eNB_configs[b]
  IN  /\ aborted' = ~has_eNB_config_entry(b)
      /\ eNB_configs' = [eNB_configs EXCEPT ![b] = {}]
      /\ agent_configs' = EraseAgents(all)
      /\ pending_agents' = pending_agents \cup (all \ {disconnected})
      /\ bs_list' = bs_list \ {b}

\* Mutant: every agent waiting for the same BS is dropped.
MutRemovePendingAll(a) ==
  /\ \E p \in pending_agents :
       /\ p.agent_id = a
       /\ pending_agents' = {q \in pending_agents : q.bs_id # p.bs_id}
  /\ UNCHANGED <<agent_configs, eNB_configs, bs_list, aborted>>

\* remove_pending_agent()
RemovePendingAgent(a) ==
  /\ \E p \in pending_agents : p.agent_id = a
                               /\ pending_agents' = pending_agents \ {p}
  /\ UNCHANGED <<agent_configs, eNB_configs, bs_list, aborted>>
-----------------------------------------------------------------------------
(***************************************************************************)
(* Message handlers of rib_updater                                         *)
(***************************************************************************)

\* The agent_info built from a hello: BS ID 0 is replaced, an agent without
\* capabilities is assumed to have all eight.
HelloInfo(a, bs, caps) ==
  [agent_id     |-> a,
   bs_id        |-> IF bs = 0 THEN BS_ID_OFFSET + a ELSE bs,
   capabilities |-> IF caps = {} THEN Required ELSE caps]

\* Mutant: a hello for a BS that exists is not refused.
MutRefusedIgnoresBs(ai, successful) == ~successful \/ ~MayBePending(ai)

\* handle_hello() gives the connection up for a hello that is not a successful
\* outcome, for a BS that exists, and for an agent that may not be pending.
Refused(ai, successful) ==
  ~successful \/ has_eNB_config_entry(ai.bs_id) \/ ~MayBePending(ai)

handle_hello(a, successful, bs, caps) ==
  LET ai == HelloInfo(a, bs, caps)
  IN  \/ /\ Refused(ai, successful)
         /\ released' = released \cup {a}
         /\ UNCHANGED <<ribVars, aborted>>
      \/ /\ ~Refused(ai, successful)
         /\ AddAgent(ai)
         /\ UNCHANGED released

\* handle_disconnect() always releases the connection.
handle_disconnect(a) ==
  /\ \/ get_bs_id(a) > 0 /\ RemoveEntry(a)
     \/ get_bs_id(a) = 0 /\ agent_is_pending(a) /\ RemovePendingAgent(a)
     \/ /\ get_bs_id(a) = 0
        /\ ~agent_is_pending(a)
        /\ UNCHANGED <<ribVars, aborted>>
  /\ released' = released \cup {a}
-----------------------------------------------------------------------------
Init ==
  /\ pending_agents = {}
  /\ agent_configs = [a \in Agent |-> NoInfo]
  /\ eNB_configs = [b \in Bs |-> {}]
  /\ bs_list = {}
  /\ released = {}
  /\ conn = [a \in Agent |-> "none"]
  /\ helloed = {}
  /\ aborted = FALSE

\* handle_new_connection(): answered with the controller's hello.
NewConnection(a) ==
  /\ ~aborted
  /\ conn[a] = "none"
  /\ conn' = [conn EXCEPT ![a] = "open"]
  /\ UNCHANGED <<ribVars, released, helloed, aborted>>

Hello(a) ==
  /\ ~aborted
  /\ Disciplined => conn[a] = "open" /\ a \notin helloed
  /\ \E successful \in BOOLEAN, bs \in WireBs \cup {0}, caps \in SUBSET Cap :
       handle_hello(a, successful, bs, caps)
  /\ helloed' = helloed \cup {a}
  /\ UNCHANGED conn

\* A failed read and a failed write of one session each produce a disconnect
\* message, so a session may be disconnected more than once.
Disconnect(a) ==
  /\ ~aborted
  /\ Disciplined => conn[a] # "none"
  /\ handle_disconnect(a)
  /\ conn' = [conn EXCEPT ![a] = "gone"]
  /\ UNCHANGED helloed

Next == \E a \in Agent : NewConnection(a) \/ Hello(a) \/ Disconnect(a)

Spec == Init /\ [][Next]_vars
-----------------------------------------------------------------------------
(***************************************************************************)
(* Properties                                                              *)
(***************************************************************************)

\* The "overlapping capabilities" exception of new_eNB_config_entry() is never
\* thrown, and remove_eNB_config_entry() never dereferences end(): what
\* add_pending_agent() and handle_hello() let through is always mergeable, and
\* a registered agent's BS is always there.
NeverAborts == ~aborted

\* A registered agent is an agent of the BS it is registered for, so every
\* handler that finds the agent finds its BS.
RegisteredInBs ==
  \A a \in Agent :
    agent_configs[a] # NoInfo =>
      /\ agent_configs[a].agent_id = a
      /\ agent_configs[a] \in eNB_configs[agent_configs[a].bs_id]

\* The agents of a BS belong to it, share no capability and together have all
\* that are required.
BsWellFormed ==
  \A b \in Bs :
    /\ \A m \in eNB_configs[b] : m.bs_id = b
    /\ ~Overlapping(eNB_configs[b])
    /\ eNB_configs[b] # {} => is_complete(eNB_configs[b])

\* No agent waits for a BS that already exists (it could never be added to it),
\* and agents waiting for the same BS never exclude each other.
PendingMergeable ==
  /\ \A p \in pending_agents : ~has_eNB_config_entry(p.bs_id)
  /\ \A p, q \in pending_agents :
       p # q /\ p.bs_id = q.bs_id => orthogonal(p, q)

\* Agents of one BS never exclude each other, whether they wait for the others or are
\* online, in whatever order they say hello, go and come back.
MergesSound == BsWellFormed /\ PendingMergeable

\* The applications that follow bs_add_ and bs_remove_ know exactly the BSs
\* the RIB has.
SubscribersAgree == bs_list = {b \in Bs : has_eNB_config_entry(b)}

\* With disciplined agents: every agent of a BS is registered, so that losing
\* any of them takes the BS down.
MembersRegistered ==
  Disciplined =>
    \A b \in Bs : \A m \in eNB_configs[b] : agent_configs[m.agent_id] = m

\* With disciplined agents: the RIB keeps nothing of a session whose disconnect
\* was handled, whatever its BS and whichever of its agents went first.
GoneForgotten ==
  Disciplined => \A a \in Agent : conn[a] = "gone" => ~Known(a)

\* With disciplined agents: no agent is known whose connection the controller
\* itself has given up.
ReleasedForgotten ==
  Disciplined => \A a \in released : ~Known(a)

\* When every capability is a required one, a BS whose connected agents provide
\* all of them is never left waiting among the pending agents.  (With an
\* optional capability it can be: the loss of an agent that only provided S1AP
\* puts the others back to pending, and only a new hello creates a BS.)
NoCompleteBsWaits ==
  Cap = Required =>
    \A b \in Bs : ~is_complete({p \in pending_agents : p.bs_id = b})

\* A BS only changes its agents by being removed: no agent joins or leaves a BS
\* that stays online.
BsImmutable ==
  [][\A b \in Bs : eNB_configs[b] # {} => eNB_configs'[b] \in {eNB_configs[b], {}}]_vars

\* The directory of BSs the RIB implements.
Registered == {agent_configs[a] : a \in Agent} \ {NoInfo}

Directory == INSTANCE BsDirectory WITH
  announced <- pending_agents \cup Registered,
  online    <- {b \in Bs : has_eNB_config_entry(b)}

\* With disciplined agents the RIB implements the directory of base stations.
ImplementsDirectory == Directory!Spec
=============================================================================
