----------------------------- MODULE RibProofs ------------------------------
(***************************************************************************)
(* Proofs about the RIB and the way of messages into it, for every set of  *)
(* agents, base stations and capabilities: the RIB's bookkeeping, that it  *)
(* implements the directory of base stations if agents are disciplined, and *)
(* what the queue between the network thread and the updater keeps.        *)
(***************************************************************************)
EXTENDS Southbound, TLAPS

(***************************************************************************)
(* The RIB's bookkeeping                                                   *)
(***************************************************************************)
USE AgentAssumption, WireBsAssumption, CapAssumption, DisciplinedAssumption

\* The inductive invariant: none of the safety invariants is inductive alone.
\* That no handler aborts needs the pending agents to be mergeable and every
\* registered agent to be in its BS; that an agent is in its BS survives the
\* removal of a BS only because the members of a BS carry its identifier.
IInv ==
  /\ TypeOK
  /\ NeverAborts
  /\ RegisteredInBs
  /\ BsWellFormed
  /\ PendingMergeable
  /\ SubscribersAgree
-----------------------------------------------------------------------------
\* The record built from a hello is an agent_info the program can construct.
LEMMA HelloInfoType ==
  ASSUME NEW a \in Agent, NEW bs \in WireBs \cup {0}, NEW caps \in SUBSET Cap
  PROVE  /\ HelloInfo(a, bs, caps) \in Info
         /\ HelloInfo(a, bs, caps).agent_id = a
BY DEF HelloInfo, Info, Bs

\* BS identifiers are positive, so get_bs_id() is 0 exactly for agents that
\* are not registered.
LEMMA BsPositive == Bs \subseteq Nat \ {0}
<1>1. \A a \in Agent : BS_ID_OFFSET + a \in Nat \ {0}
  OBVIOUS
<1> QED BY <1>1 DEF Bs

LEMMA NoInfoIsNoInfo == NoInfo \notin Info
BY BsPositive DEF NoInfo, Info

\* An agent let through by add_pending_agent() overlaps with no agent that
\* waits for the same BS.
LEMMA AddedMergeable ==
  ASSUME PendingMergeable, NEW ai, MayBePending(ai)
  PROVE  ~Overlapping({p \in pending_agents \cup {ai} : p.bs_id = ai.bs_id})
BY DEF PendingMergeable, MayBePending, Overlapping, orthogonal

LEMMA InitIInv == Init => IInv
<1> SUFFICES ASSUME Init PROVE IInv
  OBVIOUS
<1>1. TypeOK
  BY DEF Init, TypeOK
<1>2. NeverAborts /\ RegisteredInBs
  BY DEF Init, NeverAborts, RegisteredInBs
<1>3. BsWellFormed /\ PendingMergeable
  BY DEF Init, BsWellFormed, PendingMergeable, Overlapping
<1>4. SubscribersAgree
  BY DEF Init, SubscribersAgree, has_eNB_config_entry
<1> QED BY <1>1, <1>2, <1>3, <1>4 DEF IInv

\* A new pending agent, which may complete its BS.
LEMMA AddAgentIInv ==
  ASSUME IInv, NEW ai \in Info, MayBePending(ai),
         ~has_eNB_config_entry(ai.bs_id), AddAgent(ai),
         released' \subseteq Agent, helloed' \subseteq Agent,
         conn' \in [Agent -> {"none", "open", "gone"}]
  PROVE  IInv'
<1> DEFINE b      == ai.bs_id
           added  == pending_agents \cup {ai}
           agents == {p \in added : p.bs_id = b}
<1>1. /\ b \in Bs
      /\ added \subseteq Info
      /\ agents \subseteq Info
      /\ ai \in agents
  BY DEF IInv, TypeOK, Info
<1>2. ~Overlapping(agents)
  BY AddedMergeable DEF IInv
<1>3. aborted' = FALSE
  BY <1>2 DEF AddAgent
<1>4. CASE is_complete(agents)
  <2>1. /\ pending_agents' = added \ agents
        /\ agent_configs' = EmplaceAgents(agents)
        /\ eNB_configs' = [eNB_configs EXCEPT ![b] = agents]
        /\ bs_list' = bs_list \cup {b}
    BY <1>2, <1>4 DEF AddAgent
  <2> HIDE DEF agents
  <2>2. \A i \in Ids(agents) :
          /\ (CHOOSE m \in agents : m.agent_id = i) \in agents
          /\ (CHOOSE m \in agents : m.agent_id = i).agent_id = i
    BY DEF Ids
  <2>3. TypeOK'
    BY <1>1, <1>3, <2>1, <2>2 DEF IInv, TypeOK, EmplaceAgents
  <2>4. RegisteredInBs'
    <3> SUFFICES ASSUME NEW a \in Agent, agent_configs'[a] # NoInfo
                 PROVE  /\ agent_configs'[a].agent_id = a
                        /\ agent_configs'[a] \in eNB_configs'[agent_configs'[a].bs_id]
      BY DEF RegisteredInBs
    <3>1. CASE agent_configs[a] = NoInfo
      <4>1. a \in Ids(agents) /\ agent_configs'[a] = (CHOOSE m \in agents : m.agent_id = a)
        BY <2>1, <3>1 DEF EmplaceAgents
      <4>2. agent_configs'[a] \in agents /\ agent_configs'[a].agent_id = a
        BY <2>2, <4>1
      <4>3. agent_configs'[a].bs_id = b
        BY <4>2 DEF agents
      <4>4. eNB_configs'[b] = agents
        BY <1>1, <2>1 DEF IInv, TypeOK
      <4> QED BY <4>2, <4>3, <4>4
    <3>2. CASE agent_configs[a] # NoInfo
      <4>1. agent_configs'[a] = agent_configs[a]
        BY <2>1, <3>2 DEF EmplaceAgents
      <4>2. /\ agent_configs[a].agent_id = a
            /\ agent_configs[a] \in eNB_configs[agent_configs[a].bs_id]
        BY <3>2 DEF IInv, RegisteredInBs
      <4>3. agent_configs[a].bs_id # b
        BY <4>2 DEF has_eNB_config_entry
      <4> QED BY <2>1, <4>1, <4>2, <4>3 DEF IInv, TypeOK
    <3> QED BY <3>1, <3>2
  <2>5. BsWellFormed'
    <3>1. \A m \in agents : m.bs_id = b
      BY DEF agents
    <3>2. \A c \in Bs : eNB_configs'[c] = IF c = b THEN agents ELSE eNB_configs[c]
      BY <2>1 DEF IInv, TypeOK
    <3> QED BY <1>2, <1>4, <3>1, <3>2 DEF IInv, BsWellFormed, is_complete, Overlapping, orthogonal
  <2>6. PendingMergeable'
    <3>1. pending_agents' \subseteq pending_agents
      BY <1>1, <2>1
    <3>2. \A p \in pending_agents' : p.bs_id # b
      BY <2>1 DEF agents
    <3>3. \A p \in pending_agents' : eNB_configs'[p.bs_id] = eNB_configs[p.bs_id]
      BY <1>1, <2>1, <3>1, <3>2 DEF IInv, TypeOK, Info
    <3> QED BY <3>1, <3>3 DEF IInv, PendingMergeable, has_eNB_config_entry, orthogonal
  <2>7. SubscribersAgree'
    BY <1>1, <2>1 DEF IInv, TypeOK, SubscribersAgree, has_eNB_config_entry
  <2> QED BY <1>3, <2>3, <2>4, <2>5, <2>6, <2>7 DEF IInv, NeverAborts
<1>5. CASE ~is_complete(agents)
  <2>1. pending_agents' = added /\ UNCHANGED <<agent_configs, eNB_configs, bs_list>>
    BY <1>5 DEF AddAgent
  <2>2. TypeOK'
    BY <1>1, <1>3, <2>1 DEF IInv, TypeOK
  <2> HIDE DEF added, agents, b
  <2>3. RegisteredInBs' /\ BsWellFormed' /\ SubscribersAgree'
    <3>1. UNCHANGED <<agent_configs, eNB_configs, bs_list>>
      BY <2>1
    <3> QED BY <3>1 DEF IInv, RegisteredInBs, BsWellFormed, SubscribersAgree,
                has_eNB_config_entry, is_complete, Overlapping, orthogonal
  <2> USE DEF added, b
  <2>4. PendingMergeable'
    BY <2>1 DEF IInv, PendingMergeable, MayBePending, has_eNB_config_entry, orthogonal
  <2> QED BY <1>3, <2>2, <2>3, <2>4 DEF IInv, NeverAborts
<1> QED BY <1>4, <1>5

\* A BS goes down and its remaining agents become pending.
LEMMA RemoveEntryIInv ==
  ASSUME IInv, NEW a \in Agent, get_bs_id(a) > 0, RemoveEntry(a),
         released' \subseteq Agent, helloed' \subseteq Agent,
         conn' \in [Agent -> {"none", "open", "gone"}]
  PROVE  IInv'
<1> DEFINE d   == agent_configs[a]
           b   == d.bs_id
           all == eNB_configs[b]
<1>1. d \in Info /\ b \in Bs /\ d \in all
  <2>1. d # NoInfo
    BY DEF get_bs_id, NoInfo
  <2> QED BY <2>1 DEF IInv, TypeOK, Info, RegisteredInBs
<1>2. all \subseteq Info /\ (\A m \in all : m.bs_id = b)
  BY <1>1 DEF IInv, TypeOK, BsWellFormed
<1>3. aborted' = FALSE
  BY <1>1 DEF RemoveEntry, has_eNB_config_entry
<1>4. /\ eNB_configs' = [eNB_configs EXCEPT ![b] = {}]
      /\ agent_configs' = EraseAgents(all)
      /\ pending_agents' = pending_agents \cup (all \ {d})
      /\ bs_list' = bs_list \ {b}
  BY DEF RemoveEntry
<1>5. \A c \in Bs : eNB_configs'[c] = IF c = b THEN {} ELSE eNB_configs[c]
  BY <1>4 DEF IInv, TypeOK
<1>6. ~Overlapping(all)
  BY <1>1 DEF IInv, BsWellFormed
<1>7. \A p \in pending_agents : p.bs_id # b
  BY <1>1 DEF IInv, PendingMergeable, has_eNB_config_entry
<1> HIDE DEF d, b, all
<1>8. TypeOK'
  BY <1>2, <1>3, <1>4, <1>1 DEF IInv, TypeOK, EraseAgents
<1>9. RegisteredInBs'
  <2> SUFFICES ASSUME NEW x \in Agent, agent_configs'[x] # NoInfo
               PROVE  /\ agent_configs'[x].agent_id = x
                      /\ agent_configs'[x] \in eNB_configs'[agent_configs'[x].bs_id]
    BY DEF RegisteredInBs
  <2>1. x \notin Ids(all) /\ agent_configs'[x] = agent_configs[x]
    BY <1>4 DEF EraseAgents
  <2>2. /\ agent_configs[x] \in Info
        /\ agent_configs[x].agent_id = x
        /\ agent_configs[x] \in eNB_configs[agent_configs[x].bs_id]
    BY <2>1 DEF IInv, TypeOK, RegisteredInBs
  <2>3. agent_configs[x].bs_id # b
    BY <2>1, <2>2 DEF Ids, all
  <2>4. agent_configs[x].bs_id \in Bs
    BY <2>2 DEF Info
  <2> QED BY <1>5, <2>1, <2>2, <2>3, <2>4
<1>10. BsWellFormed'
  BY <1>5 DEF IInv, BsWellFormed, Overlapping, is_complete, orthogonal
<1>11. PendingMergeable'
  <2>1. \A p \in pending_agents' : p.bs_id \in Bs /\ ~has_eNB_config_entry(p.bs_id)'
    BY <1>1, <1>2, <1>4, <1>5
       DEF IInv, TypeOK, Info, PendingMergeable, has_eNB_config_entry
  <2>2. \A p, q \in pending_agents' :
          p # q /\ p.bs_id = q.bs_id => orthogonal(p, q)
    BY <1>2, <1>4, <1>6, <1>7 DEF IInv, PendingMergeable, Overlapping
  <2> QED BY <2>1, <2>2 DEF PendingMergeable, orthogonal
<1>12. SubscribersAgree'
  BY <1>1, <1>4, <1>5 DEF IInv, SubscribersAgree, has_eNB_config_entry
<1> QED BY <1>3, <1>8, <1>9, <1>10, <1>11, <1>12 DEF IInv, NeverAborts

\* A pending agent is dropped.
LEMMA RemovePendingIInv ==
  ASSUME IInv, NEW a \in Agent, RemovePendingAgent(a),
         released' \subseteq Agent, helloed' \subseteq Agent,
         conn' \in [Agent -> {"none", "open", "gone"}]
  PROVE  IInv'
<1>1. /\ pending_agents' \subseteq pending_agents
      /\ UNCHANGED <<agent_configs, eNB_configs, bs_list, aborted>>
  BY DEF RemovePendingAgent
<1>2. TypeOK' /\ NeverAborts'
  BY <1>1 DEF IInv, TypeOK, NeverAborts
<1>3. RegisteredInBs' /\ BsWellFormed' /\ SubscribersAgree'
  BY <1>1 DEF IInv, RegisteredInBs, BsWellFormed, SubscribersAgree,
              has_eNB_config_entry, is_complete, Overlapping, orthogonal
<1>4. PendingMergeable'
  BY <1>1 DEF IInv, PendingMergeable, has_eNB_config_entry, orthogonal
<1> QED BY <1>2, <1>3, <1>4 DEF IInv

\* Steps that leave the RIB alone.
LEMMA UnchangedIInv ==
  ASSUME IInv, UNCHANGED <<ribVars, aborted>>,
         released' \subseteq Agent, helloed' \subseteq Agent,
         conn' \in [Agent -> {"none", "open", "gone"}]
  PROVE  IInv'
<1>1. UNCHANGED <<pending_agents, agent_configs, eNB_configs, bs_list, aborted>>
  BY DEF ribVars
<1>2. TypeOK' /\ NeverAborts'
  BY <1>1 DEF IInv, TypeOK, NeverAborts
<1>3. RegisteredInBs' /\ BsWellFormed' /\ SubscribersAgree' /\ PendingMergeable'
  BY <1>1 DEF IInv, RegisteredInBs, BsWellFormed, SubscribersAgree, PendingMergeable,
              has_eNB_config_entry, is_complete, Overlapping, orthogonal
<1> QED BY <1>2, <1>3 DEF IInv

LEMMA NextIInv == IInv /\ [Next]_vars => IInv'
<1> SUFFICES ASSUME IInv, [Next]_vars PROVE IInv'
  OBVIOUS
<1>1. ASSUME NEW a \in Agent, NewConnection(a) PROVE IInv'
  BY <1>1, UnchangedIInv DEF NewConnection, IInv, TypeOK
<1>2. ASSUME NEW a \in Agent, Hello(a) PROVE IInv'
  <2>1. /\ helloed' \subseteq Agent
        /\ conn' \in [Agent -> {"none", "open", "gone"}]
    BY <1>2 DEF Hello, IInv, TypeOK
  <2>2. PICK successful \in BOOLEAN, bs \in WireBs \cup {0}, caps \in SUBSET Cap :
          handle_hello(a, successful, bs, caps)
    BY <1>2 DEF Hello
  <2>3. CASE Refused(HelloInfo(a, bs, caps), successful)
    BY <2>1, <2>2, <2>3, UnchangedIInv DEF handle_hello, IInv, TypeOK
  <2>4. CASE ~Refused(HelloInfo(a, bs, caps), successful)
    <3>1. AddAgent(HelloInfo(a, bs, caps)) /\ UNCHANGED released
      BY <2>2, <2>4 DEF handle_hello
    <3>2. released' \subseteq Agent
      BY <3>1 DEF IInv, TypeOK
    <3>3. /\ HelloInfo(a, bs, caps) \in Info
          /\ MayBePending(HelloInfo(a, bs, caps))
          /\ ~has_eNB_config_entry(HelloInfo(a, bs, caps).bs_id)
      BY <2>4, HelloInfoType DEF Refused
    <3> QED BY <2>1, <3>1, <3>2, <3>3, AddAgentIInv
  <2> QED BY <2>3, <2>4
<1>3. ASSUME NEW a \in Agent, Disconnect(a) PROVE IInv'
  <2>1. /\ helloed' \subseteq Agent
        /\ conn' \in [Agent -> {"none", "open", "gone"}]
        /\ released' \subseteq Agent
    BY <1>3 DEF Disconnect, handle_disconnect, IInv, TypeOK
  <2>2. CASE get_bs_id(a) > 0 /\ RemoveEntry(a)
    BY <2>1, <2>2, RemoveEntryIInv
  <2>3. CASE RemovePendingAgent(a)
    BY <2>1, <2>3, RemovePendingIInv
  <2>4. CASE UNCHANGED <<ribVars, aborted>>
    BY <2>1, <2>4, UnchangedIInv
  <2> QED BY <1>3, <2>2, <2>3, <2>4 DEF Disconnect, handle_disconnect
<1>4. CASE UNCHANGED vars
  BY <1>4, UnchangedIInv DEF vars, IInv, TypeOK
<1> QED BY <1>1, <1>2, <1>3, <1>4 DEF Next

\* The inductive invariant holds of every behaviour, disciplined or not.
THEOREM InductiveInvariant == Spec => []IInv
BY InitIInv, NextIInv, PTL DEF Spec

\* Every variable keeps its type (Rib's class members and the map keys).
THEOREM TypeCorrect == Spec => []TypeOK
<1>1. IInv => TypeOK
  BY DEF IInv
<1> QED BY <1>1, InductiveInvariant, PTL

\* new_eNB_config_entry() never throws and remove_eNB_config_entry() never
\* dereferences end(), whatever hellos and disconnects arrive.
THEOREM AbortFree == Spec => []NeverAborts
<1>1. IInv => NeverAborts
  BY DEF IInv
<1> QED BY <1>1, InductiveInvariant, PTL

\* Every registered agent leads to a BS that has it.
THEOREM RegisteredAgentsHaveBs == Spec => []RegisteredInBs
<1>1. IInv => RegisteredInBs
  BY DEF IInv
<1> QED BY <1>1, InductiveInvariant, PTL

\* Every BS of the RIB is complete and made of agents that do not overlap.
LEMMA BsComplete == Spec => []BsWellFormed
<1>1. IInv => BsWellFormed
  BY DEF IInv
<1> QED BY <1>1, InductiveInvariant, PTL

\* Pending agents wait for offline BSs and never exclude each other.
LEMMA PendingStaysMergeable == Spec => []PendingMergeable
<1>1. IInv => PendingMergeable
  BY DEF IInv
<1> QED BY <1>1, InductiveInvariant, PTL

\* Agents of one BS never exclude each other, online or pending: what add_pending_agent()
\* lets through can always be merged.
THEOREM AgentsMerge == Spec => []MergesSound
<1>1. BsWellFormed /\ PendingMergeable => MergesSound
  BY DEF MergesSound
<1> QED BY <1>1, BsComplete, PendingStaysMergeable, PTL

\* Applications following the BS events know exactly the BSs of the RIB.
THEOREM SubscribersStayInformed == Spec => []SubscribersAgree
<1>1. IInv => SubscribersAgree
  BY DEF IInv
<1> QED BY <1>1, InductiveInvariant, PTL
-----------------------------------------------------------------------------
(***************************************************************************)
(* A BS never changes its agents while it is online.                       *)
(***************************************************************************)

LEMMA BsImmutableStep ==
  ASSUME IInv, [Next]_vars
  PROVE  \A b \in Bs : eNB_configs[b] # {} => eNB_configs'[b] \in {eNB_configs[b], {}}
<1> DEFINE Goal == \A b \in Bs :
             eNB_configs[b] # {} => eNB_configs'[b] \in {eNB_configs[b], {}}
<1>1. ASSUME UNCHANGED eNB_configs PROVE Goal
  BY <1>1
<1>2. ASSUME NEW a \in Agent, NEW successful, NEW bs, NEW caps,
             handle_hello(a, successful, bs, caps)
      PROVE  Goal
  <2> DEFINE ai == HelloInfo(a, bs, caps)
  <2>1. CASE UNCHANGED ribVars
    BY <1>1, <2>1 DEF ribVars
  <2>2. CASE ~Refused(ai, successful) /\ AddAgent(ai)
    <3>1. eNB_configs[ai.bs_id] = {}
      BY <2>2 DEF Refused, has_eNB_config_entry
    <3>2. \/ UNCHANGED eNB_configs
          \/ \E S : eNB_configs' = [eNB_configs EXCEPT ![ai.bs_id] = S]
      BY <2>2 DEF AddAgent
    <3> HIDE DEF ai
    <3> QED BY <3>1, <3>2 DEF IInv, TypeOK
  <2> QED BY <1>2, <2>1, <2>2 DEF handle_hello
<1>3. ASSUME NEW a \in Agent, handle_disconnect(a) PROVE Goal
  <2>1. CASE RemoveEntry(a)
    BY <2>1 DEF RemoveEntry, IInv, TypeOK
  <2>2. CASE RemovePendingAgent(a)
    BY <1>1, <2>2 DEF RemovePendingAgent
  <2>3. CASE UNCHANGED ribVars
    BY <1>1, <2>3 DEF ribVars
  <2> QED BY <1>3, <2>1, <2>2, <2>3 DEF handle_disconnect
<1>4. ASSUME NEW a \in Agent, NewConnection(a) PROVE Goal
  BY <1>1, <1>4 DEF NewConnection, ribVars
<1>5. ASSUME UNCHANGED vars PROVE Goal
  BY <1>1, <1>5 DEF vars, ribVars
<1> HIDE DEF Goal
<1>6. ASSUME NEW a \in Agent, Hello(a) PROVE Goal
  <2>1. PICK successful \in BOOLEAN, bs \in WireBs \cup {0}, caps \in SUBSET Cap :
          handle_hello(a, successful, bs, caps)
    BY <1>6 DEF Hello
  <2> QED BY <1>2, <2>1
<1>7. ASSUME NEW a \in Agent, Disconnect(a) PROVE Goal
  BY <1>3, <1>7 DEF Disconnect
<1>8. Goal
  <2>1. CASE Next
    <3>1. PICK a \in Agent : NewConnection(a) \/ Hello(a) \/ Disconnect(a)
      BY <2>1 DEF Next
    <3> QED BY <3>1, <1>4, <1>6, <1>7
  <2> QED BY <1>5, <2>1
<1> QED BY <1>8 DEF Goal

\* The set of agents of an online BS never changes in place.
THEOREM BsStaysImmutable == Spec => BsImmutable
<1>1. IInv /\ [Next]_vars =>
        [\A b \in Bs : eNB_configs[b] # {} => eNB_configs'[b] \in {eNB_configs[b], {}}]_vars
  BY BsImmutableStep
<1> QED BY <1>1, InductiveInvariant, PTL DEF Spec, BsImmutable
-----------------------------------------------------------------------------
(***************************************************************************)
(* Without optional capabilities, complete agents never wait.              *)
(***************************************************************************)

\* An agent whose capabilities nobody else has leaves its BS incomplete.
LEMMA IncompleteWithout ==
  ASSUME Cap = Required, NEW S \in SUBSET Info, NEW d \in S, ~Overlapping(S)
  PROVE  ~is_complete(S \ {d})
<1>1. PICK c \in Required : c \in d.capabilities
  BY DEF Info
<1>2. \A i \in S \ {d} : c \notin i.capabilities
  BY <1>1 DEF Overlapping, orthogonal
<1> QED BY <1>1, <1>2 DEF is_complete

\* An agent cannot make up for the required ones that are missing by leaving.
LEMMA IncompleteSubset ==
  ASSUME NEW S, NEW T \in SUBSET S, ~is_complete(S)
  PROVE  ~is_complete(T)
BY DEF is_complete

LEMMA NoCompleteBsWaitsStep ==
  ASSUME IInv, NoCompleteBsWaits, [Next]_vars
  PROVE  NoCompleteBsWaits'
<1> SUFFICES ASSUME Cap = Required, NEW b \in Bs
             PROVE  ~is_complete({p \in pending_agents' : p.bs_id = b})
  BY DEF NoCompleteBsWaits, is_complete
<1> DEFINE W  == {p \in pending_agents : p.bs_id = b}
           W1 == {p \in pending_agents' : p.bs_id = b}
<1>0. ~is_complete(W)
  BY DEF NoCompleteBsWaits
<1>1. ASSUME pending_agents' \subseteq pending_agents PROVE ~is_complete(W1)
  BY <1>0, <1>1, IncompleteSubset
<1>2. ASSUME NEW a \in Agent, NEW successful, NEW bs \in WireBs \cup {0},
             NEW caps \in SUBSET Cap, handle_hello(a, successful, bs, caps)
      PROVE  ~is_complete(W1)
  <2> DEFINE ai == HelloInfo(a, bs, caps)
             agents == {p \in pending_agents \cup {ai} : p.bs_id = ai.bs_id}
  <2>1. CASE UNCHANGED ribVars
    BY <1>1, <2>1 DEF ribVars
  <2>2. CASE ~Refused(ai, successful) /\ AddAgent(ai)
    <3>1. MayBePending(ai) /\ ~has_eNB_config_entry(ai.bs_id)
      BY <2>2 DEF Refused
    <3>2. ~Overlapping(agents)
      BY <3>1, AddedMergeable DEF IInv
    <3>3. CASE is_complete(agents)
      <4>1. pending_agents' = (pending_agents \cup {ai}) \ agents
        BY <2>2, <3>1, <3>2, <3>3 DEF AddAgent
      <4>2. pending_agents' \subseteq pending_agents
        BY <4>1
      <4> QED BY <1>1, <4>2
    <3>4. CASE ~is_complete(agents)
      <4>1. pending_agents' = pending_agents \cup {ai}
        BY <2>2, <3>4 DEF AddAgent
      <4>2. CASE ai.bs_id = b
        BY <3>4, <4>1, <4>2
      <4>3. CASE ai.bs_id # b
        <5>1. W1 = W
          BY <4>1, <4>3
        <5> QED BY <1>0, <5>1
      <4> QED BY <4>2, <4>3
    <3> QED BY <3>3, <3>4
  <2> QED BY <1>2, <2>1, <2>2 DEF handle_hello
<1>3. ASSUME NEW a \in Agent, handle_disconnect(a) PROVE ~is_complete(W1)
  <2>1. CASE get_bs_id(a) > 0 /\ RemoveEntry(a)
    <3> DEFINE d   == agent_configs[a]
               all == eNB_configs[d.bs_id]
    <3>1. d \in Info /\ d.bs_id \in Bs /\ d \in all
      <4>1. d # NoInfo
        BY <2>1 DEF get_bs_id, NoInfo
      <4> QED BY <4>1 DEF IInv, TypeOK, Info, RegisteredInBs
    <3>2. pending_agents' = pending_agents \cup (all \ {d})
      BY <2>1 DEF RemoveEntry
    <3>3. /\ all \subseteq Info
          /\ \A m \in all : m.bs_id = d.bs_id
          /\ ~Overlapping(all)
      BY <3>1 DEF IInv, TypeOK, BsWellFormed
    <3>4. CASE d.bs_id = b
      <4>1. W = {}
        BY <3>1, <3>4 DEF IInv, PendingMergeable, has_eNB_config_entry
      <4>2. W1 = all \ {d}
        BY <3>2, <3>3, <3>4, <4>1
      <4> QED BY <3>1, <3>3, <4>2, IncompleteWithout
    <3>5. CASE d.bs_id # b
      <4>1. W1 = W
        BY <3>2, <3>3, <3>5
      <4> QED BY <1>0, <4>1
    <3> QED BY <3>4, <3>5
  <2>2. CASE RemovePendingAgent(a)
    BY <1>1, <2>2 DEF RemovePendingAgent
  <2>3. CASE UNCHANGED ribVars
    BY <1>1, <2>3 DEF ribVars
  <2> QED BY <1>3, <2>1, <2>2, <2>3 DEF handle_disconnect
<1>4. ASSUME NEW a \in Agent, NewConnection(a) PROVE ~is_complete(W1)
  BY <1>1, <1>4 DEF NewConnection, ribVars
<1>5. ASSUME UNCHANGED vars PROVE ~is_complete(W1)
  BY <1>1, <1>5 DEF vars, ribVars
<1> HIDE DEF W1
<1>6. ASSUME NEW a \in Agent, Hello(a) PROVE ~is_complete(W1)
  <2>1. PICK successful \in BOOLEAN, bs \in WireBs \cup {0}, caps \in SUBSET Cap :
          handle_hello(a, successful, bs, caps)
    BY <1>6 DEF Hello
  <2> QED BY <1>2, <2>1
<1>7. ASSUME NEW a \in Agent, Disconnect(a) PROVE ~is_complete(W1)
  BY <1>3, <1>7 DEF Disconnect
<1>8. ~is_complete(W1)
  <2>1. CASE Next
    <3>1. PICK a \in Agent : NewConnection(a) \/ Hello(a) \/ Disconnect(a)
      BY <2>1 DEF Next
    <3> QED BY <3>1, <1>4, <1>6, <1>7
  <2> QED BY <1>5, <2>1
<1> QED BY <1>8 DEF W1

\* When all capabilities are required, the agents of a BS that together have
\* them all are registered and never wait among the pending ones.
THEOREM CompleteAgentsNeverWait == Spec => []NoCompleteBsWaits
<1>1. Init => NoCompleteBsWaits
  <2> SUFFICES ASSUME Init, NEW b \in Bs
               PROVE  ~is_complete({p \in pending_agents : p.bs_id = b})
    BY DEF NoCompleteBsWaits
  <2>1. {p \in pending_agents : p.bs_id = b} = {}
    BY DEF Init
  <2> QED BY <2>1 DEF is_complete
<1>2. IInv /\ NoCompleteBsWaits /\ [Next]_vars => NoCompleteBsWaits'
  BY NoCompleteBsWaitsStep
<1> QED BY <1>1, <1>2, InductiveInvariant, PTL DEF Spec

(***************************************************************************)
(* With disciplined agents (one hello per session, nothing after its       *)
(* disconnect) the RIB implements the directory of base stations and keeps *)
(* nothing of the sessions that ended.                                     *)
(***************************************************************************)
\* An agent that is known has said hello on a connection that is still open.
KnownIsLive ==
  \A a \in Agent :
    Known(a) => a \in helloed /\ conn[a] = "open" /\ a \notin released

\* A connection is only given up for a hello or after a disconnect.
ReleasedForReason == \A a \in released : conn[a] = "gone" \/ a \in helloed

\* An agent is pending at most once, and never while it is registered.
PendingOnce ==
  /\ \A p, q \in pending_agents : p.agent_id = q.agent_id => p = q
  /\ \A p \in pending_agents : agent_configs[p.agent_id] = NoInfo

MembersAreRegistered ==
  \A b \in Bs : \A m \in eNB_configs[b] : agent_configs[m.agent_id] = m

\* What disciplined agents add to the inductive invariant.
DInv ==
  /\ KnownIsLive
  /\ ReleasedForReason
  /\ PendingOnce
  /\ MembersAreRegistered
-----------------------------------------------------------------------------
\* Knowing an agent, as facts about the three containers.
LEMMA NotKnown ==
  ASSUME NEW a \in Agent
  PROVE  ~Known(a) <=> /\ \A p \in pending_agents : p.agent_id # a
                       /\ agent_configs[a] = NoInfo
                       /\ \A b \in Bs : \A m \in eNB_configs[b] : m.agent_id # a
BY DEF Known, agent_is_pending

LEMMA InitDInv == Init => DInv
BY DEF Init, DInv, KnownIsLive, ReleasedForReason, PendingOnce,
       MembersAreRegistered, Known, agent_is_pending

\* The agents that complete a BS are new to agent_configs and distinct, so each
\* of them gets its own entry.
LEMMA EmplacedOnce ==
  ASSUME IInv, PendingOnce, NEW ai \in Info, agent_configs[ai.agent_id] = NoInfo,
         ~agent_is_pending(ai.agent_id),
         NEW S \in SUBSET (pending_agents \cup {ai})
  PROVE  /\ \A m \in S : m.agent_id \in Agent /\ EmplaceAgents(S)[m.agent_id] = m
         /\ \A a \in Agent : a \notin Ids(S) => EmplaceAgents(S)[a] = agent_configs[a]
<1>1. \A m \in S : m.agent_id \in Agent /\ agent_configs[m.agent_id] = NoInfo
  BY DEF IInv, TypeOK, Info, PendingOnce
<1>2. \A m, n \in S : m.agent_id = n.agent_id => m = n
  BY DEF PendingOnce, agent_is_pending
<1>3. ASSUME NEW m \in S PROVE EmplaceAgents(S)[m.agent_id] = m
  <2>1. m.agent_id \in Ids(S)
    BY DEF Ids
  <2>2. (CHOOSE i \in S : i.agent_id = m.agent_id) = m
    BY <1>2
  <2> QED BY <1>1, <2>1, <2>2 DEF EmplaceAgents
<1>4. \A a \in Agent : a \notin Ids(S) => EmplaceAgents(S)[a] = agent_configs[a]
  BY DEF EmplaceAgents
<1> QED BY <1>1, <1>3, <1>4

\* What an accepted hello does to the containers.
LEMMA AddAgentCases ==
  ASSUME IInv, NEW ai \in Info, MayBePending(ai),
         ~has_eNB_config_entry(ai.bs_id), AddAgent(ai),
         NEW agents, agents = {p \in pending_agents \cup {ai} : p.bs_id = ai.bs_id}
  PROVE  \/ /\ is_complete(agents)
            /\ pending_agents' = (pending_agents \cup {ai}) \ agents
            /\ agent_configs' = EmplaceAgents(agents)
            /\ \A c \in Bs : eNB_configs'[c] = IF c = ai.bs_id THEN agents
                                                               ELSE eNB_configs[c]
         \/ /\ ~is_complete(agents)
            /\ pending_agents' = pending_agents \cup {ai}
            /\ UNCHANGED <<agent_configs, eNB_configs>>
<1>1. ~Overlapping(agents)
  BY AddedMergeable DEF IInv
<1> QED BY <1>1 DEF AddAgent, IInv, TypeOK

LEMMA AddAgentDInv ==
  ASSUME IInv, DInv, NEW ai \in Info, MayBePending(ai),
         ~has_eNB_config_entry(ai.bs_id), AddAgent(ai),
         ai.agent_id \notin helloed, helloed' = helloed \cup {ai.agent_id},
         conn[ai.agent_id] = "open", UNCHANGED <<conn, released>>
  PROVE  DInv'
<1> DEFINE agents == {p \in pending_agents \cup {ai} : p.bs_id = ai.bs_id}
           x == ai.agent_id
<1>1. x \in Agent /\ ai.bs_id \in Bs
  BY DEF Info
<1>2. ~Known(x) /\ x \notin released
  BY <1>1 DEF DInv, KnownIsLive, ReleasedForReason
<1>3. /\ agent_configs[x] = NoInfo
      /\ ~agent_is_pending(x)
      /\ \A p \in pending_agents : p.agent_id # x
      /\ \A c \in Bs : \A m \in eNB_configs[c] : m.agent_id # x
  BY <1>1, <1>2, NotKnown DEF agent_is_pending
<1>4. ReleasedForReason'
  BY DEF DInv, ReleasedForReason
<1>5. ASSUME \A a \in Agent \ {x} : ~Known(a) => ~Known(a)'
      PROVE  KnownIsLive'
  BY <1>1, <1>2, <1>5 DEF DInv, KnownIsLive
<1>6. CASE /\ is_complete(agents)
           /\ pending_agents' = (pending_agents \cup {ai}) \ agents
           /\ agent_configs' = EmplaceAgents(agents)
           /\ \A c \in Bs : eNB_configs'[c] = IF c = ai.bs_id THEN agents
                                                              ELSE eNB_configs[c]
  <2>1. /\ \A m \in agents : m.agent_id \in Agent /\ agent_configs'[m.agent_id] = m
        /\ \A a \in Agent : a \notin Ids(agents) => agent_configs'[a] = agent_configs[a]
    <3>1. agents \in SUBSET (pending_agents \cup {ai})
      OBVIOUS
    <3> QED BY <1>3, <1>6, <3>1, EmplacedOnce DEF DInv
  <2>2. \A p \in pending_agents' : p \in pending_agents /\ p \notin agents
    BY <1>6
  <2>3. \A p \in pending_agents' : p.agent_id \notin Ids(agents)
    BY <1>3, <2>2 DEF DInv, PendingOnce, Ids
  <2>4. PendingOnce'
    <3>1. \A p \in pending_agents' : p.agent_id \in Agent
      BY <2>2 DEF IInv, TypeOK, Info
    <3>2. \A p \in pending_agents' : agent_configs'[p.agent_id] = NoInfo
      BY <2>1, <2>2, <2>3, <3>1 DEF DInv, PendingOnce
    <3> QED BY <2>2, <3>2 DEF DInv, PendingOnce
  <2>5. MembersAreRegistered'
    <3> SUFFICES ASSUME NEW c \in Bs, NEW m \in eNB_configs'[c]
                 PROVE  agent_configs'[m.agent_id] = m
      BY DEF MembersAreRegistered
    <3>1. CASE c = ai.bs_id
      BY <1>6, <2>1, <3>1
    <3>2. CASE c # ai.bs_id
      <4>1. m \in Info /\ m \in eNB_configs[c] /\ agent_configs[m.agent_id] = m
        BY <1>6, <3>2 DEF DInv, MembersAreRegistered, IInv, TypeOK
      <4>2. m.agent_id \in Agent /\ m # NoInfo
        BY <4>1, NoInfoIsNoInfo DEF Info
      <4>3. m.agent_id \notin Ids(agents)
        BY <1>3, <4>1, <4>2 DEF Ids, DInv, PendingOnce
      <4> QED BY <2>1, <4>1, <4>2, <4>3
    <3> QED BY <3>1, <3>2
  <2>6. ASSUME NEW a \in Agent \ {x}, ~Known(a) PROVE ~Known(a)'
    <3>1. /\ \A p \in pending_agents : p.agent_id # a
          /\ agent_configs[a] = NoInfo
          /\ \A c \in Bs : \A m \in eNB_configs[c] : m.agent_id # a
      BY <2>6, NotKnown
    <3>2. \A m \in agents : m.agent_id # a
      BY <3>1
    <3>3. agent_configs'[a] = NoInfo
      BY <2>1, <3>1, <3>2 DEF Ids
    <3>4. \A c \in Bs : \A m \in eNB_configs'[c] : m.agent_id # a
      BY <1>6, <3>1, <3>2
    <3> QED BY <2>2, <3>1, <3>3, <3>4 DEF Known, agent_is_pending
  <2> QED BY <1>4, <1>5, <2>4, <2>5, <2>6 DEF DInv
<1>7. CASE pending_agents' = pending_agents \cup {ai}
           /\ UNCHANGED <<agent_configs, eNB_configs>>
  <2>1. PendingOnce'
    BY <1>3, <1>7 DEF DInv, PendingOnce
  <2>2. MembersAreRegistered'
    BY <1>7 DEF DInv, MembersAreRegistered
  <2>3. \A a \in Agent \ {x} : ~Known(a) => ~Known(a)'
    BY <1>7 DEF Known, agent_is_pending
  <2> QED BY <1>4, <1>5, <2>1, <2>2, <2>3 DEF DInv
<1> QED BY <1>6, <1>7, AddAgentCases

\* What the removal of a BS does to the containers.
LEMMA RemoveEntryFacts ==
  ASSUME IInv, NEW a \in Agent, get_bs_id(a) > 0, RemoveEntry(a),
         NEW d, d = agent_configs[a], NEW all, all = eNB_configs[d.bs_id]
  PROVE  /\ d \in Info /\ d.agent_id = a /\ d.bs_id \in Bs /\ d \in all
         /\ all \subseteq Info /\ (\A m \in all : m.bs_id = d.bs_id)
         /\ \A c \in Bs : eNB_configs'[c] = IF c = d.bs_id THEN {} ELSE eNB_configs[c]
         /\ \A x \in Agent :
              agent_configs'[x] = IF x \in Ids(all) THEN NoInfo ELSE agent_configs[x]
         /\ pending_agents' = pending_agents \cup (all \ {d})
<1>1. d # NoInfo
  BY DEF get_bs_id, NoInfo
<1>2. d \in Info /\ d.agent_id = a /\ d.bs_id \in Bs /\ d \in all
  BY <1>1 DEF IInv, TypeOK, Info, RegisteredInBs
<1>3. all \subseteq Info /\ (\A m \in all : m.bs_id = d.bs_id)
  BY <1>2 DEF IInv, TypeOK, BsWellFormed
<1> QED BY <1>2, <1>3 DEF RemoveEntry, EraseAgents, IInv, TypeOK

LEMMA RemoveEntryDInv ==
  ASSUME IInv, DInv, NEW a \in Agent, get_bs_id(a) > 0, RemoveEntry(a),
         conn' = [conn EXCEPT ![a] = "gone"], released' = released \cup {a},
         UNCHANGED helloed
  PROVE  DInv'
<1> DEFINE d   == agent_configs[a]
           all == eNB_configs[d.bs_id]
<1>1. /\ d \in Info /\ d.agent_id = a /\ d.bs_id \in Bs /\ d \in all
      /\ all \subseteq Info /\ (\A m \in all : m.bs_id = d.bs_id)
      /\ \A c \in Bs : eNB_configs'[c] = IF c = d.bs_id THEN {} ELSE eNB_configs[c]
      /\ \A x \in Agent :
           agent_configs'[x] = IF x \in Ids(all) THEN NoInfo ELSE agent_configs[x]
      /\ pending_agents' = pending_agents \cup (all \ {d})
  BY RemoveEntryFacts
<1>2. \A m \in all : m.agent_id \in Agent /\ agent_configs[m.agent_id] = m /\ m # NoInfo
  BY <1>1, NoInfoIsNoInfo DEF DInv, MembersAreRegistered, Info
<1>a. agent_configs[a] = d
  OBVIOUS
<1> HIDE DEF d, all
<1>3. PendingOnce'
  <2>1. ASSUME NEW p \in pending_agents', NEW q \in pending_agents',
               p.agent_id = q.agent_id
        PROVE  p = q
    BY <1>1, <1>2, <2>1 DEF DInv, PendingOnce
  <2>2. ASSUME NEW p \in pending_agents' PROVE agent_configs'[p.agent_id] = NoInfo
    <3>1. CASE p \in pending_agents
      BY <1>1, <3>1 DEF DInv, PendingOnce, IInv, TypeOK, Info
    <3>2. CASE p \in all
      BY <1>1, <1>2, <3>2 DEF Ids
    <3> QED BY <1>1, <3>1, <3>2
  <2> QED BY <2>1, <2>2 DEF PendingOnce
<1>4. MembersAreRegistered'
  <2> SUFFICES ASSUME NEW c \in Bs, NEW m \in eNB_configs'[c]
               PROVE  agent_configs'[m.agent_id] = m
    BY DEF MembersAreRegistered
  <2>1. c # d.bs_id /\ m \in eNB_configs[c]
    BY <1>1
  <2>2. m \in Info /\ m.bs_id = c /\ agent_configs[m.agent_id] = m
    BY <2>1 DEF IInv, TypeOK, BsWellFormed, DInv, MembersAreRegistered
  <2>3. m.agent_id \in Agent /\ m.agent_id \notin Ids(all)
    BY <1>1, <1>2, <2>1, <2>2 DEF Ids, Info
  <2> QED BY <1>1, <2>2, <2>3
<1>5. \A x \in Agent : Known(x)' => Known(x)
  <2> SUFFICES ASSUME NEW x \in Agent, ~Known(x) PROVE ~Known(x)'
    OBVIOUS
  <2>1. /\ \A p \in pending_agents : p.agent_id # x
        /\ agent_configs[x] = NoInfo
        /\ \A c \in Bs : \A m \in eNB_configs[c] : m.agent_id # x
    BY NotKnown
  <2>2. \A m \in all : m.agent_id # x
    BY <1>2, <2>1
  <2> QED BY <1>1, <2>1, <2>2 DEF Known, agent_is_pending
<1>6. ~Known(a)'
  <2>1. \A p \in pending_agents' : p.agent_id # a
    <3>1. \A p \in pending_agents : p.agent_id # a
      BY <1>1, <1>a, NoInfoIsNoInfo DEF DInv, PendingOnce
    <3>2. \A m \in all \ {d} : m.agent_id # a
      BY <1>2, <1>a
    <3> QED BY <1>1, <3>1, <3>2
  <2>2. agent_configs'[a] = NoInfo
    BY <1>1 DEF Ids
  <2>3. ASSUME NEW c \in Bs, NEW m \in eNB_configs'[c] PROVE m.agent_id # a
    <3>1. c # d.bs_id /\ m \in eNB_configs[c]
      BY <1>1
    <3>2. m.bs_id = c /\ agent_configs[m.agent_id] = m
      BY <3>1 DEF IInv, BsWellFormed, DInv, MembersAreRegistered
    <3> QED BY <1>a, <3>1, <3>2
  <2> QED BY <2>1, <2>2, <2>3 DEF Known, agent_is_pending
<1>7. KnownIsLive'
  BY <1>5, <1>6 DEF DInv, KnownIsLive, IInv, TypeOK
<1>8. ReleasedForReason'
  BY DEF DInv, ReleasedForReason, IInv, TypeOK
<1> QED BY <1>3, <1>4, <1>7, <1>8 DEF DInv

\* A disconnect of an agent that is pending or unknown.
LEMMA ForgetDInv ==
  ASSUME IInv, DInv, NEW a \in Agent, get_bs_id(a) = 0,
         pending_agents' = {p \in pending_agents : p.agent_id # a},
         UNCHANGED <<agent_configs, eNB_configs, helloed>>,
         conn' = [conn EXCEPT ![a] = "gone"], released' = released \cup {a}
  PROVE  DInv'
<1>1. agent_configs[a] = NoInfo
  BY BsPositive DEF get_bs_id, IInv, TypeOK, Info
<1>2. \A c \in Bs : \A m \in eNB_configs[c] : m.agent_id # a
  BY <1>1, NoInfoIsNoInfo DEF DInv, MembersAreRegistered, IInv, TypeOK
<1>3. ~Known(a)'
  BY <1>1, <1>2 DEF Known, agent_is_pending
<1>4. \A x \in Agent : Known(x)' => Known(x)
  BY DEF Known, agent_is_pending
<1>5. KnownIsLive'
  BY <1>3, <1>4 DEF DInv, KnownIsLive, IInv, TypeOK
<1>6. ReleasedForReason'
  BY DEF DInv, ReleasedForReason, IInv, TypeOK
<1>7. PendingOnce' /\ MembersAreRegistered'
  BY DEF DInv, PendingOnce, MembersAreRegistered
<1> QED BY <1>5, <1>6, <1>7 DEF DInv
-----------------------------------------------------------------------------
LEMMA UnchangedDInv ==
  ASSUME DInv, UNCHANGED <<ribVars, conn>>,
         helloed \subseteq helloed',
         \A a \in released' \ released : a \in helloed' /\ ~Known(a)
  PROVE  DInv'
<1>1. UNCHANGED <<pending_agents, agent_configs, eNB_configs, conn>>
  BY DEF ribVars
<1>2. \A a \in Agent : Known(a)' <=> Known(a)
  BY <1>1 DEF Known, agent_is_pending
<1>3. KnownIsLive' /\ ReleasedForReason'
  BY <1>1, <1>2 DEF DInv, KnownIsLive, ReleasedForReason
<1>4. PendingOnce' /\ MembersAreRegistered'
  BY <1>1 DEF DInv, PendingOnce, MembersAreRegistered
<1> QED BY <1>3, <1>4 DEF DInv

\* A disconnect is one of two things: the end of a BS, or of at most one
\* pending agent.
LEMMA DisconnectCases ==
  ASSUME IInv, DInv, NEW a \in Agent, handle_disconnect(a)
  PROVE  \/ get_bs_id(a) > 0 /\ RemoveEntry(a)
         \/ /\ get_bs_id(a) = 0
            /\ pending_agents' = {p \in pending_agents : p.agent_id # a}
            /\ UNCHANGED <<agent_configs, eNB_configs>>
<1>1. CASE get_bs_id(a) = 0 /\ RemovePendingAgent(a)
  BY <1>1 DEF RemovePendingAgent, DInv, PendingOnce
<1>2. CASE get_bs_id(a) = 0 /\ ~agent_is_pending(a) /\ UNCHANGED <<ribVars, aborted>>
  BY <1>2 DEF ribVars, agent_is_pending
<1> QED BY <1>1, <1>2 DEF handle_disconnect

LEMMA NextDInv == Disciplined /\ IInv /\ DInv /\ [Next]_vars => DInv'
<1> SUFFICES ASSUME Disciplined, IInv, DInv, [Next]_vars PROVE DInv'
  OBVIOUS
<1>1. ASSUME NEW a \in Agent, NewConnection(a) PROVE DInv'
  <2>1. /\ UNCHANGED <<pending_agents, agent_configs, eNB_configs, released, helloed>>
        /\ conn[a] = "none"
        /\ conn' = [conn EXCEPT ![a] = "open"]
    BY <1>1 DEF NewConnection, ribVars
  <2>2. \A x \in Agent : Known(x)' <=> Known(x)
    BY <2>1 DEF Known, agent_is_pending
  <2>3. KnownIsLive' /\ ReleasedForReason'
    BY <2>1, <2>2 DEF DInv, KnownIsLive, ReleasedForReason, IInv, TypeOK
  <2>4. PendingOnce' /\ MembersAreRegistered'
    BY <2>1 DEF DInv, PendingOnce, MembersAreRegistered
  <2> QED BY <2>3, <2>4 DEF DInv
<1>2. ASSUME NEW a \in Agent, Hello(a) PROVE DInv'
  <2>1. /\ conn[a] = "open" /\ a \notin helloed
        /\ helloed' = helloed \cup {a}
        /\ UNCHANGED conn
    BY <1>2 DEF Hello
  <2>2. ~Known(a)
    BY <2>1 DEF DInv, KnownIsLive
  <2>3. PICK successful \in BOOLEAN, bs \in WireBs \cup {0}, caps \in SUBSET Cap :
          handle_hello(a, successful, bs, caps)
    BY <1>2 DEF Hello
  <2> DEFINE ai == HelloInfo(a, bs, caps)
  <2>4. CASE Refused(ai, successful)
    <3>1. released' = released \cup {a} /\ UNCHANGED ribVars
      BY <2>3, <2>4 DEF handle_hello
    <3> QED BY <2>1, <2>2, <3>1, UnchangedDInv
  <2>5. CASE ~Refused(ai, successful)
    <3>1. AddAgent(ai) /\ UNCHANGED released
      BY <2>3, <2>5 DEF handle_hello
    <3>2. /\ ai \in Info /\ ai.agent_id = a
          /\ MayBePending(ai)
          /\ ~has_eNB_config_entry(ai.bs_id)
      BY <2>5, HelloInfoType DEF Refused
    <3> HIDE DEF ai
    <3> QED BY <2>1, <3>1, <3>2, AddAgentDInv
  <2> QED BY <2>4, <2>5
<1>3. ASSUME NEW a \in Agent, Disconnect(a) PROVE DInv'
  <2>1. /\ handle_disconnect(a)
        /\ conn' = [conn EXCEPT ![a] = "gone"]
        /\ released' = released \cup {a}
        /\ UNCHANGED helloed
    BY <1>3 DEF Disconnect, handle_disconnect
  <2>2. CASE get_bs_id(a) > 0 /\ RemoveEntry(a)
    BY <2>1, <2>2, RemoveEntryDInv
  <2>3. CASE /\ get_bs_id(a) = 0
             /\ pending_agents' = {p \in pending_agents : p.agent_id # a}
             /\ UNCHANGED <<agent_configs, eNB_configs>>
    BY <2>1, <2>3, ForgetDInv
  <2> QED BY <2>1, <2>2, <2>3, DisconnectCases
<1>4. CASE UNCHANGED vars
  BY <1>4, UnchangedDInv DEF vars
<1> QED BY <1>1, <1>2, <1>3, <1>4 DEF Next

THEOREM DisciplinedInvariant == Spec => [](Disciplined => DInv)
<1>1. Init => (Disciplined => DInv)
  BY InitDInv
<1>2. IInv /\ (Disciplined => DInv) /\ [Next]_vars => (Disciplined => DInv)'
  BY NextDInv
<1> QED BY <1>1, <1>2, InductiveInvariant, PTL DEF Spec

\* Every agent of a BS is registered for it.
THEOREM MembersStayRegistered == Spec => []MembersRegistered
<1>1. (Disciplined => DInv) => MembersRegistered
  BY DEF DInv, MembersAreRegistered, MembersRegistered
<1> QED BY <1>1, DisciplinedInvariant, PTL

\* Nothing remains of a session after its disconnect was handled.
THEOREM GoneAgentsForgotten == Spec => []GoneForgotten
<1>1. (Disciplined => DInv) => GoneForgotten
  BY DEF DInv, KnownIsLive, GoneForgotten
<1> QED BY <1>1, DisciplinedInvariant, PTL

\* Nothing is known of a session the controller gave up.
THEOREM ReleasedAgentsForgotten == Spec => []ReleasedForgotten
<1>1. IInv /\ (Disciplined => DInv) => ReleasedForgotten
  BY DEF DInv, KnownIsLive, ReleasedForgotten, IInv, TypeOK
<1> QED BY <1>1, InductiveInvariant, DisciplinedInvariant, PTL
-----------------------------------------------------------------------------
(***************************************************************************)
(* Refinement of BsDirectory                                               *)
(***************************************************************************)

Announced == pending_agents \cup Registered
Online    == {b \in Bs : has_eNB_config_entry(b)}

\* The registered agents are exactly the agents of the base stations.
LEMMA RegisteredAreMembers ==
  ASSUME IInv, DInv, NEW m
  PROVE  m \in Registered <=> \E b \in Bs : m \in eNB_configs[b]
<1>1. ASSUME m \in Registered PROVE \E b \in Bs : m \in eNB_configs[b]
  <2>1. PICK a \in Agent : m = agent_configs[a] /\ m # NoInfo
    BY <1>1 DEF Registered
  <2> QED BY <2>1 DEF IInv, TypeOK, Info, RegisteredInBs
<1>2. ASSUME NEW b \in Bs, m \in eNB_configs[b] PROVE m \in Registered
  <2>1. m \in Info /\ agent_configs[m.agent_id] = m
    BY <1>2 DEF IInv, TypeOK, DInv, MembersAreRegistered
  <2>2. m.agent_id \in Agent /\ m # NoInfo
    BY <2>1, NoInfoIsNoInfo DEF Info
  <2> QED BY <2>1, <2>2 DEF Registered
<1> QED BY <1>1, <1>2

RegisteredIsMembers ==
  \A m : m \in Registered <=> \E b \in Bs : m \in eNB_configs[b]

LEMMA MembersNow == IInv /\ DInv => RegisteredIsMembers
BY RegisteredAreMembers DEF RegisteredIsMembers

LEMMA MembersNext == IInv' /\ DInv' => RegisteredIsMembers'
BY MembersNow, PTL

\* An accepted hello is a step of the directory.
LEMMA HelloImplements ==
  ASSUME IInv, DInv, DInv', IInv', NEW ai \in Info, ~Known(ai.agent_id), MayBePending(ai),
         ~has_eNB_config_entry(ai.bs_id), AddAgent(ai)
  PROVE  Directory!Join(ai)
<1> DEFINE b      == ai.bs_id
           agents == {p \in pending_agents \cup {ai} : p.bs_id = b}
<1>1. b \in Bs /\ eNB_configs[b] = {}
  BY DEF Info, has_eNB_config_entry
<1>2. \A j \in Registered : j.bs_id # b /\ j.agent_id # ai.agent_id
  <2>1. ASSUME NEW j \in Registered
        PROVE  j.bs_id # b /\ j.agent_id # ai.agent_id
    <3>1. PICK c \in Bs : j \in eNB_configs[c]
      BY <2>1, RegisteredAreMembers
    <3>2. j.bs_id = c
      BY <3>1 DEF IInv, BsWellFormed
    <3>3. ai.agent_id \in Agent
      BY DEF Info
    <3>4. j.agent_id # ai.agent_id
      BY <3>1, <3>3, NotKnown
    <3> QED BY <1>1, <3>1, <3>2, <3>4
  <2> QED BY <2>1
<1>3. \A j \in Announced :
        /\ j.agent_id # ai.agent_id
        /\ j.bs_id = b => j.capabilities \cap ai.capabilities = {}
  BY <1>2 DEF Announced, MayBePending, agent_is_pending, orthogonal
<1>4. {i \in Announced : i.bs_id = b} \cup {ai} = agents
  BY <1>2 DEF Announced
<1>5. /\ \/ /\ is_complete(agents)
            /\ pending_agents' = (pending_agents \cup {ai}) \ agents
            /\ \A c \in Bs : eNB_configs'[c] = IF c = b THEN agents ELSE eNB_configs[c]
         \/ /\ ~is_complete(agents)
            /\ pending_agents' = pending_agents \cup {ai}
            /\ UNCHANGED <<agent_configs, eNB_configs>>
  <2>1. agents = {p \in pending_agents \cup {ai} : p.bs_id = ai.bs_id}
    OBVIOUS
  <2> HIDE DEF agents
  <2> QED BY <2>1, AddAgentCases
<1>6. ai \in agents
  OBVIOUS
<1>7. \A m : m \in Registered' <=> \E c \in Bs : m \in eNB_configs'[c]
  BY MembersNext DEF RegisteredIsMembers
<1>8. Announced' = Announced \cup {ai}
  <2>1. CASE UNCHANGED <<agent_configs, eNB_configs>> /\ pending_agents' = pending_agents \cup {ai}
    BY <2>1 DEF Announced, Registered
  <2>2. CASE /\ pending_agents' = (pending_agents \cup {ai}) \ agents
             /\ \A c \in Bs : eNB_configs'[c] = IF c = b THEN agents ELSE eNB_configs[c]
    <3>1. Registered' = Registered \cup agents
      BY <1>1, <1>7, <2>2, RegisteredAreMembers
    <3> QED BY <2>2, <3>1 DEF Announced
  <2> QED BY <1>5, <2>1, <2>2
<1>9. Online' = IF is_complete(agents) THEN Online \cup {b} ELSE Online
  <2>1. CASE is_complete(agents)
    BY <1>1, <1>5, <1>6, <2>1 DEF Online, has_eNB_config_entry
  <2>2. CASE ~is_complete(agents)
    BY <1>5, <2>2 DEF Online, has_eNB_config_entry
  <2> QED BY <2>1, <2>2
<1> HIDE DEF agents
<1> QED BY <1>1, <1>3, <1>4, <1>8, <1>9
       DEF Directory!Join, Directory!Compatible, Directory!Covered, Directory!Of,
           Announced, Online, is_complete, has_eNB_config_entry

\* The end of a BS or of a pending agent is a step of the directory.
LEMMA DisconnectImplements ==
  ASSUME IInv, DInv, DInv', IInv', NEW a \in Agent, handle_disconnect(a)
  PROVE  \/ \E i \in Info : Directory!Leave(i)
         \/ UNCHANGED <<Announced, Online>>
<1>1. CASE get_bs_id(a) > 0 /\ RemoveEntry(a)
  <2> DEFINE d   == agent_configs[a]
             all == eNB_configs[d.bs_id]
  <2>1. /\ d \in Info /\ d.agent_id = a /\ d.bs_id \in Bs /\ d \in all
        /\ all \subseteq Info /\ (\A m \in all : m.bs_id = d.bs_id)
        /\ \A c \in Bs : eNB_configs'[c] = IF c = d.bs_id THEN {} ELSE eNB_configs[c]
        /\ pending_agents' = pending_agents \cup (all \ {d})
    BY <1>1, RemoveEntryFacts
  <2>2. d \in Registered /\ d \notin pending_agents
    BY <2>1, NoInfoIsNoInfo DEF Registered, DInv, PendingOnce
  <2>3. \A c \in Bs : \A m \in eNB_configs[c] : m.bs_id = c
    BY DEF IInv, BsWellFormed
  <2> HIDE DEF d, all
  <2>4. \A m : m \in Registered' <=> m \in Registered /\ m \notin all
    <3>1. \A m : m \in Registered' <=> \E c \in Bs : m \in eNB_configs'[c]
      BY MembersNext DEF RegisteredIsMembers
    <3>2. \A m : m \in Registered <=> \E c \in Bs : m \in eNB_configs[c]
      BY MembersNow DEF RegisteredIsMembers
    <3>3. all = eNB_configs[d.bs_id]
      BY DEF all
    <3> QED BY <2>1, <2>3, <3>1, <3>2, <3>3
  <2>5. all \subseteq Registered
    <3>1. \A m : m \in Registered <=> \E c \in Bs : m \in eNB_configs[c]
      BY MembersNow DEF RegisteredIsMembers
    <3> QED BY <2>1, <3>1 DEF all
  <2>6. Announced' = Announced \ {d}
    BY <2>1, <2>2, <2>4, <2>5 DEF Announced
  <2>7. Online' = Online \ {d.bs_id}
    BY <2>1 DEF Online, has_eNB_config_entry
  <2>8. Directory!Leave(d)
    BY <2>2, <2>6, <2>7 DEF Directory!Leave, Announced, Online, has_eNB_config_entry
  <2> QED BY <2>1, <2>8
<1>2. CASE /\ get_bs_id(a) = 0
           /\ pending_agents' = {p \in pending_agents : p.agent_id # a}
           /\ UNCHANGED <<agent_configs, eNB_configs>>
  <2>1. Registered' = Registered /\ Online' = Online
    BY <1>2 DEF Registered, Online, has_eNB_config_entry
  <2>2. CASE \A p \in pending_agents : p.agent_id # a
    BY <1>2, <2>1, <2>2 DEF Announced
  <2>3. CASE \E p \in pending_agents : p.agent_id = a
    <3>1. PICK p \in pending_agents : p.agent_id = a
      BY <2>3
    <3>2. pending_agents' = pending_agents \ {p}
      BY <1>2, <3>1 DEF DInv, PendingOnce
    <3>3. p \in Info /\ p \notin Registered
      <4>1. p \in Info /\ agent_configs[a] = NoInfo
        BY <3>1 DEF IInv, TypeOK, DInv, PendingOnce
      <4>2. \A x \in Agent : agent_configs[x] # NoInfo => agent_configs[x].agent_id = x
        BY DEF IInv, RegisteredInBs
      <4> QED BY <3>1, <4>1, <4>2 DEF Registered
    <3>4. Online \ {p.bs_id} = Online
      BY <3>1 DEF IInv, PendingMergeable, Online
    <3>5. Announced' = Announced \ {p}
      BY <2>1, <3>2, <3>3 DEF Announced
    <3>6. Directory!Leave(p)
      BY <2>1, <3>1, <3>4, <3>5 DEF Directory!Leave, Announced, Online, has_eNB_config_entry
    <3> QED BY <3>3, <3>6
  <2> QED BY <2>2, <2>3
<1> QED BY <1>1, <1>2, DisconnectCases

LEMMA StepImplements ==
  Disciplined /\ IInv /\ IInv' /\ DInv /\ DInv' /\ [Next]_vars
    => [Directory!Next]_(Directory!vars)
<1> SUFFICES ASSUME Disciplined, IInv, IInv', DInv, DInv', [Next]_vars
             PROVE  Directory!Next \/ UNCHANGED <<Announced, Online>>
  BY DEF Directory!vars, Announced, Online
<1>0. ASSUME UNCHANGED ribVars PROVE UNCHANGED <<Announced, Online>>
  BY <1>0 DEF ribVars, Announced, Online, Registered, has_eNB_config_entry
<1>1. ASSUME NEW a \in Agent, Hello(a)
      PROVE  Directory!Next \/ UNCHANGED <<Announced, Online>>
  <2>1. ~Known(a)
    BY <1>1 DEF Hello, DInv, KnownIsLive
  <2>2. PICK successful \in BOOLEAN, bs \in WireBs \cup {0}, caps \in SUBSET Cap :
          handle_hello(a, successful, bs, caps)
    BY <1>1 DEF Hello
  <2> DEFINE ai == HelloInfo(a, bs, caps)
  <2>3. CASE Refused(ai, successful)
    BY <1>0, <2>2, <2>3 DEF handle_hello
  <2>4. CASE ~Refused(ai, successful)
    <3>1. AddAgent(ai)
      BY <2>2, <2>4 DEF handle_hello
    <3>2. /\ ai \in Info /\ ai.agent_id = a
          /\ MayBePending(ai)
          /\ ~has_eNB_config_entry(ai.bs_id)
      BY <2>4, HelloInfoType DEF Refused
    <3> HIDE DEF ai
    <3>3. Directory!Join(ai)
      BY <2>1, <3>1, <3>2, HelloImplements
    <3>4. ai \in Directory!Info
      BY <3>2 DEF Directory!Info, Info
    <3> QED BY <3>3, <3>4 DEF Directory!Next
  <2> QED BY <2>3, <2>4
<1>2. ASSUME NEW a \in Agent, Disconnect(a)
      PROVE  Directory!Next \/ UNCHANGED <<Announced, Online>>
  BY <1>2, DisconnectImplements DEF Disconnect, Directory!Next, Directory!Info, Info
<1>3. ASSUME NEW a \in Agent, NewConnection(a)
      PROVE  UNCHANGED <<Announced, Online>>
  BY <1>0, <1>3 DEF NewConnection
<1>4. ASSUME UNCHANGED vars PROVE UNCHANGED <<Announced, Online>>
  BY <1>0, <1>4 DEF vars
<1> QED BY <1>1, <1>2, <1>3, <1>4 DEF Next

\* With disciplined agents the RIB implements the directory: a BS is online
\* from the hello that completes it to the first disconnect of its agents.
THEOREM RibImplementsDirectory == Disciplined /\ Spec => ImplementsDirectory
<1> SUFFICES ASSUME Disciplined PROVE Spec => ImplementsDirectory
  OBVIOUS
<1>1. Init => Directory!Init
  BY DEF Init, Directory!Init, Registered, has_eNB_config_entry
<1>2. IInv /\ IInv' /\ (Disciplined => DInv) /\ (Disciplined => DInv)' /\ [Next]_vars
        => [Directory!Next]_(Directory!vars)
  BY StepImplements
<1> QED
  BY <1>1, <1>2, InductiveInvariant, DisciplinedInvariant, PTL
     DEF Spec, ImplementsDirectory, Directory!Spec

(***************************************************************************)
(* The way of messages into the RIB.  What the updater runs are steps of   *)
(* the RIB, so its theorems hold here as well; the queue in between keeps, *)
(* for each agent whose messages were not lost or mistaken, the order that *)
(* ends with the agent being forgotten.                                    *)
(***************************************************************************)
\* What the network thread has tagged so far, and what was given up, are sessions that were
\* accepted.
TagsKnown ==
  /\ \A i \in DOMAIN in_queue : in_queue[i].tag < next_id
  /\ released \subseteq {a \in Agent : a < next_id}

\* The updater's side of the invariant, for all agents.
SessionsInv == IInv /\ SbTypeOK /\ SessionsUntilReleased /\ TagsKnown

\* A disconnect is only queued for a reason.
Reported(a) == Queued("disconnect", a) => a \in peer_lost \cup released

\* DisconnectIsLast and AnnouncedFirst, for one agent.
Ends(a) ==
  a \notin reading =>
    \A i \in DOMAIN in_queue :
      in_queue[i] = [type |-> "hello", tag |-> a] =>
        \E j \in DOMAIN in_queue : j > i /\ in_queue[j] = [type |-> "disconnect", tag |-> a]
Begins(a) ==
  /\ conn[a] = "none" /\ a < next_id => Queued("new", a)
  /\ \A i, j \in DOMAIN in_queue :
       in_queue[i].tag = a /\ in_queue[j] = [type |-> "new", tag |-> a] => i >= j

\* The RIB has one entry of the agent at most, and a BS has it as it is registered.
Single(a) ==
  /\ \A p, q \in pending_agents : p.agent_id = a /\ q.agent_id = a => p = q
  /\ agent_is_pending(a) => agent_configs[a] = NoInfo
  /\ \A b \in Bs : \A m \in eNB_configs[b] : m.agent_id = a => agent_configs[a] = m

\* The one hello of the agent was read, is queued or was handled; before that nothing is known.
OneHello(a) ==
  /\ \A i, j \in DOMAIN in_queue :
       /\ in_queue[i] = [type |-> "hello", tag |-> a]
       /\ in_queue[j] = [type |-> "hello", tag |-> a]
       => i = j
  /\ Queued("hello", a) => a \notin helloed
  /\ Queued("hello", a) \/ a \in helloed => hellos[a] = 1
  /\ a \notin helloed => ~ Known(a)

WillBeForgotten(a) == Known(a) => a \in reading \/ Queued("disconnect", a)

Once(a) == hellos[a] <= 1 => OneHello(a) /\ Single(a) /\ WillBeForgotten(a)

AgentInv(a) == Reported(a) /\ Ends(a) /\ Begins(a) /\ Once(a)

SbIInv == SessionsInv /\ \A a \in Agent \ confused : AgentInv(a)
-----------------------------------------------------------------------------
(***************************************************************************)
(* The RIB, seen from one agent                                            *)
(***************************************************************************)

\* Agents that complete a BS get the entries of their own.
LEMMA EmplacedSingle ==
  ASSUME IInv, NEW a \in Agent, NEW S,
         \A p, q \in S : p.agent_id = a /\ q.agent_id = a => p = q,
         a \in Ids(S) => agent_configs[a] = NoInfo
  PROVE  /\ \A m \in S : m.agent_id = a => EmplaceAgents(S)[a] = m
         /\ a \notin Ids(S) => EmplaceAgents(S)[a] = agent_configs[a]
<1>1. ASSUME NEW m \in S, m.agent_id = a PROVE EmplaceAgents(S)[a] = m
  <2>1. a \in Ids(S)
    BY <1>1 DEF Ids
  <2>2. (CHOOSE i \in S : i.agent_id = a) = m
    BY <1>1
  <2> QED BY <2>1, <2>2 DEF EmplaceAgents
<1> QED BY <1>1 DEF EmplaceAgents

\* A hello that is accepted, of this agent or another one.
LEMMA AddAgentSingle ==
  ASSUME IInv, NEW a \in Agent, Single(a), NEW ai \in Info, MayBePending(ai),
         ~has_eNB_config_entry(ai.bs_id), AddAgent(ai), ai.agent_id = a => ~Known(a)
  PROVE  /\ Single(a)'
         /\ ai.agent_id # a /\ ~Known(a) => ~Known(a)'
<1> DEFINE added  == pending_agents \cup {ai}
           agents == {p \in added : p.bs_id = ai.bs_id}
<1>1. /\ \A p, q \in added : p.agent_id = a /\ q.agent_id = a => p = q
      /\ \A p \in added : p.agent_id = a => agent_configs[a] = NoInfo
      /\ \A p \in added : p.agent_id = a =>
           \A c \in Bs : \A m \in eNB_configs[c] : m.agent_id # a
  <2>1. CASE ai.agent_id = a
    BY <2>1, NotKnown
  <2>2. CASE ai.agent_id # a
    <3>1. \A m \in Info : m # NoInfo
      BY NoInfoIsNoInfo
    <3>2. \A c \in Bs : eNB_configs[c] \subseteq Info
      BY DEF IInv, TypeOK
    <3> QED BY <2>2, <3>1, <3>2 DEF Single, agent_is_pending
  <2> QED BY <2>1, <2>2
<1>2. CASE /\ pending_agents' = added \ agents
           /\ agent_configs' = EmplaceAgents(agents)
           /\ \A c \in Bs : eNB_configs'[c] = IF c = ai.bs_id THEN agents
                                                              ELSE eNB_configs[c]
  <2>1. /\ \A m \in agents : m.agent_id = a => agent_configs'[a] = m
        /\ a \notin Ids(agents) => agent_configs'[a] = agent_configs[a]
    BY <1>1, <1>2, EmplacedSingle DEF Ids
  <2>2. \A p \in pending_agents' : p.agent_id = a => a \notin Ids(agents)
    BY <1>1, <1>2 DEF Ids
  <2>3. \A p, q \in pending_agents' : p.agent_id = a /\ q.agent_id = a => p = q
    BY <1>1, <1>2
  <2>4. agent_is_pending(a)' => agent_configs'[a] = NoInfo
    BY <1>1, <1>2, <2>1, <2>2 DEF agent_is_pending
  <2>5. ASSUME NEW c \in Bs, NEW m \in eNB_configs'[c], m.agent_id = a
        PROVE  agent_configs'[a] = m
    <3>1. CASE c = ai.bs_id
      BY <1>2, <2>1, <2>5, <3>1
    <3>2. CASE c # ai.bs_id
      <4>1. m \in eNB_configs[c]
        BY <1>2, <3>2
      <4>2. agent_configs[a] = m
        BY <2>5, <4>1 DEF Single
      <4>3. a \notin Ids(agents)
        BY <1>1, <2>5, <4>1 DEF Ids
      <4> QED BY <2>1, <4>2, <4>3
    <3> QED BY <3>1, <3>2
  <2>6. ASSUME ai.agent_id # a, ~Known(a) PROVE ~Known(a)'
    <3>1. /\ \A p \in added : p.agent_id # a
          /\ agent_configs[a] = NoInfo
          /\ \A c \in Bs : \A m \in eNB_configs[c] : m.agent_id # a
      BY <2>6, NotKnown
    <3>2. agent_configs'[a] = NoInfo
      BY <2>1, <3>1 DEF Ids
    <3>3. \A c \in Bs : \A m \in eNB_configs'[c] : m.agent_id # a
      BY <1>2, <3>1
    <3> QED BY <1>2, <3>1, <3>2, <3>3 DEF Known, agent_is_pending
  <2> QED BY <2>3, <2>4, <2>5, <2>6 DEF Single
<1>3. CASE pending_agents' = added /\ UNCHANGED <<agent_configs, eNB_configs>>
  BY <1>1, <1>3 DEF Single, Known, agent_is_pending
<1> QED BY <1>2, <1>3, AddAgentCases

LEMMA HelloSingle ==
  ASSUME IInv, NEW a \in Agent, Single(a), NEW x \in Agent, Hello(x), x = a => ~Known(a)
  PROVE  Single(a)' /\ (x # a /\ ~Known(a) => ~Known(a)')
<1>1. PICK successful \in BOOLEAN, bs \in WireBs \cup {0}, caps \in SUBSET Cap :
        handle_hello(x, successful, bs, caps)
  BY DEF Hello
<1> DEFINE ai == HelloInfo(x, bs, caps)
<1>2. ai \in Info /\ ai.agent_id = x
  BY HelloInfoType
<1>3. \/ UNCHANGED ribVars
      \/ MayBePending(ai) /\ ~has_eNB_config_entry(ai.bs_id) /\ AddAgent(ai)
  BY <1>1 DEF handle_hello, Refused
<1> HIDE DEF ai
<1>4. CASE UNCHANGED ribVars
  BY <1>4 DEF ribVars, Single, Known, agent_is_pending
<1> QED BY <1>2, <1>3, <1>4, AddAgentSingle

\* The disconnect of this agent forgets it, that of another one at most moves it back to
\* pending.
LEMMA DisconnectSingle ==
  ASSUME IInv, NEW a \in Agent, Single(a), NEW x \in Agent, Disconnect(x)
  PROVE  Single(a)' /\ (x = a \/ ~Known(a) => ~Known(a)')
<1> DEFINE d   == agent_configs[x]
           all == eNB_configs[d.bs_id]
<1>1. CASE get_bs_id(x) > 0 /\ RemoveEntry(x)
  <2>1. /\ d \in Info /\ d.agent_id = x /\ d.bs_id \in Bs /\ d \in all
        /\ all \subseteq Info /\ (\A m \in all : m.bs_id = d.bs_id)
        /\ \A c \in Bs : eNB_configs'[c] = IF c = d.bs_id THEN {} ELSE eNB_configs[c]
        /\ \A y \in Agent :
             agent_configs'[y] = IF y \in Ids(all) THEN NoInfo ELSE agent_configs[y]
        /\ pending_agents' = pending_agents \cup (all \ {d})
    BY <1>1, RemoveEntryFacts
  <2>2. \A m \in all : m.agent_id = a => agent_configs[a] = m /\ m # NoInfo
    BY <2>1, NoInfoIsNoInfo DEF Single
  <2>a. d = agent_configs[x]
    OBVIOUS
  <2> HIDE DEF d, all
  <2>3. \A p, q \in pending_agents' : p.agent_id = a /\ q.agent_id = a => p = q
    BY <2>1, <2>2 DEF Single, agent_is_pending
  <2>4. agent_is_pending(a)' => agent_configs'[a] = NoInfo
    <3>1. agent_is_pending(a)' => agent_is_pending(a) \/ a \in Ids(all)
      BY <2>1 DEF agent_is_pending, Ids
    <3> QED BY <2>1, <3>1 DEF Single
  <2>5. ASSUME NEW c \in Bs, NEW m \in eNB_configs'[c], m.agent_id = a
        PROVE  agent_configs'[a] = m /\ x # a
    <3>1. c # d.bs_id /\ m \in eNB_configs[c]
      BY <2>1
    <3>2. agent_configs[a] = m /\ m.bs_id = c
      BY <2>5, <3>1 DEF Single, IInv, BsWellFormed
    <3>3. a \notin Ids(all)
      BY <2>1, <2>2, <3>1, <3>2 DEF Ids
    <3> QED BY <2>1, <2>a, <3>1, <3>2, <3>3
  <2>6. ASSUME x = a \/ ~Known(a) PROVE ~Known(a)'
    <3>1. \A p \in pending_agents' : p.agent_id # a
      <4>1. CASE x = a
        BY <2>1, <2>2, <2>a, <4>1, NoInfoIsNoInfo DEF Single, agent_is_pending
      <4>2. CASE ~Known(a)
        BY <2>1, <2>2, <4>2 DEF Known, agent_is_pending
      <4> QED BY <2>6, <4>1, <4>2
    <3>2. agent_configs'[a] = NoInfo
      BY <2>1, <2>6 DEF Ids, Known
    <3>3. \A c \in Bs : \A m \in eNB_configs'[c] : m.agent_id # a
      BY <2>1, <2>5, <2>6 DEF Known
    <3> QED BY <3>1, <3>2, <3>3 DEF Known, agent_is_pending
  <2> QED BY <2>3, <2>4, <2>5, <2>6 DEF Single
<1>2. CASE get_bs_id(x) = 0
  <2>1. agent_configs[x] = NoInfo
    BY <1>2, BsPositive DEF get_bs_id, IInv, TypeOK, Info
  <2>2. /\ UNCHANGED <<agent_configs, eNB_configs>>
        /\ \/ pending_agents' = pending_agents /\ ~agent_is_pending(x)
           \/ \E p \in pending_agents : p.agent_id = x /\ pending_agents' = pending_agents \ {p}
    BY <1>2 DEF Disconnect, handle_disconnect, RemoveEntry, RemovePendingAgent, ribVars
  <2>3. Single(a)' /\ (~Known(a) => ~Known(a)')
    BY <2>2 DEF Single, Known, agent_is_pending
  <2>4. ASSUME x = a PROVE ~Known(a)'
    <3>1. ~agent_is_pending(a)'
      BY <2>2, <2>4 DEF Single, agent_is_pending
    <3>2. \A c \in Bs : \A m \in eNB_configs[c] : m.agent_id # a
      BY <2>1, <2>4, NoInfoIsNoInfo DEF Single, IInv, TypeOK
    <3> QED BY <2>1, <2>2, <2>4, <3>1, <3>2 DEF Known
  <2> QED BY <2>3, <2>4
<1> QED BY <1>1, <1>2 DEF Disconnect, handle_disconnect
-----------------------------------------------------------------------------
(***************************************************************************)
(* The queue                                                               *)
(***************************************************************************)

\* forward_message(): if the push finds no room, or the tag is another one, the sessions
\* concerned are confused; the messages of the others stay where they are.
LEMMA Forwarded ==
  ASSUME SessionsInv, NEW type \in {"new", "hello", "disconnect"}, NEW s \in Agent,
         NEW tag \in Agent, Forward(type, s, tag), NEW m, m = [type |-> type, tag |-> tag]
  PROVE  /\ m \in Message /\ m.type = type /\ m.tag = tag
         /\ in_queue \in Seq(Message) /\ in_queue' \in Seq(Message)
         /\ Len(in_queue') <= InCapacity
         /\ \A i \in DOMAIN in_queue' : \/ i \in DOMAIN in_queue /\ in_queue'[i] = in_queue[i]
                                        \/ in_queue'[i] = m
         /\ \A i \in DOMAIN in_queue : i \in DOMAIN in_queue' /\ in_queue'[i] = in_queue[i]
<1>1. m \in Message /\ m.type = type /\ m.tag = tag
  BY DEF Message
<1>2. in_queue \in Seq(Message) /\ Len(in_queue) <= InCapacity
  BY DEF SessionsInv, SbTypeOK
<1>3. in_queue' = (IF Len(in_queue) < InCapacity THEN Append(in_queue, m) ELSE in_queue)
  BY DEF Forward
<1>5. CASE Len(in_queue) < InCapacity
  <2>1. in_queue' = Append(in_queue, m)
    BY <1>3, <1>5
  <2>2. in_queue' \in Seq(Message) /\ Len(in_queue') = Len(in_queue) + 1
    BY <1>1, <1>2, <2>1
  <2>3. Len(in_queue') <= InCapacity
    BY <1>2, <1>5, <2>2, QueueAssumption
  <2>4. \A i \in DOMAIN in_queue' : \/ i \in DOMAIN in_queue /\ in_queue'[i] = in_queue[i]
                                    \/ in_queue'[i] = m
    BY <1>1, <1>2, <2>1
  <2>5. \A i \in DOMAIN in_queue : i \in DOMAIN in_queue' /\ in_queue'[i] = in_queue[i]
    BY <1>1, <1>2, <2>1
  <2> QED BY <1>1, <1>2, <2>2, <2>3, <2>4, <2>5
<1>6. CASE ~ (Len(in_queue) < InCapacity)
  BY <1>1, <1>2, <1>3, <1>6
<1> QED BY <1>5, <1>6

\* A session that is not confused has its own tag on its messages, and no other has it.
LEMMA ForwardedConfuses ==
  ASSUME SessionsInv, NEW type, NEW s \in Agent, NEW tag \in Agent, Forward(type, s, tag)
  PROVE  /\ confused \subseteq confused' /\ confused' \subseteq Agent
         /\ \A a \in Agent \ confused' : a # s => a # tag
         /\ s \notin confused' =>
              tag = s /\ in_queue' = Append(in_queue, [type |-> type, tag |-> s])
<1>1. confused' = IF Len(in_queue) < InCapacity /\ tag = s THEN confused
                  ELSE confused \cup {s, tag}
  BY DEF Forward
<1>2. s \notin confused' => Len(in_queue) < InCapacity /\ tag = s
  BY <1>1
<1>3. s \notin confused' => in_queue' = Append(in_queue, [type |-> type, tag |-> s])
  BY <1>2 DEF Forward
<1> QED BY <1>1, <1>2, <1>3 DEF SessionsInv, SbTypeOK

\* The network thread does something for another session.
LEMMA OthersUnaffected ==
  ASSUME NEW a \in Agent, AgentInv(a), in_queue \in Seq(Message), UNCHANGED vars,
         hellos'[a] = hellos[a], a \in reading' <=> a \in reading,
         peer_lost \subseteq peer_lost', a < next_id' <=> a < next_id,
         \A i \in DOMAIN in_queue' :
           \/ i \in DOMAIN in_queue /\ in_queue'[i] = in_queue[i]
           \/ in_queue'[i] \in Message /\ in_queue'[i].tag # a,
         \A i \in DOMAIN in_queue : i \in DOMAIN in_queue' /\ in_queue'[i] = in_queue[i]
  PROVE  AgentInv(a)'
<1> DEFINE M(type) == [type |-> type, tag |-> a]
<1>1. \A i \in DOMAIN in_queue' : in_queue'[i].tag = a =>
        i \in DOMAIN in_queue /\ in_queue'[i] = in_queue[i]
  OBVIOUS
<1>2. \A type : M(type).tag = a
  OBVIOUS
<1>3. \A type : Queued(type, a)' <=> Queued(type, a)
  BY <1>1, <1>2 DEF Queued
<1>4. /\ UNCHANGED <<conn, released, helloed>>
      /\ Known(a)' <=> Known(a)
      /\ Single(a)' <=> Single(a)
  BY DEF vars, ribVars, Known, agent_is_pending, Single
<1>5. Reported(a)'
  BY <1>3, <1>4 DEF AgentInv, Reported
<1>6. Ends(a)'
  BY <1>1, <1>2 DEF AgentInv, Ends
<1>7. Begins(a)'
  BY <1>1, <1>2, <1>3, <1>4 DEF AgentInv, Begins
<1>8. Once(a)'
  BY <1>1, <1>2, <1>3, <1>4 DEF AgentInv, Once, OneHello, WillBeForgotten
<1> QED BY <1>5, <1>6, <1>7, <1>8 DEF AgentInv

\* A message of the session itself goes to the end of the queue.
LEMMA Appended ==
  ASSUME in_queue \in Seq(Message), NEW a \in Agent, NEW type \in {"new", "hello", "disconnect"},
         in_queue' = Append(in_queue, [type |-> type, tag |-> a]),
         NEW n, n = Len(in_queue) + 1
  PROVE  /\ n \in DOMAIN in_queue' /\ in_queue'[n] = [type |-> type, tag |-> a]
         /\ n \in Int /\ DOMAIN in_queue' \subseteq Int
         /\ \A i \in DOMAIN in_queue' : i < n => i \in DOMAIN in_queue
         /\ \A i \in DOMAIN in_queue' : i <= n
         /\ \A i \in DOMAIN in_queue :
              i < n /\ i \in DOMAIN in_queue' /\ in_queue'[i] = in_queue[i]
         /\ \A t \in {"new", "hello", "disconnect"} : Queued(t, a)' <=> Queued(t, a) \/ t = type
<1> DEFINE m == [type |-> type, tag |-> a]
<1>1. m \in Message
  BY DEF Message
<1>2. m.type = type
  OBVIOUS
<1> HIDE DEF m
<1>3. in_queue' = Append(in_queue, m)
  BY DEF m
<1>4. /\ n \in DOMAIN in_queue' /\ in_queue'[n] = m
      /\ n \in Int /\ DOMAIN in_queue' \subseteq Int
      /\ \A i \in DOMAIN in_queue' : i < n => i \in DOMAIN in_queue
      /\ \A i \in DOMAIN in_queue' : i <= n
      /\ \A i \in DOMAIN in_queue : i < n /\ i \in DOMAIN in_queue' /\ in_queue'[i] = in_queue[i]
  BY <1>1, <1>3
<1>5. ASSUME NEW t \in {"new", "hello", "disconnect"}
      PROVE  Queued(t, a)' <=> Queued(t, a) \/ t = type
  <2>1. t # type => m # [type |-> t, tag |-> a]
    BY <1>2
  <2>2. t = type => m = [type |-> t, tag |-> a]
    BY DEF m
  <2>3. \A i \in DOMAIN in_queue' : i = n \/ i < n
    BY <1>4
  <2> QED BY <1>4, <2>1, <2>2, <2>3 DEF Queued
<1> QED BY <1>4, <1>5 DEF m
-----------------------------------------------------------------------------
(***************************************************************************)
(* The network thread                                                      *)
(***************************************************************************)

\* The session a handler finds is one that was accepted.
LEMMA TagsReadAccepted ==
  ASSUME SessionsInv, NEW a \in Agent, a < next_id, NEW tag \in TagsRead(a)
  PROVE  tag \in Agent /\ tag < next_id /\ (a \in sessions => tag = a)
BY DEF TagsRead

\* Whatever session is accepted, read or written to.
LEMMA NetworkSessions ==
  ASSUME SessionsInv, UNCHANGED <<vars, rem_msgs, dropped>>, NEW type \in {"new", "hello", "disconnect"},
         NEW s \in Agent, NEW tag \in Agent, Forward(type, s, tag), tag < next_id',
         next_id' \in Nat, next_id' >= next_id,
         \A b \in Agent : b \in sessions' <=> b \in sessions \/ (next_id <= b /\ b < next_id'),
         sessions' \subseteq Agent,
         reading' \cup written' \cup wfailed' \cup peer_lost' \subseteq {b \in Agent : b < next_id'},
         hellos' \in [Agent -> 0..MaxHellos]
  PROVE  SessionsInv'
<1>1. IInv'
  BY NextIInv DEF SessionsInv
<1>2. UNCHANGED released
  BY DEF vars
<1>3. /\ next_id \in Nat /\ Agent \subseteq Nat
      /\ \A b \in Agent : b \in sessions <=> b < next_id /\ b \notin released
      /\ \A b \in released : b \in Agent /\ b < next_id
  BY AgentAssumption DEF SessionsInv, SbTypeOK, SessionsUntilReleased, TagsKnown
<1>a. \A b \in Agent : b \in sessions' <=> b < next_id' /\ b \notin released
  BY <1>3
<1>4. SbTypeOK'
  <2>1. in_queue' \in Seq(Message) /\ Len(in_queue') <= InCapacity /\ confused' \subseteq Agent
    <3> DEFINE m == [type |-> type, tag |-> tag]
    <3> HIDE DEF m
    <3>1. in_queue' \in Seq(Message) /\ Len(in_queue') <= InCapacity
      BY Forwarded DEF m
    <3>2. confused' \subseteq Agent
      BY ForwardedConfuses
    <3> QED BY <3>1, <3>2
  <2>2. sessions' \subseteq {b \in Agent : b < next_id'}
    BY <1>a
  <2> QED BY <2>1, <2>2 DEF SessionsInv, SbTypeOK
<1>5. SessionsUntilReleased'
  BY <1>2, <1>a DEF SessionsUntilReleased
<1>6. TagsKnown'
  <2>1. ASSUME NEW i \in DOMAIN in_queue' PROVE in_queue'[i].tag < next_id'
    <3> DEFINE m == [type |-> type, tag |-> tag]
    <3>a. m = [type |-> type, tag |-> tag]
      OBVIOUS
    <3> HIDE DEF m
    <3>1. \/ i \in DOMAIN in_queue /\ in_queue'[i] = in_queue[i]
          \/ in_queue'[i].tag = tag
      BY <3>a, Forwarded
    <3>2. ASSUME NEW k \in DOMAIN in_queue
          PROVE  in_queue[k].tag \in Nat /\ in_queue[k].tag < next_id
      <4>1. in_queue[k] \in Message /\ in_queue[k].tag < next_id
        BY DEF SessionsInv, SbTypeOK, TagsKnown
      <4> QED BY <1>3, <4>1 DEF Message
    <3> QED BY <1>3, <3>1, <3>2
  <2>2. released' \subseteq {b \in Agent : b < next_id'}
    <3> SUFFICES ASSUME NEW b \in released PROVE b \in Agent /\ b < next_id'
      BY <1>2
    <3>1. b \in Agent /\ b \in Nat /\ b < next_id
      BY <1>3
    <3> QED BY <1>3, <3>1
  <2> QED BY <2>1, <2>2 DEF TagsKnown
<1> QED BY <1>1, <1>4, <1>5, <1>6 DEF SessionsInv

\* The other sessions, whatever the network thread does for s.
LEMMA NetworkOthers ==
  ASSUME SessionsInv, UNCHANGED vars, NEW type \in {"new", "hello", "disconnect"},
         NEW s \in Agent, NEW tag \in Agent, Forward(type, s, tag),
         NEW a \in Agent \ confused', a # s, AgentInv(a),
         hellos'[a] = hellos[a], a \in reading' <=> a \in reading,
         peer_lost \subseteq peer_lost', a < next_id' <=> a < next_id
  PROVE  AgentInv(a)'
<1> DEFINE m == [type |-> type, tag |-> tag]
<1>1. /\ m \in Message /\ m.tag = tag
      /\ in_queue \in Seq(Message)
      /\ \A i \in DOMAIN in_queue : i \in DOMAIN in_queue' /\ in_queue'[i] = in_queue[i]
      /\ \A i \in DOMAIN in_queue' : \/ i \in DOMAIN in_queue /\ in_queue'[i] = in_queue[i]
                                     \/ in_queue'[i] = m
  <2> HIDE DEF m
  <2>1. m = [type |-> type, tag |-> tag]
    BY DEF m
  <2> QED BY <2>1, Forwarded
<1>2. a # tag
  BY ForwardedConfuses
<1> HIDE DEF m
<1> QED BY <1>1, <1>2, OthersUnaffected

\* Of the RIB and of its own hellos an agent keeps what is said of it.
LEMMA SameRib ==
  ASSUME NEW a \in Agent, UNCHANGED vars
  PROVE  /\ UNCHANGED <<conn, released, helloed>>
         /\ Known(a)' <=> Known(a)
         /\ Single(a)' <=> Single(a)
BY DEF vars, ribVars, Known, agent_is_pending, Single

LEMMA AcceptIInv == SbIInv /\ Accept => SbIInv'
<1> SUFFICES ASSUME SbIInv, Accept PROVE SbIInv'
  OBVIOUS
<1> DEFINE s == next_id
<1>1. /\ s \in Agent /\ s \in Nat /\ next_id' = s + 1 /\ Forward("new", s, s)
      /\ sessions' = sessions \cup {s} /\ reading' = reading \cup {s}
      /\ UNCHANGED <<vars, written, wfailed, peer_lost, hellos, rem_msgs, dropped>>
  BY DEF Accept, SbIInv, SessionsInv, SbTypeOK
<1>2. SessionsInv /\ Agent \subseteq Nat
  BY AgentAssumption DEF SbIInv
<1> HIDE DEF s
<1>3. SessionsInv'
  <2>1. /\ \A b \in Agent : b \in sessions' <=> b \in sessions \/ (next_id <= b /\ b < next_id')
        /\ sessions' \subseteq Agent
    <3>1. \A b \in Agent : b = s <=> next_id <= b /\ b < next_id'
      BY <1>1, <1>2 DEF s
    <3>2. sessions \subseteq Agent
      BY <1>2 DEF SessionsInv, SbTypeOK
    <3> QED BY <1>1, <3>1, <3>2
  <2>2. s < next_id' /\ next_id' \in Nat /\ next_id' >= next_id
    BY <1>1 DEF s
  <2>3. reading' \cup written' \cup wfailed' \cup peer_lost' \subseteq {b \in Agent : b < next_id'}
    <3>1. reading \cup written \cup wfailed \cup peer_lost \subseteq {b \in Agent : b < next_id}
      BY <1>2 DEF SessionsInv, SbTypeOK
    <3>2. \A b \in Agent : b = s \/ b < next_id => b < next_id'
      BY <1>1, <1>2 DEF s
    <3> QED BY <1>1, <3>1, <3>2
  <2>4. hellos' \in [Agent -> 0..MaxHellos]
    BY <1>1, <1>2 DEF SessionsInv, SbTypeOK
  <2> QED BY <1>1, <1>2, <2>1, <2>2, <2>3, <2>4, NetworkSessions
<1>4. ASSUME NEW a \in Agent \ confused' PROVE AgentInv(a)'
  <2>1. a \in Agent \ confused /\ AgentInv(a)
    BY <1>1, <1>2, ForwardedConfuses DEF SbIInv
  <2>2. CASE a # s
    BY <1>1, <1>2, <2>1, <2>2, NetworkOthers DEF s
  <2>3. CASE a = s
    <3> DEFINE n == Len(in_queue) + 1
    <3>1. in_queue' = Append(in_queue, [type |-> "new", tag |-> a]) /\ in_queue \in Seq(Message)
      BY <1>1, <1>2, <2>3, ForwardedConfuses DEF SessionsInv, SbTypeOK
    <3>2. /\ n \in DOMAIN in_queue' /\ in_queue'[n] = [type |-> "new", tag |-> a]
          /\ n \in Int /\ DOMAIN in_queue' \subseteq Int
          /\ \A i \in DOMAIN in_queue' : i < n => i \in DOMAIN in_queue
          /\ \A i \in DOMAIN in_queue' : i <= n
          /\ \A i \in DOMAIN in_queue :
               i < n /\ i \in DOMAIN in_queue' /\ in_queue'[i] = in_queue[i]
          /\ \A t \in {"new", "hello", "disconnect"} : Queued(t, a)' <=> Queued(t, a) \/ t = "new"
      BY <3>1, Appended
    <3> HIDE DEF n
    <3>3. \A i \in DOMAIN in_queue : in_queue[i].tag # a
      BY <1>1, <1>2, <2>3 DEF SessionsInv, TagsKnown, s
    <3>4. \A i \in DOMAIN in_queue' : in_queue'[i].tag = a => i = n
      BY <3>2, <3>3
    <3>5. /\ Queued("new", a)' /\ ~ Queued("hello", a)' /\ ~ Queued("disconnect", a)'
      BY <3>2, <3>3 DEF Queued
    <3>6. Reported(a)' /\ Ends(a)'
      BY <1>1, <2>3, <3>5 DEF Reported, Ends
    <3>7. Begins(a)'
      BY <3>2, <3>4, <3>5 DEF Begins
    <3>8. Once(a)'
      <4>1. a \in reading'
        BY <1>1, <2>3
      <4>2. hellos'[a] = hellos[a]
        BY <1>1
      <4>3. OneHello(a) => OneHello(a)'
        <5>1. UNCHANGED <<helloed, hellos>> /\ (Known(a)' <=> Known(a))
          BY <1>1, SameRib
        <5>2. \A i \in DOMAIN in_queue' : in_queue'[i] # [type |-> "hello", tag |-> a]
          BY <3>5 DEF Queued
        <5>3. \A i, j \in DOMAIN in_queue' :
                /\ in_queue'[i] = [type |-> "hello", tag |-> a]
                /\ in_queue'[j] = [type |-> "hello", tag |-> a]
                => i = j
          BY <5>2
        <5>4. OneHello(a) => (a \in helloed => hellos[a] = 1) /\ (a \notin helloed => ~ Known(a))
          BY DEF OneHello
        <5>5. OneHello(a) => (a \in helloed' => hellos'[a] = 1) /\ (a \notin helloed' => ~ Known(a)')
          BY <5>1, <5>4
        <5>6. ~ Queued("hello", a)'
          BY <3>5
        <5> QED BY <5>3, <5>5, <5>6 DEF OneHello
      <4> QED BY <1>1, <2>1, <4>1, <4>2, <4>3, SameRib DEF AgentInv, Once, WillBeForgotten
    <3> QED BY <3>6, <3>7, <3>8 DEF AgentInv
  <2> QED BY <2>2, <2>3
<1> QED BY <1>3, <1>4 DEF SbIInv

LEMMA ReadHelloIInv == ASSUME SbIInv, NEW s \in Agent, ReadHello(s) PROVE SbIInv'
<1>1. PICK tag \in TagsRead(s) : Forward("hello", s, tag)
  BY DEF ReadHello
<1>2. /\ s \in reading /\ hellos[s] < MaxHellos /\ hellos' = [hellos EXCEPT ![s] = @ + 1]
      /\ UNCHANGED <<vars, next_id, sessions, reading, written, wfailed, peer_lost,
                     rem_msgs, dropped>>
  BY DEF ReadHello
<1>3. SessionsInv /\ Agent \subseteq Nat /\ next_id \in Nat /\ hellos \in [Agent -> 0..MaxHellos]
      /\ MaxHellos \in Nat
  BY AgentAssumption, QueueAssumption DEF SbIInv, SessionsInv, SbTypeOK
<1>4. tag \in Agent /\ tag < next_id
  <2>1. s < next_id
    BY <1>2, <1>3 DEF SessionsInv, SbTypeOK
  <2> QED BY <1>1, <1>3, <2>1, TagsReadAccepted
<1>5. SessionsInv'
  <2>1. /\ \A b \in Agent : b \in sessions' <=> b \in sessions \/ (next_id <= b /\ b < next_id')
        /\ sessions' \subseteq Agent
    <3>1. \A b \in Agent : ~ (next_id <= b /\ b < next_id')
      BY <1>2, <1>3
    <3>2. sessions \subseteq Agent
      BY <1>3 DEF SessionsInv, SbTypeOK
    <3> QED BY <1>2, <3>1, <3>2
  <2>2. reading' \cup written' \cup wfailed' \cup peer_lost' \subseteq {b \in Agent : b < next_id'}
    BY <1>2, <1>3 DEF SessionsInv, SbTypeOK
  <2>3. hellos' \in [Agent -> 0..MaxHellos]
    BY <1>2, <1>3
  <2>4. next_id' \in Nat /\ next_id' >= next_id
    BY <1>2, <1>3
  <2> QED BY <1>1, <1>2, <1>3, <1>4, <2>1, <2>2, <2>3, <2>4, NetworkSessions
<1>6. ASSUME NEW a \in Agent \ confused' PROVE AgentInv(a)'
  <2>1. a \in Agent \ confused /\ AgentInv(a)
    BY <1>1, <1>3, <1>4, ForwardedConfuses DEF SbIInv
  <2>2. CASE a # s
    <3>1. hellos'[a] = hellos[a]
      BY <1>2, <1>3, <2>2
    <3> QED BY <1>1, <1>2, <1>3, <1>4, <2>1, <2>2, <3>1, NetworkOthers
  <2>3. CASE a = s
    <3> DEFINE n == Len(in_queue) + 1
    <3>1. in_queue' = Append(in_queue, [type |-> "hello", tag |-> a]) /\ in_queue \in Seq(Message)
      BY <1>1, <1>3, <1>4, <2>3, ForwardedConfuses DEF SessionsInv, SbTypeOK
    <3>2. /\ n \in DOMAIN in_queue' /\ in_queue'[n] = [type |-> "hello", tag |-> a]
          /\ n \in Int /\ DOMAIN in_queue' \subseteq Int
          /\ \A i \in DOMAIN in_queue' : i < n => i \in DOMAIN in_queue
          /\ \A i \in DOMAIN in_queue' : i <= n
          /\ \A i \in DOMAIN in_queue :
               i < n /\ i \in DOMAIN in_queue' /\ in_queue'[i] = in_queue[i]
          /\ \A t \in {"new", "hello", "disconnect"} : Queued(t, a)' <=> Queued(t, a) \/ t = "hello"
      BY <3>1, Appended
    <3> HIDE DEF n
    <3>a. a \in reading'
      BY <1>2, <2>3
    <3>3. Reported(a)' /\ Ends(a)'
      BY <1>2, <2>1, <3>a, <3>2, SameRib DEF AgentInv, Reported, Ends
    <3>4. Begins(a)'
      <4>1. in_queue'[n] # [type |-> "new", tag |-> a]
        BY <3>2
      <4>2. \A j \in DOMAIN in_queue' : in_queue'[j] = [type |-> "new", tag |-> a] =>
              j \in DOMAIN in_queue /\ in_queue[j] = [type |-> "new", tag |-> a]
        BY <3>2, <4>1
      <4>3. \A i \in DOMAIN in_queue' : i = n \/ (i \in DOMAIN in_queue /\ in_queue'[i] = in_queue[i])
        BY <3>2
      <4>4. \A i, j \in DOMAIN in_queue' :
              in_queue'[i].tag = a /\ in_queue'[j] = [type |-> "new", tag |-> a] => i >= j
        BY <2>1, <3>2, <4>2, <4>3 DEF AgentInv, Begins
      <4>5. conn'[a] = "none" /\ a < next_id' => Queued("new", a)'
        BY <1>2, <2>1, <3>2, SameRib DEF AgentInv, Begins
      <4> QED BY <4>4, <4>5 DEF Begins
    <3>5. Once(a)'
      <4> SUFFICES ASSUME hellos'[a] <= 1 PROVE OneHello(a)' /\ Single(a)' /\ WillBeForgotten(a)'
        BY DEF Once
      <4>1. hellos'[a] = 1 /\ hellos[a] = 0
        BY <1>2, <1>3, <2>3
      <4>2. OneHello(a) /\ Single(a)
        BY <2>1, <4>1 DEF AgentInv, Once
      <4>3. ~ Queued("hello", a) /\ a \notin helloed
        BY <4>1, <4>2 DEF OneHello
      <4>4. \A i \in DOMAIN in_queue' : in_queue'[i] = [type |-> "hello", tag |-> a] => i = n
        BY <3>2, <4>3 DEF Queued
      <4>5. OneHello(a)'
        BY <1>2, <4>1, <4>2, <4>3, <4>4, SameRib DEF OneHello
      <4> QED BY <1>2, <3>a, <4>2, <4>5, SameRib DEF WillBeForgotten
    <3> QED BY <3>3, <3>4, <3>5 DEF AgentInv
  <2> QED BY <2>2, <2>3
<1> QED BY <1>5, <1>6 DEF SbIInv

\* A disconnect of the session goes to the end of its messages.
LEMMA DisconnectQueued ==
  ASSUME SessionsInv, NEW a \in Agent, AgentInv(a), UNCHANGED vars, hellos'[a] = hellos[a],
         next_id' = next_id, a \in peer_lost' \cup released,
         in_queue' = Append(in_queue, [type |-> "disconnect", tag |-> a])
  PROVE  AgentInv(a)'
<1> DEFINE n == Len(in_queue) + 1
<1>1. in_queue \in Seq(Message)
  BY DEF SessionsInv, SbTypeOK
<1>2. /\ n \in DOMAIN in_queue' /\ in_queue'[n] = [type |-> "disconnect", tag |-> a]
      /\ n \in Int /\ DOMAIN in_queue' \subseteq Int
      /\ \A i \in DOMAIN in_queue' : i < n => i \in DOMAIN in_queue
      /\ \A i \in DOMAIN in_queue' : i <= n
      /\ \A i \in DOMAIN in_queue :
           i < n /\ i \in DOMAIN in_queue' /\ in_queue'[i] = in_queue[i]
      /\ \A t \in {"new", "hello", "disconnect"} :
           Queued(t, a)' <=> Queued(t, a) \/ t = "disconnect"
  BY <1>1, Appended
<1> HIDE DEF n
<1>3. UNCHANGED <<conn, released, helloed>> /\ (Known(a)' <=> Known(a)) /\ (Single(a)' <=> Single(a))
  BY SameRib
<1>4. \A type \in {"new", "hello"} : \A i \in DOMAIN in_queue' :
        in_queue'[i] = [type |-> type, tag |-> a] =>
          i \in DOMAIN in_queue /\ in_queue[i] = [type |-> type, tag |-> a]
  <2>1. \A type \in {"new", "hello"} : in_queue'[n] # [type |-> type, tag |-> a]
    BY <1>2
  <2> QED BY <1>2, <2>1
<1>5. Reported(a)'
  BY <1>3 DEF Reported
<1>6. Ends(a)'
  <2>1. \A i \in DOMAIN in_queue' :
          in_queue'[i] = [type |-> "hello", tag |-> a] => n > i
    BY <1>2, <1>4
  <2> QED BY <1>2, <2>1 DEF Ends
<1>7. Begins(a)'
  <2>1. \A i, j \in DOMAIN in_queue' :
          in_queue'[i].tag = a /\ in_queue'[j] = [type |-> "new", tag |-> a] => i >= j
    <3>1. \A i \in DOMAIN in_queue' : i = n \/ (i \in DOMAIN in_queue /\ in_queue'[i] = in_queue[i])
      BY <1>2
    <3> QED BY <1>2, <1>4, <3>1 DEF AgentInv, Begins
  <2>2. conn'[a] = "none" /\ a < next_id' => Queued("new", a)'
    BY <1>2, <1>3 DEF AgentInv, Begins
  <2> QED BY <2>1, <2>2 DEF Begins
<1>8. Once(a)'
  <2>1. OneHello(a) => OneHello(a)'
    <3>1. Queued("hello", a)' <=> Queued("hello", a)
      BY <1>2
    <3>2. OneHello(a) =>
            \A i, j \in DOMAIN in_queue' :
              /\ in_queue'[i] = [type |-> "hello", tag |-> a]
              /\ in_queue'[j] = [type |-> "hello", tag |-> a]
              => i = j
      BY <1>4 DEF OneHello
    <3> QED BY <1>3, <3>1, <3>2 DEF OneHello
  <2>2. WillBeForgotten(a)'
    BY <1>2 DEF WillBeForgotten
  <2> QED BY <1>3, <2>1, <2>2 DEF AgentInv, Once
<1> QED BY <1>5, <1>6, <1>7, <1>8 DEF AgentInv

\* A read or a write of session s has failed.
LEMMA FailedIInv ==
  ASSUME SbIInv, NEW s \in Agent, NEW tag \in Agent, Forward("disconnect", s, tag),
         tag < next_id, s < next_id,
         peer_lost' = (IF s \in sessions THEN peer_lost \cup {s} ELSE peer_lost),
         UNCHANGED <<vars, next_id, sessions, written, hellos, rem_msgs, dropped>>,
         \A b \in Agent : b # s => (b \in reading' <=> b \in reading),
         reading' \subseteq reading, wfailed' \subseteq wfailed \cup {s}
  PROVE  SbIInv'
<1>1. SessionsInv /\ next_id \in Nat /\ Agent \subseteq Nat
  BY AgentAssumption DEF SbIInv, SessionsInv, SbTypeOK
<1>2. SessionsInv'
  <2>1. /\ \A b \in Agent : b \in sessions' <=> b \in sessions \/ (next_id <= b /\ b < next_id')
        /\ sessions' \subseteq Agent
    <3>1. \A b \in Agent : ~ (next_id <= b /\ b < next_id')
      BY <1>1
    <3>2. sessions \subseteq Agent
      BY <1>1 DEF SessionsInv, SbTypeOK
    <3> QED BY <3>1, <3>2
  <2>2. reading' \cup written' \cup wfailed' \cup peer_lost' \subseteq {b \in Agent : b < next_id'}
    <3>1. reading \cup written \cup wfailed \cup peer_lost \subseteq {b \in Agent : b < next_id}
      BY <1>1 DEF SessionsInv, SbTypeOK
    <3> QED BY <3>1
  <2>3. hellos' \in [Agent -> 0..MaxHellos]
    BY <1>1 DEF SessionsInv, SbTypeOK
  <2>4. next_id' \in Nat /\ next_id' >= next_id /\ tag < next_id'
    BY <1>1
  <2>5. UNCHANGED <<vars, rem_msgs, dropped>>
    OBVIOUS
  <2> QED BY <1>1, <2>1, <2>2, <2>3, <2>4, <2>5, NetworkSessions
<1>3. ASSUME NEW a \in Agent \ confused' PROVE AgentInv(a)'
  <2>1. a \in Agent \ confused /\ AgentInv(a)
    BY <1>1, ForwardedConfuses DEF SbIInv
  <2>2. CASE a # s
    <3>1. hellos'[a] = hellos[a] /\ (a \in reading' <=> a \in reading) /\ peer_lost \subseteq peer_lost'
      BY <2>2
    <3> QED BY <1>1, <2>1, <2>2, <3>1, NetworkOthers
  <2>3. CASE a = s
    <3>1. in_queue' = Append(in_queue, [type |-> "disconnect", tag |-> a])
      BY <1>1, <2>3, ForwardedConfuses
    <3>2. a \in peer_lost' \cup released
      BY <1>1, <2>3 DEF SessionsInv, SessionsUntilReleased
    <3> QED BY <1>1, <2>1, <3>1, <3>2, DisconnectQueued
  <2> QED BY <2>2, <2>3
<1> QED BY <1>2, <1>3 DEF SbIInv

LEMMA ReadFailedIInv == ASSUME SbIInv, NEW s \in Agent, ReadFailed(s) PROVE SbIInv'
<1>1. PICK tag \in TagsRead(s) : Forward("disconnect", s, tag)
  BY DEF ReadFailed
<1>2. SessionsInv /\ s < next_id
  BY DEF SbIInv, SessionsInv, SbTypeOK, ReadFailed
<1>3. tag \in Agent /\ tag < next_id
  BY <1>1, <1>2, TagsReadAccepted
<1>4. /\ peer_lost' = IF s \in sessions THEN peer_lost \cup {s} ELSE peer_lost
      /\ UNCHANGED <<vars, next_id, sessions, written, hellos, rem_msgs, dropped>>
      /\ \A b \in Agent : b # s => (b \in reading' <=> b \in reading)
      /\ reading' \subseteq reading
      /\ wfailed' \subseteq wfailed \cup {s}
  BY DEF ReadFailed
<1> QED BY <1>1, <1>2, <1>3, <1>4, FailedIInv

LEMMA WriteFailedIInv == ASSUME SbIInv, NEW s \in Agent, WriteFailed(s) PROVE SbIInv'
<1>1. s < next_id /\ Forward("disconnect", s, s)
  BY DEF SbIInv, SessionsInv, SbTypeOK, WriteFailed
<1>2. /\ peer_lost' = IF s \in sessions THEN peer_lost \cup {s} ELSE peer_lost
      /\ UNCHANGED <<vars, next_id, sessions, written, hellos, rem_msgs, dropped>>
      /\ \A b \in Agent : b # s => (b \in reading' <=> b \in reading)
      /\ reading' \subseteq reading
      /\ wfailed' \subseteq wfailed \cup {s}
  BY DEF WriteFailed
<1> QED BY <1>1, <1>2, FailedIInv
-----------------------------------------------------------------------------
(***************************************************************************)
(* The updater                                                             *)
(***************************************************************************)

\* A message is taken from the front: the others move up.
LEMMA MovedUp ==
  ASSUME in_queue \in Seq(Message), in_queue # <<>>, in_queue' = Tail(in_queue),
         NEW m, m = Head(in_queue)
  PROVE  /\ m \in Message /\ 1 \in DOMAIN in_queue /\ in_queue[1] = m
         /\ in_queue' \in Seq(Message) /\ Len(in_queue') < Len(in_queue)
         /\ DOMAIN in_queue \subseteq Int /\ DOMAIN in_queue' \subseteq Int
         /\ \A i \in DOMAIN in_queue : i >= 1
         /\ \A i \in DOMAIN in_queue' : i + 1 \in DOMAIN in_queue /\ in_queue'[i] = in_queue[i + 1]
         /\ \A i \in DOMAIN in_queue :
              i # 1 => i - 1 \in DOMAIN in_queue' /\ in_queue'[i - 1] = in_queue[i]
<1>1. Len(in_queue) \in Nat /\ Len(in_queue) >= 1 /\ in_queue' \in Seq(Message)
  OBVIOUS
<1>2. Len(in_queue') = Len(in_queue) - 1 /\ DOMAIN in_queue = 1..Len(in_queue)
      /\ DOMAIN in_queue' = 1..(Len(in_queue) - 1)
  BY <1>1
<1>3. \A i \in 1..(Len(in_queue) - 1) : in_queue'[i] = in_queue[i + 1]
  BY <1>1
<1>4. m \in Message /\ in_queue[1] = m
  BY <1>1, <1>2
<1> QED BY <1>1, <1>2, <1>3, <1>4

\* What moving up leaves as it is, for one agent.
LEMMA MovedUpAgent ==
  ASSUME in_queue \in Seq(Message), in_queue # <<>>, in_queue' = Tail(in_queue),
         NEW m, m = Head(in_queue), NEW a \in Agent, reading' = reading
  PROVE  /\ \A t : Queued(t, a)' => Queued(t, a)
         /\ \A t : Queued(t, a) /\ m # [type |-> t, tag |-> a] => Queued(t, a)'
         /\ Queued(m.type, m.tag)
         /\ Ends(a) => Ends(a)'
         /\ Ends(a) /\ m = [type |-> "hello", tag |-> a] /\ a \notin reading
              => Queued("disconnect", a)'
         /\ (\A i, j \in DOMAIN in_queue :
               in_queue[i].tag = a /\ in_queue[j] = [type |-> "new", tag |-> a] => i >= j)
            => \A i, j \in DOMAIN in_queue' :
                 in_queue'[i].tag = a /\ in_queue'[j] = [type |-> "new", tag |-> a] => i >= j
         /\ (\A i, j \in DOMAIN in_queue :
               /\ in_queue[i] = [type |-> "hello", tag |-> a]
               /\ in_queue[j] = [type |-> "hello", tag |-> a]
               => i = j)
            => /\ m = [type |-> "hello", tag |-> a] => ~ Queued("hello", a)'
               /\ \A i, j \in DOMAIN in_queue' :
                    /\ in_queue'[i] = [type |-> "hello", tag |-> a]
                    /\ in_queue'[j] = [type |-> "hello", tag |-> a]
                    => i = j
<1>1. /\ m \in Message /\ 1 \in DOMAIN in_queue /\ in_queue[1] = m
      /\ DOMAIN in_queue \subseteq Int /\ DOMAIN in_queue' \subseteq Int
      /\ \A i \in DOMAIN in_queue : i >= 1
      /\ \A i \in DOMAIN in_queue' : i + 1 \in DOMAIN in_queue /\ in_queue'[i] = in_queue[i + 1]
      /\ \A i \in DOMAIN in_queue :
           i # 1 => i - 1 \in DOMAIN in_queue' /\ in_queue'[i - 1] = in_queue[i]
  BY MovedUp
<1>2. \A t : Queued(t, a)' => Queued(t, a)
  BY <1>1 DEF Queued
<1>3. \A t : Queued(t, a) /\ m # [type |-> t, tag |-> a] => Queued(t, a)'
  BY <1>1 DEF Queued
<1>4. Queued(m.type, m.tag)
  <2>1. m = [type |-> m.type, tag |-> m.tag]
    BY <1>1 DEF Message
  <2> QED BY <1>1, <2>1 DEF Queued
<1>5. ASSUME Ends(a), a \notin reading, NEW i \in DOMAIN in_queue,
             in_queue[i] = [type |-> "hello", tag |-> a]
      PROVE  \E j \in DOMAIN in_queue' :
               j + 1 > i /\ in_queue'[j] = [type |-> "disconnect", tag |-> a]
  <2>1. PICK k \in DOMAIN in_queue :
          k > i /\ in_queue[k] = [type |-> "disconnect", tag |-> a]
    BY <1>5 DEF Ends
  <2>2. k # 1 /\ k \in Int /\ i \in Int
    BY <1>1, <2>1
  <2>3. k - 1 \in DOMAIN in_queue' /\ in_queue'[k - 1] = in_queue[k] /\ (k - 1) + 1 > i
    BY <1>1, <2>1, <2>2
  <2> QED BY <2>1, <2>3
<1>6. Ends(a) => Ends(a)'
  <2> SUFFICES ASSUME Ends(a), a \notin reading, NEW i \in DOMAIN in_queue',
                      in_queue'[i] = [type |-> "hello", tag |-> a]
               PROVE  \E j \in DOMAIN in_queue' :
                        j > i /\ in_queue'[j] = [type |-> "disconnect", tag |-> a]
    BY DEF Ends
  <2>1. i + 1 \in DOMAIN in_queue /\ in_queue[i + 1] = [type |-> "hello", tag |-> a]
    BY <1>1
  <2>2. PICK j \in DOMAIN in_queue' :
          j + 1 > i + 1 /\ in_queue'[j] = [type |-> "disconnect", tag |-> a]
    BY <1>5, <2>1
  <2>3. j \in Int /\ i \in Int
    BY <1>1
  <2> QED BY <2>2, <2>3
<1>7. Ends(a) /\ m = [type |-> "hello", tag |-> a] /\ a \notin reading
        => Queued("disconnect", a)'
  BY <1>1, <1>5 DEF Queued
<1>8. ASSUME \A i, j \in DOMAIN in_queue :
               in_queue[i].tag = a /\ in_queue[j] = [type |-> "new", tag |-> a] => i >= j
      PROVE  \A i, j \in DOMAIN in_queue' :
               in_queue'[i].tag = a /\ in_queue'[j] = [type |-> "new", tag |-> a] => i >= j
  <2> SUFFICES ASSUME NEW i \in DOMAIN in_queue', NEW j \in DOMAIN in_queue',
                      in_queue'[i].tag = a, in_queue'[j] = [type |-> "new", tag |-> a]
               PROVE  i >= j
    OBVIOUS
  <2>1. i + 1 >= j + 1 /\ i \in Int /\ j \in Int
    BY <1>1, <1>8
  <2> QED BY <2>1
<1>9. ASSUME \A i, j \in DOMAIN in_queue :
               /\ in_queue[i] = [type |-> "hello", tag |-> a]
               /\ in_queue[j] = [type |-> "hello", tag |-> a]
               => i = j
      PROVE  /\ m = [type |-> "hello", tag |-> a] => ~ Queued("hello", a)'
             /\ \A i, j \in DOMAIN in_queue' :
                  /\ in_queue'[i] = [type |-> "hello", tag |-> a]
                  /\ in_queue'[j] = [type |-> "hello", tag |-> a]
                  => i = j
  <2>1. ASSUME NEW i \in DOMAIN in_queue', in_queue'[i] = [type |-> "hello", tag |-> a],
               NEW j \in DOMAIN in_queue, in_queue[j] = [type |-> "hello", tag |-> a]
        PROVE  j = i + 1 /\ j # 1 /\ i \in Int
    <3>1. i + 1 \in DOMAIN in_queue /\ in_queue[i + 1] = in_queue'[i] /\ i \in Int
      BY <1>1
    <3>2. j = i + 1
      BY <1>9, <2>1, <3>1
    <3>3. i - 0 \in DOMAIN in_queue' /\ DOMAIN in_queue' = 1..Len(in_queue')
      <4>1. in_queue' \in Seq(Message)
        BY MovedUp
      <4> QED BY <3>1, <4>1
    <3> QED BY <3>1, <3>2, <3>3
  <2>2. m = [type |-> "hello", tag |-> a] => ~ Queued("hello", a)'
    BY <1>1, <2>1 DEF Queued
  <2>3. ASSUME NEW i \in DOMAIN in_queue', NEW j \in DOMAIN in_queue',
               in_queue'[i] = [type |-> "hello", tag |-> a],
               in_queue'[j] = [type |-> "hello", tag |-> a]
        PROVE  i = j
    <3>1. i + 1 = j + 1 /\ i \in Int /\ j \in Int
      BY <1>1, <1>9, <2>3
    <3> QED BY <3>1
  <2> QED BY <2>2, <2>3
<1> QED BY <1>2, <1>3, <1>4, <1>6, <1>7, <1>8, <1>9

\* Only the updater runs the handlers of the RIB: its loop is a step of module Rib.
LEMMA UpdateIsRibStep ==
  ASSUME SbTypeOK, UpdateMessage, NEW m, m = Head(in_queue)
  PROVE  /\ m \in Message /\ m.tag \in Agent /\ Next /\ Dispatch(m)
         /\ \/ m.type = "new" /\ NewConnection(m.tag)
            \/ m.type = "hello" /\ Hello(m.tag)
            \/ m.type = "disconnect" /\ Disconnect(m.tag)
<1>1. m \in Message /\ m.tag \in Agent
  <2>1. in_queue \in Seq(Message) /\ in_queue # <<>>
    BY DEF SbTypeOK, UpdateMessage
  <2>2. m \in Message
    BY <2>1
  <2> QED BY <2>2 DEF Message
<1>2. Dispatch(m)
  BY DEF UpdateMessage
<1>3. \/ m.type = "new" /\ NewConnection(m.tag)
      \/ m.type = "hello" /\ Hello(m.tag)
      \/ m.type = "disconnect" /\ Disconnect(m.tag)
  BY <1>2 DEF Dispatch
<1> QED BY <1>1, <1>2, <1>3 DEF Next

\* Whoever is given up loses the session, and nobody else.
LEMMA DispatchReleases ==
  ASSUME SessionsInv, NEW m \in Message, Dispatch(m)
  PROVE  /\ released' \in {released, released \cup {m.tag}}
         /\ \A b \in Agent : b \in sessions' <=> b \in sessions /\ b \notin released'
         /\ sessions' \subseteq sessions
         /\ written' \subseteq written \cup sessions
<1>1. \A b \in Agent : b \in sessions => b \notin released
  BY DEF SessionsInv, SessionsUntilReleased
<1>2. sessions \subseteq Agent
  BY DEF SessionsInv, SbTypeOK
<1>3. sessions' = IF m.type = "disconnect" \/ released' # released
                  THEN sessions \ {m.tag} ELSE sessions
  BY DEF Dispatch
<1>4. CASE m.type = "new" /\ NewConnection(m.tag)
           /\ written' \in {written, written \cup ({m.tag} \cap sessions)}
  BY <1>1, <1>3, <1>4 DEF NewConnection
<1>5. CASE m.type = "hello" /\ Hello(m.tag) /\ UNCHANGED written
  <2>1. released' \in {released, released \cup {m.tag}}
    BY <1>5 DEF Hello, handle_hello
  <2> QED BY <1>1, <1>3, <1>5, <2>1
<1>6. CASE m.type = "disconnect" /\ Disconnect(m.tag) /\ UNCHANGED written
  <2>1. released' = released \cup {m.tag}
    BY <1>6 DEF Disconnect, handle_disconnect
  <2> QED BY <1>1, <1>3, <1>6, <2>1
<1> QED BY <1>4, <1>5, <1>6 DEF Dispatch

LEMMA UpdateSessions == SessionsInv /\ UpdateMessage => SessionsInv'
<1> SUFFICES ASSUME SessionsInv, UpdateMessage PROVE SessionsInv'
  OBVIOUS
<1> DEFINE m == Head(in_queue)
<1>1. /\ in_queue \in Seq(Message) /\ in_queue # <<>> /\ in_queue' = Tail(in_queue)
      /\ rem_msgs \in 0..Budget /\ rem_msgs > 0 /\ rem_msgs' = rem_msgs - 1
      /\ UNCHANGED <<next_id, reading, wfailed, peer_lost, hellos, dropped, confused>>
      /\ SbTypeOK
  BY DEF UpdateMessage, SessionsInv, SbTypeOK
<1>2. m \in Message /\ m.tag \in Agent /\ Next /\ Dispatch(m)
  BY <1>1, UpdateIsRibStep
<1>3. /\ 1 \in DOMAIN in_queue /\ in_queue[1] = m
      /\ in_queue' \in Seq(Message) /\ Len(in_queue') < Len(in_queue)
      /\ Len(in_queue') \in Nat /\ Len(in_queue) \in Nat
      /\ \A i \in DOMAIN in_queue' : i + 1 \in DOMAIN in_queue /\ in_queue'[i] = in_queue[i + 1]
  <2>1. in_queue' \in Seq(Message)
    BY <1>1, MovedUp
  <2> QED BY <1>1, <2>1, MovedUp
<1> HIDE DEF m
<1>4. /\ released' \in {released, released \cup {m.tag}}
      /\ \A b \in Agent : b \in sessions' <=> b \in sessions /\ b \notin released'
      /\ sessions' \subseteq sessions
      /\ written' \subseteq written \cup sessions
  BY <1>2, DispatchReleases
<1>5. IInv'
  BY <1>2, NextIInv DEF SessionsInv
<1>6. SbTypeOK'
  <2>1. Len(in_queue') <= InCapacity
    BY <1>1, <1>3, QueueAssumption DEF SbTypeOK
  <2>2. sessions' \cup reading' \cup written' \cup wfailed' \cup peer_lost'
          \subseteq {b \in Agent : b < next_id'}
    BY <1>1, <1>4 DEF SbTypeOK
  <2>3. rem_msgs' \in 0..Budget
    BY <1>1, QueueAssumption
  <2> QED BY <1>1, <1>3, <2>1, <2>2, <2>3 DEF SbTypeOK
<1>7. m.tag < next_id
  BY <1>3 DEF SessionsInv, TagsKnown
<1>8. SessionsUntilReleased'
  <2>1. \A b \in Agent : b \in sessions <=> b < next_id /\ b \notin released
    BY DEF SessionsInv, SessionsUntilReleased
  <2>2. \A b \in Agent : b \in sessions' <=> b < next_id' /\ b \notin released'
    BY <1>1, <1>4, <2>1
  <2>3. sessions' \subseteq Agent
    BY <1>1, <1>4 DEF SbTypeOK
  <2> QED BY <2>2, <2>3 DEF SessionsUntilReleased
<1>9. TagsKnown'
  BY <1>1, <1>2, <1>3, <1>4, <1>7 DEF SessionsInv, TagsKnown
<1> QED BY <1>5, <1>6, <1>8, <1>9 DEF SessionsInv

\* One turn of the loop, seen from one agent.
LEMMA UpdateAgent ==
  ASSUME SessionsInv, NEW a \in Agent, AgentInv(a), UpdateMessage
  PROVE  AgentInv(a)'
<1> DEFINE m == Head(in_queue)
<1>1. /\ in_queue \in Seq(Message) /\ in_queue # <<>> /\ in_queue' = Tail(in_queue)
      /\ UNCHANGED <<next_id, reading, wfailed, peer_lost, hellos, dropped, confused>>
      /\ SbTypeOK /\ IInv /\ m = Head(in_queue)
  BY DEF UpdateMessage, SessionsInv, SbTypeOK
<1> HIDE DEF m
<1>2. /\ m \in Message /\ m.tag \in Agent /\ Dispatch(m)
      /\ \/ m.type = "new" /\ NewConnection(m.tag)
         \/ m.type = "hello" /\ Hello(m.tag)
         \/ m.type = "disconnect" /\ Disconnect(m.tag)
  BY <1>1, UpdateIsRibStep
<1>a. \A t : m = [type |-> t, tag |-> a] <=> m.type = t /\ m.tag = a
  BY <1>2 DEF Message
<1>3. /\ \A t : Queued(t, a)' => Queued(t, a)
      /\ \A t : Queued(t, a) /\ m # [type |-> t, tag |-> a] => Queued(t, a)'
      /\ Queued(m.type, m.tag)
  BY <1>1, MovedUpAgent
<1>4. \A t : Queued(t, a) /\ ~ (m.type = t /\ m.tag = a) => Queued(t, a)'
  BY <1>3, <1>a
<1>5. Ends(a)'
  BY <1>1, MovedUpAgent DEF AgentInv
<1>6. Reported(a)'
  <2>1. released \subseteq released'
    BY <1>2, DispatchReleases
  <2> QED BY <1>1, <1>3, <2>1 DEF AgentInv, Reported
<1>7. Begins(a)'
  <2>1. \A i, j \in DOMAIN in_queue' :
          in_queue'[i].tag = a /\ in_queue'[j] = [type |-> "new", tag |-> a] => i >= j
    <3>1. \A i, j \in DOMAIN in_queue :
            in_queue[i].tag = a /\ in_queue[j] = [type |-> "new", tag |-> a] => i >= j
      BY DEF AgentInv, Begins
    <3> QED BY <1>1, <3>1, MovedUpAgent
  <2>2. conn'[a] = "none" /\ a < next_id' => Queued("new", a)'
    <3>1. conn'[a] = "none" => conn[a] = "none" /\ ~ (m.type = "new" /\ m.tag = a)
      <4>1. conn \in [Agent -> {"none", "open", "gone"}]
        BY <1>1 DEF IInv, TypeOK
      <4> QED BY <1>2, <4>1 DEF NewConnection, Hello, Disconnect
    <3>2. conn[a] = "none" /\ a < next_id => Queued("new", a)
      BY DEF AgentInv, Begins
    <3> QED BY <1>1, <1>4, <3>1, <3>2
  <2> QED BY <2>1, <2>2 DEF Begins
<1>8. Once(a)'
  <2> SUFFICES ASSUME hellos[a] <= 1 PROVE OneHello(a)' /\ Single(a)' /\ WillBeForgotten(a)'
    BY <1>1 DEF Once
  <2>1. OneHello(a) /\ Single(a) /\ WillBeForgotten(a) /\ Ends(a)
    BY DEF AgentInv, Once
  <2>2. /\ \A i, j \in DOMAIN in_queue :
             /\ in_queue[i] = [type |-> "hello", tag |-> a]
             /\ in_queue[j] = [type |-> "hello", tag |-> a]
             => i = j
        /\ Queued("hello", a) => a \notin helloed
        /\ Queued("hello", a) \/ a \in helloed => hellos[a] = 1
        /\ a \notin helloed => ~ Known(a)
    BY <2>1 DEF OneHello
  <2>3. /\ m.type = "hello" /\ m.tag = a => ~ Queued("hello", a)'
        /\ \A i, j \in DOMAIN in_queue' :
             /\ in_queue'[i] = [type |-> "hello", tag |-> a]
             /\ in_queue'[j] = [type |-> "hello", tag |-> a]
             => i = j
    BY <1>1, <1>a, <2>2, MovedUpAgent
  <2>4. m.type = "hello" /\ m.tag = a /\ a \notin reading => Queued("disconnect", a)'
    BY <1>1, <1>a, <2>1, MovedUpAgent
  <2>5. /\ Single(a)'
        /\ ~ (m.type = "hello" /\ m.tag = a) /\ ~ Known(a) => ~ Known(a)'
        /\ m.type = "disconnect" /\ m.tag = a => ~ Known(a)'
    <3>1. CASE m.type = "new" /\ NewConnection(m.tag)
      BY <2>1, <3>1 DEF NewConnection, ribVars, Single, Known, agent_is_pending
    <3>2. CASE m.type = "hello" /\ Hello(m.tag)
      <4>1. m.tag = a => ~ Known(a)
        BY <1>3, <2>2, <3>2
      <4> QED BY <1>1, <1>2, <2>1, <3>2, <4>1, HelloSingle
    <3>3. CASE m.type = "disconnect" /\ Disconnect(m.tag)
      BY <1>1, <1>2, <2>1, <3>3, DisconnectSingle
    <3> QED BY <1>2, <3>1, <3>2, <3>3
  <2>6. helloed' = IF m.type = "hello" THEN helloed \cup {m.tag} ELSE helloed
    BY <1>2 DEF NewConnection, Hello, Disconnect
  <2>7. OneHello(a)'
    <3>1. Queued("hello", a)' => a \notin helloed'
      BY <1>3, <2>2, <2>3, <2>6
    <3>2. Queued("hello", a)' \/ a \in helloed' => hellos'[a] = 1
      BY <1>1, <1>3, <2>2, <2>6
    <3>3. a \notin helloed' => ~ Known(a)'
      BY <2>2, <2>5, <2>6
    <3> QED BY <2>3, <3>1, <3>2, <3>3 DEF OneHello
  <2>8. WillBeForgotten(a)'
    <3>1. CASE m.type = "hello" /\ m.tag = a
      BY <1>1, <2>4, <3>1 DEF WillBeForgotten
    <3>2. CASE ~ (m.type = "hello" /\ m.tag = a)
      <4>1. Known(a)' => Known(a) /\ ~ (m.type = "disconnect" /\ m.tag = a)
        BY <2>5, <3>2
      <4> QED BY <1>1, <1>4, <2>1, <4>1 DEF WillBeForgotten
    <3> QED BY <3>1, <3>2
  <2> QED BY <2>5, <2>7, <2>8
<1> QED BY <1>5, <1>6, <1>7, <1>8 DEF AgentInv

LEMMA UpdateIInv == SbIInv /\ UpdateMessage => SbIInv'
<1> SUFFICES ASSUME SbIInv, UpdateMessage PROVE SbIInv'
  OBVIOUS
<1>1. confused' = confused /\ SessionsInv /\ SessionsInv'
  BY UpdateSessions DEF SbIInv, UpdateMessage
<1>2. \A a \in Agent \ confused : AgentInv(a)'
  BY <1>1, UpdateAgent DEF SbIInv
<1> QED BY <1>1, <1>2 DEF SbIInv

\* A message that is discarded confuses its session, and only that one.
LEMMA DropIInv == SbIInv /\ DropMessage => SbIInv'
<1> SUFFICES ASSUME SbIInv, DropMessage PROVE SbIInv'
  OBVIOUS
<1> DEFINE m == Head(in_queue)
<1>1. /\ in_queue \in Seq(Message) /\ in_queue # <<>> /\ in_queue' = Tail(in_queue)
      /\ UNCHANGED <<vars, netVars>> /\ rem_msgs' = Budget /\ dropped' = TRUE
      /\ confused' = confused \cup {m.tag}
      /\ SessionsInv /\ SbTypeOK /\ m = Head(in_queue)
  BY DEF DropMessage, SbIInv, SessionsInv, SbTypeOK
<1> HIDE DEF m
<1>2. /\ m \in Message /\ m.tag \in Agent
      /\ in_queue' \in Seq(Message) /\ Len(in_queue') < Len(in_queue)
      /\ Len(in_queue') \in Nat /\ Len(in_queue) \in Nat
      /\ \A i \in DOMAIN in_queue' : i + 1 \in DOMAIN in_queue /\ in_queue'[i] = in_queue[i + 1]
  <2>1. m \in Message /\ in_queue' \in Seq(Message)
    BY <1>1, MovedUp
  <2> QED BY <1>1, <2>1, MovedUp DEF Message
<1>3. SessionsInv'
  <2>1. IInv'
    BY <1>1, NextIInv DEF SessionsInv
  <2>2. SbTypeOK'
    <3>1. /\ next_id' = next_id /\ sessions' = sessions /\ reading' = reading /\ written' = written
          /\ wfailed' = wfailed /\ peer_lost' = peer_lost /\ hellos' = hellos
      BY <1>1 DEF netVars
    <3>2. rem_msgs' \in 0..Budget /\ dropped' \in BOOLEAN /\ confused' \subseteq Agent
      <4>1. rem_msgs' \in 0..Budget
        BY <1>1, QueueAssumption
      <4>2. dropped' \in BOOLEAN
        BY <1>1
      <4>3. confused \subseteq Agent
        BY <1>1 DEF SbTypeOK
      <4>4. confused' \subseteq Agent
        BY <1>1, <1>2, <4>3
      <4> QED BY <4>1, <4>2, <4>4
    <3>3. in_queue' \in Seq(Message) /\ Len(in_queue') <= InCapacity
      BY <1>1, <1>2, QueueAssumption DEF SbTypeOK
    <3> QED BY <1>1, <3>1, <3>2, <3>3 DEF SbTypeOK
  <2>3. SessionsUntilReleased'
    BY <1>1 DEF SessionsInv, SessionsUntilReleased, netVars, vars
  <2>4. TagsKnown'
    BY <1>1, <1>2 DEF SessionsInv, TagsKnown, netVars, vars
  <2> QED BY <2>1, <2>2, <2>3, <2>4 DEF SessionsInv
<1>4. ASSUME NEW a \in Agent \ confused' PROVE AgentInv(a)'
  <2>1. AgentInv(a) /\ m.tag # a /\ UNCHANGED <<reading, hellos, peer_lost, next_id>>
    BY <1>1 DEF SbIInv, netVars
  <2>2. \A t : m # [type |-> t, tag |-> a]
    BY <2>1
  <2>3. \A t : Queued(t, a)' <=> Queued(t, a)
    BY <1>1, <2>1, <2>2, MovedUpAgent
  <2>4. /\ UNCHANGED <<conn, released, helloed>>
        /\ Known(a)' <=> Known(a)
        /\ Single(a)' <=> Single(a)
    BY <1>1, SameRib
  <2>5. Reported(a)' /\ Ends(a)'
    BY <1>1, <2>1, <2>3, <2>4, MovedUpAgent DEF AgentInv, Reported
  <2>6. Begins(a)'
    <3>1. \A i, j \in DOMAIN in_queue :
            in_queue[i].tag = a /\ in_queue[j] = [type |-> "new", tag |-> a] => i >= j
      BY <2>1 DEF AgentInv, Begins
    <3>2. \A i, j \in DOMAIN in_queue' :
            in_queue'[i].tag = a /\ in_queue'[j] = [type |-> "new", tag |-> a] => i >= j
      BY <1>1, <2>1, <3>1, MovedUpAgent
    <3> QED BY <2>1, <2>3, <2>4, <3>2 DEF AgentInv, Begins
  <2>7. Once(a)'
    <3> SUFFICES ASSUME hellos[a] <= 1 PROVE OneHello(a)' /\ Single(a)' /\ WillBeForgotten(a)'
      BY <2>1 DEF Once
    <3>1. OneHello(a) /\ Single(a) /\ WillBeForgotten(a)
      BY <2>1 DEF AgentInv, Once
    <3>2. \A i, j \in DOMAIN in_queue' :
            /\ in_queue'[i] = [type |-> "hello", tag |-> a]
            /\ in_queue'[j] = [type |-> "hello", tag |-> a]
            => i = j
      <4>1. \A i, j \in DOMAIN in_queue :
              /\ in_queue[i] = [type |-> "hello", tag |-> a]
              /\ in_queue[j] = [type |-> "hello", tag |-> a]
              => i = j
        BY <3>1 DEF OneHello
      <4> QED BY <1>1, <2>1, <4>1, MovedUpAgent
    <3>3. OneHello(a)'
      <4>1. Queued("hello", a)' <=> Queued("hello", a)
        BY <2>3
      <4> QED BY <2>1, <2>4, <3>1, <3>2, <4>1 DEF OneHello
    <3> QED BY <2>1, <2>3, <2>4, <3>1, <3>3 DEF WillBeForgotten
  <2> QED BY <2>5, <2>6, <2>7 DEF AgentInv
<1> QED BY <1>1, <1>3, <1>4 DEF SbIInv

LEMMA EndIInv == SbIInv /\ (EndUpdate \/ UNCHANGED sbVars) => SbIInv'
<1> SUFFICES ASSUME SbIInv, EndUpdate \/ UNCHANGED sbVars PROVE SbIInv'
  OBVIOUS
<1>1. /\ UNCHANGED <<vars, netVars, in_queue, dropped, confused>>
      /\ rem_msgs' \in {rem_msgs, Budget}
      /\ SessionsInv
  BY DEF SbIInv, EndUpdate, sbVars
<1>2. SessionsInv'
  <2>1. IInv'
    BY <1>1, NextIInv DEF SessionsInv
  <2>2. SbTypeOK'
    BY <1>1, QueueAssumption DEF SessionsInv, SbTypeOK, netVars
  <2>3. SessionsUntilReleased' /\ TagsKnown'
    BY <1>1 DEF SessionsInv, SessionsUntilReleased, TagsKnown, netVars, vars
  <2> QED BY <2>1, <2>2, <2>3 DEF SessionsInv
<1>3. ASSUME NEW a \in Agent \ confused' PROVE AgentInv(a)'
  <2>1. /\ AgentInv(a) /\ in_queue \in Seq(Message)
        /\ UNCHANGED <<vars, in_queue, reading, hellos, peer_lost, next_id>>
    BY <1>1 DEF SbIInv, SessionsInv, SbTypeOK, netVars
  <2> QED BY <2>1, OthersUnaffected
<1> QED BY <1>1, <1>2, <1>3 DEF SbIInv

LEMMA SbInitIInv == SbInit => SbIInv
<1> SUFFICES ASSUME SbInit PROVE SbIInv
  OBVIOUS
<1>1. IInv
  BY InitIInv DEF SbInit
<1>2. in_queue = <<>> /\ in_queue \in Seq(Message) /\ DOMAIN in_queue = {} /\ Len(in_queue) = 0
  BY DEF SbInit
<1>3. SbTypeOK
  <2>1. hellos \in [Agent -> 0..MaxHellos]
    <3>1. 0 \in 0..MaxHellos
      BY QueueAssumption
    <3> QED BY <3>1 DEF SbInit
  <2>2. rem_msgs \in 0..Budget /\ next_id \in Nat /\ Len(in_queue) <= InCapacity
    BY <1>2, QueueAssumption DEF SbInit
  <2>3. /\ sessions \cup reading \cup written \cup wfailed \cup peer_lost = {}
        /\ confused = {} /\ dropped = FALSE
    BY DEF SbInit
  <2> QED BY <1>2, <2>1, <2>2, <2>3 DEF SbTypeOK
<1>4. SessionsUntilReleased /\ TagsKnown
  BY <1>2, AgentAssumption DEF SbInit, Init, SessionsUntilReleased, TagsKnown
<1>5. ASSUME NEW a \in Agent PROVE AgentInv(a)
  <2>1. \A t : ~ Queued(t, a)
    BY <1>2 DEF Queued
  <2>2. ~ Known(a) /\ Single(a)
    BY DEF SbInit, Init, Known, Single, agent_is_pending
  <2>3. a \in Nat /\ helloed = {} /\ next_id = 0
    BY AgentAssumption DEF SbInit, Init
  <2>4. Reported(a) /\ Ends(a) /\ Begins(a)
    BY <1>2, <2>1, <2>3 DEF Reported, Ends, Begins
  <2>5. Once(a)
    BY <1>2, <2>1, <2>2, <2>3 DEF Once, OneHello, WillBeForgotten
  <2> QED BY <2>4, <2>5 DEF AgentInv
<1> QED BY <1>1, <1>3, <1>4, <1>5 DEF SbIInv, SessionsInv

LEMMA SbNextIInv == SbIInv /\ [SbNext]_sbVars => SbIInv'
BY AcceptIInv, ReadHelloIInv, ReadFailedIInv, WriteFailedIInv, UpdateIInv, DropIInv, EndIInv
   DEF SbNext, Network, Updater

LEMMA SouthboundInvariant == SbSpec => []SbIInv
BY SbInitIInv, SbNextIInv, PTL DEF SbSpec
-----------------------------------------------------------------------------
(***************************************************************************)
(* Theorems                                                                *)
(***************************************************************************)

\* Whatever the network thread and the updater do, the RIB takes a step of its own handlers or
\* none: what is proved of Rib's specification holds behind the message queue, too.
THEOREM RibBehindQueue == SbSpec => Spec
<1>1. SbInit => Init
  BY DEF SbInit
<1>2. SbIInv /\ [SbNext]_sbVars => [Next]_vars
  <2> SUFFICES ASSUME SbIInv, [SbNext]_sbVars PROVE [Next]_vars
    OBVIOUS
  <2>1. CASE UpdateMessage
    BY <2>1, UpdateIsRibStep DEF SbIInv, SessionsInv
  <2>2. CASE Network
    BY <2>2 DEF Network, Accept, ReadHello, ReadFailed, WriteFailed
  <2>3. CASE DropMessage \/ EndUpdate \/ UNCHANGED sbVars
    BY <2>3 DEF DropMessage, EndUpdate, sbVars
  <2> QED BY <2>1, <2>2, <2>3 DEF SbNext, Updater
<1> QED BY <1>1, <1>2, SouthboundInvariant, PTL DEF SbSpec, Spec

\* Every variable of the message path keeps its type; the queue never exceeds its capacity, nor
\* the budget its limit.
THEOREM SouthboundTypeCorrect == SbSpec => []SbTypeOK
<1>1. SbIInv => SbTypeOK
  BY DEF SbIInv, SessionsInv
<1> QED BY <1>1, SouthboundInvariant, PTL

\* connection_manager drops a session when the RIB releases its connection, and at no other
\* time.
THEOREM SessionsEndWithRelease == SbSpec => []SessionsUntilReleased
<1>1. SbIInv => SessionsUntilReleased
  BY DEF SbIInv, SessionsInv
<1> QED BY <1>1, SouthboundInvariant, PTL

\* The updater handles the new connection before any other message of the session.
THEOREM ConnectionsAnnouncedFirst == SbSpec => []AnnouncedFirst
<1>1. SbIInv => AnnouncedFirst
  BY DEF SbIInv, AgentInv, Begins, AnnouncedFirst
<1> QED BY <1>1, SouthboundInvariant, PTL

\* An agent of a single hello that the RIB knows still has a read outstanding, or its disconnect
\* waits for the updater.
THEOREM KnownAgentsWillBeForgotten == SbSpec => []KnownWillBeForgotten
<1>1. SbIInv => KnownWillBeForgotten
  BY DEF SbIInv, AgentInv, Once, WillBeForgotten, KnownWillBeForgotten
<1> QED BY <1>1, SouthboundInvariant, PTL

\* No hello of a session that does not read any more waits without a disconnect behind it.
THEOREM DisconnectsComeLast == SbSpec => []DisconnectIsLast
<1>1. SbIInv => DisconnectIsLast
  BY DEF SbIInv, AgentInv, Ends, DisconnectIsLast
<1> QED BY <1>1, SouthboundInvariant, PTL

\* handle_disconnect() only runs for an agent whose connection failed or was released, unless a
\* message was ascribed to the wrong session.
THEOREM OnlyLostAgentsDisconnected == SbSpec => OnlyLostDisconnected
<1> DEFINE Lost == \A a \in Agent \ confused' :
             conn[a] # "gone" /\ conn'[a] = "gone" => a \in peer_lost \cup released
<1>1. ASSUME SbIInv, [SbNext]_sbVars PROVE [Lost]_sbVars
  <2>1. CASE UpdateMessage
    <3> SUFFICES ASSUME NEW a \in Agent \ confused', conn[a] # "gone", conn'[a] = "gone"
                 PROVE  a \in peer_lost \cup released
      OBVIOUS
    <3> DEFINE m == Head(in_queue)
    <3>1. /\ in_queue \in Seq(Message) /\ in_queue # <<>> /\ in_queue' = Tail(in_queue)
          /\ reading' = reading /\ confused' = confused /\ m = Head(in_queue)
          /\ SbTypeOK /\ IInv
      BY <1>1, <2>1 DEF UpdateMessage, SbIInv, SessionsInv, SbTypeOK
    <3> HIDE DEF m
    <3>2. /\ m \in Message /\ m.tag \in Agent
          /\ \/ m.type = "new" /\ NewConnection(m.tag)
             \/ m.type = "hello" /\ Hello(m.tag)
             \/ m.type = "disconnect" /\ Disconnect(m.tag)
      BY <2>1, <3>1, UpdateIsRibStep
    <3>3. m.type = "disconnect" /\ m.tag = a
      <4>1. conn \in [Agent -> {"none", "open", "gone"}]
        BY <3>1 DEF IInv, TypeOK
      <4> QED BY <3>2, <4>1 DEF NewConnection, Hello, Disconnect
    <3>4. Queued("disconnect", a)
      <4>1. Queued(m.type, m.tag)
        BY <3>1, MovedUpAgent
      <4> QED BY <3>3, <4>1
    <3> QED BY <1>1, <3>1, <3>4 DEF SbIInv, AgentInv, Reported
  <2>2. CASE Network
    BY <2>2 DEF Network, Accept, ReadHello, ReadFailed, WriteFailed, vars
  <2>3. CASE DropMessage \/ EndUpdate
    BY <2>3 DEF DropMessage, EndUpdate, vars
  <2> QED BY <1>1, <2>1, <2>2, <2>3 DEF SbNext, Updater
<1>2. SbIInv /\ [SbNext]_sbVars => [Lost]_sbVars
  BY <1>1
<1> QED BY <1>2, SouthboundInvariant, PTL DEF SbSpec, OnlyLostDisconnected
=============================================================================
