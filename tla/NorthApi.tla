------------------------------ MODULE NorthApi ------------------------------
(***************************************************************************)
(* The northbound REST API: one thread takes a request after the other,    *)
(* finds the BS it names, asks the application and answers, while the task *)
(* manager's thread changes the RIB.  What the applications do is modelled *)
(* in their modules; here they accept a call or refuse it.  The queries of *)
(* statistics, which read the RIB in several steps, are modelled in full.  *)
(*                                                                         *)
(* Pistache is external: it takes the parameters out of a path, and        *)
(* answers 500 if a handler throws.                                        *)
(***************************************************************************)
EXTENDS RibView, Sequences

CONSTANTS
  MaxChurn   \* bound: changes of the RIB during a call

VARIABLES
  rest_request,  \* the request in progress
  at,            \* place in its handler
  bs_id,         \* the BS that the handler has found
  to_read,       \* parts, or base stations, that it has still to read
  resp,          \* what the answer shows: base stations by part, UEs with their BS
  sent_codes,    \* codes sent for this request
  churn,         \* changes of the RIB during it
  held, met      \* history: <<BS, UE>> in the RIB all the time, at some time of the call

callVars == <<bs_id, to_read, resp, sent_codes>>
northVars == <<rest_request, at, callVars, churn, held, met>>

Ok == 200
Bad_Request == 400
Not_Found == 404
Conflict == 409
Internal_Server_Error == 500

\* The RIB as pairs; NoUe stands for the BS itself.
NoUe_ == "no UE"
ASSUME NoUeAssumption == NoUe_ \notin Ues
Pairs(rib) == {p \in (DOMAIN rib) \X (Ues \cup {NoUe_}) : p[2] = NoUe_ \/ p[2] \in rib[p[1]].ues}

\* IDs in a path: none, -1, a BS by its ID, an agent by its number (of less than four
\* characters), text, a number that fits no 64 bits.
Id_(kind, n) == [kind |-> kind, n |-> n]
AgentOf(b) == b + 1
BsIds == {Id_("bs", b) : b \in Bs} \cup {Id_("agent", AgentOf(b)) : b \in Bs}
Ids_ == BsIds \cup {Id_(k, 0) : k \in {"-1", "text", "huge"}}

\* Rib::parse_enb_agent_id(): 0 if there is none.  An agent's number is not that of a BS.
parse_enb_agent_id(s) ==
  LET named == {b \in DOMAIN bs : CASE s.kind = "-1"    -> b = Max(DOMAIN bs)
                                    [] s.kind = "bs"    -> b = s.n
                                    [] s.kind = "agent" -> AgentOf(b) = s.n
                                    [] OTHER            -> FALSE}
  IN IF named = {} THEN 0 ELSE CHOOSE b \in named : TRUE
-----------------------------------------------------------------------------
(***************************************************************************)
(* Routes, as the register_calls() of the applications make them: the      *)
(* handler and the parameters that the path or the body may lack.          *)
(***************************************************************************)
Route(call, params) == [call |-> call, params |-> params]

plmn_routes == {Route(c, {"id", "body"}) : c \in {"add_mme", "remove_mme", "change_plmn"}}
slice_routes == {Route(c, {"id", "body"}) : c \in {"apply_slice_config", "remove_slice_config"}}
assoc_routes == {Route("change_ue_slice_assoc", {"id", "body"}),
                 Route("auto_ue_slice_assoc", {"id", "number", "dir", "body"})}
cell_routes == {Route(c, {"id", "body"}) : c \in {"cell_reconfiguration", "yaml_compat"}}
rrc_routes == {Route("rrc_reconf", {"id", "body"}), Route("rrc_ho", {"id"}),
               Route("rrc_x2_ho_net_control", {"id"})}
stats_routes == {Route("obtain_stats", {"type"}), Route("obtain_json_stats", {"type"})}
query_routes == {Route("obtain_json_stats_enb", {"id", "type"}),
                 Route("obtain_json_stats_ue", {"ue"}), Route("obtain_json_stats_ue", {"id", "ue"})}
conf_routes == {Route("get_stats_req", {"id"}), Route("set_stats_req", {"id", "body"})}
recorder_routes == {Route("start_meas", {"number"})}
job_routes == {Route("obtain_job", {})}
netstore_routes == {Route(c, {}) : c \in {"app_dl_trigger", "app_rm_trigger", "app_conf_trigger"}}
endpoint_routes == {Route(c, {}) : c \in {"status", "add_endpoint", "remove_endpoint"}}
interval_routes == {Route(c, {"number"}) : c \in {"set_freq_stats", "set_freq_config"}}
batch_routes == {Route(c, {"number"}) : c \in {"set_batch_stats_size", "set_batch_config_size"}}
enable_routes == {Route(c, {}) : c \in {"enable", "disable"}}
capabilities_route == {Route("list_api", {})}

Routes ==
  plmn_routes \cup slice_routes \cup assoc_routes \cup cell_routes \cup rrc_routes
  \cup stats_routes \cup query_routes \cup conf_routes \cup recorder_routes \cup job_routes
  \cup netstore_routes \cup endpoint_routes \cup interval_routes \cup batch_routes
  \cup enable_routes \cup capabilities_route

\* What varies of a request to a route; a missing ID is -1.
Given_(r, p, S, none) == IF p \in r.params THEN S ELSE {none}
RequestsTo(r) ==
  [call : {r.call}, of_bs : {"id" \in r.params},
   id : Given_(r, "id", Ids_, Id_("-1", 0)), body : Given_(r, "body", BOOLEAN, TRUE),
   number : Given_(r, "number", BOOLEAN, TRUE), dir : Given_(r, "dir", BOOLEAN, TRUE),
   type : Given_(r, "type", {"all", "enb_config", "mac_stats", "other"}, "all"),
   ue : Given_(r, "ue", Ues, NoUe_)]
NoRequest == [call |-> "none"]

NoResp == [config |-> {}, mac |-> {}, ue |-> {}]

NorthInit ==
  /\ rest_request = NoRequest /\ at = "idle"
  /\ bs_id = 0 /\ to_read = {} /\ resp = NoResp /\ sent_codes = <<>>
  /\ churn = 0 /\ held = {} /\ met = {}

Receive ==
  /\ at = "idle"
  /\ \E r \in Routes : rest_request' \in RequestsTo(r)
  /\ at' = "received" /\ churn' = 0
  /\ held' = Pairs(bs) /\ met' = Pairs(bs)
  /\ UNCHANGED <<ribVars, callVars>>

\* The task manager's thread: base stations and UEs come and go.
RibChanges ==
  /\ at \in {"idle", "reading", "searching", "found"} /\ churn < MaxChurn
  /\ RibMoves
  /\ IF at = "idle" THEN UNCHANGED <<churn, held, met>>
     ELSE /\ churn' = churn + 1
          /\ held' = held \cap Pairs(bs') /\ met' = met \cup Pairs(bs')
  /\ UNCHANGED <<rest_request, at, callVars>>
-----------------------------------------------------------------------------
(***************************************************************************)
(* Handlers: answers                                                       *)
(***************************************************************************)
Going(call) == at = "received" /\ rest_request.call = call /\ UNCHANGED <<ribVars, rest_request, churn, held, met>>

Answer_(code) ==
  /\ sent_codes' = Append(sent_codes, code) /\ at' = "answered"
  /\ UNCHANGED <<bs_id, to_read, resp>>

Bs_ == parse_enb_agent_id(rest_request.id)

\* An application accepts or refuses; a number out of range is thrown at Pistache.
Asked(refusal) ==
  IF rest_request.id.kind = "huge" THEN Answer_(Internal_Server_Error)
  ELSE \E code \in {Ok, refusal} : Answer_(code)

\* It refuses a call for a BS that is not there.
AskedFor(refusal) ==
  IF Bs_ = 0 /\ rest_request.id.kind # "huge" THEN Answer_(refusal) ELSE Asked(refusal)

\* A policy is refused without a body, before anything else is looked at.
Policy(call) ==
  /\ Going(call)
  /\ IF ~ rest_request.body THEN Answer_(Bad_Request) ELSE AskedFor(Bad_Request)

\* A call whose parameter must be a number.
Setting(call, refusal) ==
  /\ Going(call)
  /\ IF ~ rest_request.number THEN Answer_(Internal_Server_Error) ELSE Asked(refusal)

Plain(call, codes) == Going(call) /\ \E code \in codes : Answer_(code)

plmn_add_mme == Policy("add_mme")
plmn_remove_mme == Policy("remove_mme")
plmn_change_plmn == Policy("change_plmn")
rrm_apply_slice_config == Policy("apply_slice_config")
rrm_remove_slice_config == Policy("remove_slice_config")
rrm_change_ue_slice_assoc == Policy("change_ue_slice_assoc")

\* rrc_triggering has its own way to find a BS.
rrc_call_reconf ==
  /\ Going("rrc_reconf")
  /\ IF ~ rest_request.body THEN Answer_(Bad_Request) ELSE Asked(Bad_Request)
rrc_call_ho == Going("rrc_ho") /\ Asked(Bad_Request)
rrc_call_x2_ho_net_control == Going("rrc_x2_ho_net_control") /\ AskedFor(Bad_Request)

\* An unknown direction is answered, and then the handler goes on and answers again.
rrm_auto_ue_slice_assoc ==
  /\ Going("auto_ue_slice_assoc")
  /\ LET sent == IF rest_request.dir THEN sent_codes ELSE Append(sent_codes, Bad_Request) IN
       \E code \in
            IF ~ rest_request.number \/ (rest_request.body /\ rest_request.id.kind = "huge")
            THEN {Internal_Server_Error}
            ELSE IF ~ rest_request.body \/ Bs_ = 0 THEN {Bad_Request} ELSE {Ok, Bad_Request} :
         sent_codes' = IF ~ rest_request.number THEN <<code>> ELSE Append(sent, code)
  /\ at' = "answered" /\ UNCHANGED <<bs_id, to_read, resp>>

\* The BS is looked at before the body.
rrm_cell_reconfiguration ==
  /\ Going("cell_reconfiguration")
  /\ IF ~ rest_request.body /\ rest_request.id.kind # "huge" THEN Answer_(Bad_Request)
     ELSE AskedFor(Bad_Request)

rrm_yaml_compat ==
  /\ Going("yaml_compat")
  /\ IF rest_request.id.kind = "huge" THEN Answer_(Internal_Server_Error)
     ELSE IF Bs_ = 0 \/ ~ rest_request.body THEN Answer_(Not_Found) ELSE Answer_(Ok)

recorder_start_meas == Setting("start_meas", Conflict)
recorder_obtain_json_stats == Plain("obtain_job", {Ok, Bad_Request})
netstore_app_dl_trigger == Plain("app_dl_trigger", {Ok})
netstore_app_rm_trigger == Plain("app_rm_trigger", {Ok})
netstore_app_conf_trigger == Plain("app_conf_trigger", {Ok, Bad_Request})
elastic_status == Plain("status", {Ok})
elastic_add_endpoint == Plain("add_endpoint", {Ok, Bad_Request})
elastic_remove_endpoint == Plain("remove_endpoint", {Ok, Bad_Request})
elastic_set_freq_stats == Setting("set_freq_stats", Bad_Request)
elastic_set_freq_config == Setting("set_freq_config", Bad_Request)
elastic_set_batch_stats_size == Setting("set_batch_stats_size", Bad_Request)
elastic_set_batch_config_size == Setting("set_batch_config_size", Bad_Request)
elastic_enable == Plain("enable", {Ok, Bad_Request})
elastic_disable == Plain("disable", {Ok, Bad_Request})
manager_list_api == Plain("list_api", {Ok})

stats_get_stats_req == Going("get_stats_req") /\ AskedFor(Bad_Request)
stats_set_stats_req == Policy("set_stats_req")
-----------------------------------------------------------------------------
(***************************************************************************)
(* Handlers: statistics                                                    *)
(***************************************************************************)
PartsOf(type) == IF type = "all" THEN {"config", "mac"}
                 ELSE IF type = "enb_config" THEN {"config"} ELSE {"mac"}

\* The parts of an answer are read one after the other.
Reads(parts) == at' = "reading" /\ to_read' = parts /\ UNCHANGED <<resp, sent_codes>>

ObtainStats(call) ==
  /\ Going(call)
  /\ IF rest_request.type = "other" THEN Answer_(Bad_Request)
     ELSE Reads(PartsOf(rest_request.type)) /\ UNCHANGED bs_id

stats_obtain_stats == ObtainStats("obtain_stats")
stats_obtain_json_stats == ObtainStats("obtain_json_stats")

stats_obtain_json_stats_enb ==
  /\ Going("obtain_json_stats_enb")
  /\ IF rest_request.id.kind = "huge" THEN Answer_(Internal_Server_Error)
     ELSE IF Bs_ = 0 \/ rest_request.type = "other" THEN Answer_(Bad_Request)
     ELSE Reads(PartsOf(rest_request.type)) /\ bs_id' = Bs_

\* What is shown of a BS that is there, and of one of its UEs.
Dumped(b) == {b} \cap DOMAIN bs
DumpedUe(b, u) == {<<b, u>>} \cap Pairs(bs)

AtStep(place) == at = place /\ UNCHANGED <<ribVars, rest_request, churn, held, met>>

\* all_..._to_string(): both parts are arguments of one call, in the order of the build.
DumpAll(part) ==
  /\ AtStep("reading") /\ bs_id = 0 /\ part \in to_read
  /\ resp' = [resp EXCEPT ![part] = UNION {Dumped(b) : b \in DOMAIN bs}]
  /\ to_read' = to_read \ {part}
  /\ UNCHANGED <<at, bs_id, sent_codes>>

\* Mutant: the second part replaces the first.
MutDumpBsReplaces(part) ==
  /\ AtStep("reading") /\ bs_id # 0 /\ part \in to_read
  /\ part = "mac" => "config" \notin to_read
  /\ IF bs_id \in DOMAIN bs
     THEN resp' = [NoResp EXCEPT ![part] = {bs_id}] /\ to_read' = to_read \ {part}
     ELSE resp' = NoResp /\ to_read' = {}
  /\ UNCHANGED <<at, bs_id, sent_codes>>

\* ..._by_bs_id_to_json_string(): the configuration first.  If the BS is gone, nothing of
\* it is shown.
DumpBs(part) ==
  /\ AtStep("reading") /\ bs_id # 0 /\ part \in to_read
  /\ part = "mac" => "config" \notin to_read
  /\ IF bs_id \in DOMAIN bs
     THEN resp' = [resp EXCEPT ![part] = Dumped(bs_id)] /\ to_read' = to_read \ {part}
     ELSE resp' = NoResp /\ to_read' = {}
  /\ UNCHANGED <<at, bs_id, sent_codes>>

\* Whether something was found does not matter any more.
DumpEnds == AtStep("reading") /\ to_read = {} /\ Answer_(Ok)

stats_obtain_json_stats_ue ==
  /\ Going("obtain_json_stats_ue")
  /\ IF rest_request.of_bs /\ rest_request.id.kind = "huge" THEN Answer_(Internal_Server_Error)
     ELSE IF rest_request.of_bs /\ Bs_ = 0 THEN Answer_(Bad_Request)
     ELSE /\ to_read' = IF rest_request.of_bs THEN {Bs_} ELSE get_available_base_stations
          /\ at' = "searching" /\ UNCHANGED <<bs_id, resp, sent_codes>>

\* parse_rnti_imsi(), in one BS after the other; get_bs() is null if the BS is gone.
FindUe ==
  /\ AtStep("searching") /\ to_read # {}
  /\ LET b == Min(to_read) IN
       IF b \notin DOMAIN bs THEN at' = "fault" /\ UNCHANGED callVars
       ELSE IF rest_request.ue \in bs[b].ues
       THEN at' = "found" /\ bs_id' = b /\ to_read' = {} /\ UNCHANGED <<resp, sent_codes>>
       ELSE to_read' = to_read \ {b} /\ UNCHANGED <<at, bs_id, resp, sent_codes>>

NoUeFound == AtStep("searching") /\ to_read = {} /\ Answer_(Bad_Request)

\* The UE is looked up again; if it is gone, the answer is empty.
DumpUe ==
  /\ AtStep("found")
  /\ resp' = [resp EXCEPT !.ue = DumpedUe(bs_id, rest_request.ue)]
  /\ sent_codes' = Append(sent_codes, Ok) /\ at' = "answered"
  /\ UNCHANGED <<bs_id, to_read>>

Answered ==
  /\ at = "answered"
  /\ at' = "idle" /\ rest_request' = NoRequest
  /\ bs_id' = 0 /\ to_read' = {} /\ resp' = NoResp /\ sent_codes' = <<>>
  /\ churn' = 0 /\ held' = {} /\ met' = {}
  /\ UNCHANGED ribVars

PlmnCalls == plmn_add_mme \/ plmn_remove_mme \/ plmn_change_plmn
RrmCalls ==
  \/ rrm_apply_slice_config \/ rrm_remove_slice_config \/ rrm_change_ue_slice_assoc
  \/ rrm_auto_ue_slice_assoc \/ rrm_cell_reconfiguration \/ rrm_yaml_compat
RrcCalls == rrc_call_reconf \/ rrc_call_ho \/ rrc_call_x2_ho_net_control
StatsCalls ==
  \/ stats_obtain_stats \/ stats_obtain_json_stats
  \/ stats_obtain_json_stats_enb \/ stats_obtain_json_stats_ue
  \/ (\E part \in {"config", "mac"} : DumpAll(part) \/ DumpBs(part)) \/ DumpEnds
  \/ FindUe \/ NoUeFound \/ DumpUe
  \/ stats_get_stats_req \/ stats_set_stats_req
RecorderCalls == recorder_start_meas \/ recorder_obtain_json_stats
NetstoreCalls ==
  netstore_app_dl_trigger \/ netstore_app_rm_trigger \/ netstore_app_conf_trigger
ElasticCalls ==
  \/ elastic_status \/ elastic_add_endpoint \/ elastic_remove_endpoint
  \/ elastic_set_freq_stats \/ elastic_set_freq_config
  \/ elastic_set_batch_stats_size \/ elastic_set_batch_config_size
  \/ elastic_enable \/ elastic_disable

NorthNext ==
  \/ Receive \/ RibChanges \/ Answered
  \/ PlmnCalls \/ RrmCalls \/ RrcCalls \/ StatsCalls \/ RecorderCalls \/ NetstoreCalls
  \/ ElasticCalls \/ manager_list_api

NorthSpec == RibInit /\ NorthInit /\ [][NorthNext]_<<ribVars, northVars>>
-----------------------------------------------------------------------------
(***************************************************************************)
(* Properties                                                              *)
(***************************************************************************)

\* A request is answered once, unless its direction is unknown.
AnsweredOnce == at = "answered" /\ rest_request.dir => Len(sent_codes) = 1

\* The BS that the client names, of those in the RIB all the time or at some time.
Names(s, b) ==
  \/ s.kind = "-1" \/ (s.kind = "bs" /\ s.n = b) \/ (s.kind = "agent" /\ s.n = AgentOf(b))

\* What is shown of a BS was asked for and there; what was there all the time is shown.
StatsComplete ==
  at = "answered" /\ sent_codes = <<Ok>> /\ PartsOf(rest_request.type) # {} =>
    \A part \in {"config", "mac"}, b \in Bs :
      /\ b \in resp[part] => /\ <<b, NoUe_>> \in met /\ part \in PartsOf(rest_request.type)
                             /\ rest_request.of_bs => Names(rest_request.id, b)
      /\ /\ rest_request.call \in {"obtain_stats", "obtain_json_stats", "obtain_json_stats_enb"}
         /\ part \in PartsOf(rest_request.type) /\ <<b, NoUe_>> \in held
         /\ rest_request.of_bs => b = bs_id
         => b \in resp[part]

\* A UE that is there all the time, at the BS that is named or at any, is found.
UeFound ==
  at = "answered" /\ rest_request.call = "obtain_json_stats_ue" =>
    LET named(b) == rest_request.of_bs => Names(rest_request.id, b)
        asked == {p \in held : p[2] = rest_request.ue /\ named(p[1])}
    IN /\ \A p \in resp.ue : p \in met /\ named(p[1])
       /\ asked # {} /\ ~ (rest_request.of_bs /\ rest_request.id.kind = "-1") => sent_codes = <<Ok>>
       /\ sent_codes = <<Ok>> /\ resp.ue = {} => <<bs_id, rest_request.ue>> \notin held

\* Only a BS that goes during the call is dereferenced although it is not there.
FaultIfGone == at = "fault" => \E p \in met : p[2] = NoUe_ /\ p \notin held

(***************************************************************************)
(* Each request is answered once; an answer shows what was asked for of    *)
(* the BS that was named, in full if it stays while the handler reads the  *)
(* RIB ("at this point, both the correct bs_id and RNTI will be known",    *)
(* stats_manager_calls.cc:3495), and a UE that stays is found.             *)
(***************************************************************************)
AnswersRight == AnsweredOnce /\ StatsComplete /\ UeFound /\ FaultIfGone
=============================================================================
