--------------------------- MODULE NetstoreLoader ---------------------------
(***************************************************************************)
(* The application netstore_loader: a request for an app, by REST or by an *)
(* agent, first fetches the list of NetStore and, if the app is on it, the *)
(* app, which goes to all base stations.  Every transfer writes into the   *)
(* same buffer; two tick slots drive the transfers and end them.           *)
(*                                                                         *)
(* NetStore (external) is what it answers; an app's code is its name.      *)
(***************************************************************************)
EXTENDS Naturals, Sequences

CONSTANTS
  App,          \* apps that can be asked for
  Stored,       \* those NetStore has
  MaxRequests   \* bound: requests

ASSUME StoredAssumption == Stored \subseteq App

VARIABLES
  bs_available, \* the RIB has a base station
  handles,      \* transfers of curl_multi_: what is fetched and how far it is
  buf,          \* the buffer, up to bufpos: what the transfers have written
  list_slots,   \* connected slots of process_list, with the app each is for
  tick_list,    \* the one that tick_list_ holds
  retrieve_slots,
  tick_retrieve,
  looping,      \* the slot that is taking the transfers that have ended, if one is
  pushed,       \* history: what was pushed as the code of an app
  requests,     \* number of requests so far
  single        \* history: no request came while another was under way

slotVars == <<list_slots, tick_list, retrieve_slots, tick_retrieve>>
nsVars == <<bs_available, handles, buf, slotVars, looping, pushed, requests, single>>

List   == "list"                 \* what a transfer fetches, if not the code of an app
Page   == "error page"
NoSlot == [nr |-> 0, app |-> List]

NsInit ==
  /\ bs_available = FALSE
  /\ handles = {} /\ buf = <<>>
  /\ list_slots = {} /\ tick_list = NoSlot
  /\ retrieve_slots = {} /\ tick_retrieve = NoSlot
  /\ looping = {}
  /\ pushed = {} /\ requests = 0 /\ single = TRUE

Idle == handles = {} /\ list_slots = {} /\ retrieve_slots = {}

BsComesOrGoes ==
  /\ looping = {}
  /\ bs_available' = ~ bs_available
  /\ UNCHANGED <<handles, buf, slotVars, looping, pushed, requests, single>>

\* send_rest_request(): a handle for curl.
Transfer(what, nr) == [what |-> what, nr |-> nr, done |-> FALSE, code |-> 0]

\* A request for an app, whoever makes it.
NsRequest(a) ==
  /\ requests < MaxRequests
  /\ requests' = requests + 1
  /\ single' = (single /\ Idle)
  /\ handles' = handles \cup {Transfer(List, requests')}
  /\ tick_list' = [nr |-> requests', app |-> a]
  /\ list_slots' = list_slots \cup {tick_list'}
  /\ UNCHANGED <<bs_available, buf, retrieve_slots, tick_retrieve, looping, pushed>>

trigger_app_request(a) == NsRequest(a)        \* by REST
process_control_del_req(a) == NsRequest(a)    \* by an agent

\* Both send a message to all base stations, with no code in it.
trigger_app_stop == UNCHANGED nsVars
trigger_app_reconfig == UNCHANGED nsVars

\* curl_multi_perform(): a transfer ends, with its answer in the buffer, or fails.
Ended(h, code) == (handles \ {h}) \cup {[h EXCEPT !.done = TRUE, !.code = code]}

Perform ==
  /\ looping = {} /\ list_slots \cup retrieve_slots # {}
  /\ \E h \in handles :
       /\ ~ h.done
       /\ \/ /\ h.what \in Stored \cup {List}
             /\ handles' = Ended(h, 200)
             /\ buf' = Append(buf, h.what)
          \/ /\ handles' = Ended(h, 404)
             /\ buf' = Append(buf, Page)
  /\ UNCHANGED <<bs_available, slotVars, looping, pushed, requests, single>>

\* curl_multi_perform() fails: the slot gives up, its transfers stay.
PerformError ==
  /\ looping = {}
  /\ \/ /\ list_slots # {}
        /\ list_slots' = list_slots \ {tick_list} /\ UNCHANGED retrieve_slots
     \/ /\ retrieve_slots # {}
        /\ retrieve_slots' = retrieve_slots \ {tick_retrieve} /\ UNCHANGED list_slots
  /\ UNCHANGED <<bs_available, handles, buf, tick_list, tick_retrieve, looping, pushed,
                 requests, single>>

\* check_list(): a line of the buffer is the name.
check_list(a) == a \in Stored /\ \E i \in DOMAIN buf : buf[i] = List

\* One turn of the loop of process_list() or process_retrieve(): slot s finds transfer h
\* ended (whichever it is).  The slot is disconnected, but the loop goes on, unless the
\* transfer has failed.
Turn(kind, slots, s, h) ==
  /\ h.done
  /\ (looping = {} /\ s \in slots) \/ looping = {[kind |-> kind, slot |-> s]}
  /\ looping' = IF h.code = 200 THEN {[kind |-> kind, slot |-> s]} ELSE {}

\* Mutant: the list stays in the buffer.
MutListKept(s, h) ==
  /\ Turn("list", list_slots, s, h)
  /\ handles' = (handles \ {h}) \cup
       (IF h.code = 200 /\ check_list(s.app) THEN {Transfer(s.app, s.nr)} ELSE {})
  /\ list_slots' = list_slots \ {tick_list}
  /\ IF h.code = 200 /\ check_list(s.app)
     THEN /\ tick_retrieve' = s
          /\ retrieve_slots' = retrieve_slots \cup {s}
     ELSE UNCHANGED <<retrieve_slots, tick_retrieve>>
  /\ UNCHANGED <<bs_available, buf, tick_list, pushed, requests, single>>

ProcessList(s, h) ==
  /\ Turn("list", list_slots, s, h)
  /\ handles' = (handles \ {h}) \cup
       (IF h.code = 200 /\ check_list(s.app) THEN {Transfer(s.app, s.nr)} ELSE {})
  /\ buf' = <<>>
  /\ list_slots' = list_slots \ {tick_list}
  /\ IF h.code = 200 /\ check_list(s.app)
     THEN /\ tick_retrieve' = s
          /\ retrieve_slots' = retrieve_slots \cup {s}
     ELSE UNCHANGED <<retrieve_slots, tick_retrieve>>
  /\ UNCHANGED <<bs_available, tick_list, pushed, requests, single>>

\* The buffer goes to the base stations there are now.
push_code(a) ==
  pushed' = IF bs_available THEN pushed \cup {[app |-> a, code |-> buf]} ELSE pushed

ProcessRetrieve(s, h) ==
  /\ Turn("retrieve", retrieve_slots, s, h)
  /\ handles' = handles \ {h}
  /\ retrieve_slots' = retrieve_slots \ {tick_retrieve}
  /\ buf' = <<>>
  /\ IF h.code = 200 THEN push_code(s.app) ELSE UNCHANGED pushed
  /\ UNCHANGED <<bs_available, list_slots, tick_list, tick_retrieve, requests, single>>

\* No transfer is left that has ended.
NothingEnded ==
  /\ looping # {} /\ \A h \in handles : ~ h.done
  /\ looping' = {}
  /\ UNCHANGED <<bs_available, handles, buf, slotVars, pushed, requests, single>>

NsTick ==
  \/ \E s \in list_slots \cup {l.slot : l \in looping}, h \in handles : ProcessList(s, h)
  \/ \E s \in retrieve_slots \cup {l.slot : l \in looping}, h \in handles : ProcessRetrieve(s, h)
  \/ NothingEnded

NsNext ==
  \/ BsComesOrGoes
  \/ \E a \in App : trigger_app_request(a) \/ process_control_del_req(a)
  \/ trigger_app_stop \/ trigger_app_reconfig
  \/ Perform \/ PerformError \/ NsTick

NsSpec == NsInit /\ [][NsNext]_nsVars
-----------------------------------------------------------------------------
(***************************************************************************)
(* "it will deploy this application" (netstore_loader_calls.cc): what goes *)
(* to the agents as the code of an app is that code and nothing else, if   *)
(* requests wait for each other (the transfers share one buffer, and a     *)
(* slot takes any transfer that has ended for its own).                    *)
(***************************************************************************)
PushedIsStored ==
  \A p \in pushed : single => p.app \in Stored /\ p.code = <<p.app>>
=============================================================================
