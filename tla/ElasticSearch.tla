---------------------------- MODULE ElasticSearch ----------------------------
(***************************************************************************)
(* The application elastic_search: while logging is active, tick slots     *)
(* collect samples in two batches and send them when they are full; a REST *)
(* call may change an interval or an endpoint at any time.  A connection   *)
(* object names one slot; to assign a new slot to it does not disconnect   *)
(* the one it had.                                                         *)
(*                                                                         *)
(* What is in a batch, and its size, are left out: a batch may be full at  *)
(* any time.                                                               *)
(***************************************************************************)
EXTENDS Naturals, FiniteSets, Functions

CONSTANTS
  Endpoint,     \* legal endpoints that calls name
  Interval,     \* intervals that calls ask for, milliseconds
  MaxEnabled    \* bound: how often logging is enabled

ASSUME IntervalAssumption == Interval \subseteq Nat /\ MaxEnabled \in Nat

VARIABLES
  elastic_search_ep,
  freq_stats, freq_config,                     \* milliseconds, 0 for off
  transfers,                                   \* endpoints that curl transfers to
  slots_of_elastic,                            \* connected slots, by connection
  tick_stats, tick_config, tick_curl, ue_disconnect_slot, \* connections, 0 at first
  enabled,                                     \* how often logging was enabled
  careful_calls   \* history: while active, the interval of statistics was not
                  \* changed, and that of configurations not to switch all off

settingVars == <<elastic_search_ep, freq_stats, freq_config>>
elasticSlotVars == <<slots_of_elastic, tick_stats, tick_config, tick_curl, ue_disconnect_slot>>
esVars == <<settingVars, transfers, elasticSlotVars, enabled, careful_calls>>

Slot(does, period) == [does |-> does, period |-> period]

\* No message on a UE's disconnection has a period, the transfers have 20 ms.
Event == 0
CurlPeriod == 20

EsInit ==
  /\ elastic_search_ep \in {{e} : e \in Endpoint}
  /\ freq_stats = 100 /\ freq_config = 5000
  /\ transfers = {}
  /\ slots_of_elastic = <<>>
  /\ tick_stats = 0 /\ tick_config = 0 /\ tick_curl = 0 /\ ue_disconnect_slot = 0
  /\ enabled = 0
  /\ careful_calls = TRUE

Connected(c) == c \in DOMAIN slots_of_elastic
is_active == Connected(tick_config) \/ Connected(tick_stats)
-----------------------------------------------------------------------------
(***************************************************************************)
(* Task manager's thread                                                   *)
(***************************************************************************)

Called(does) == \E c \in DOMAIN slots_of_elastic : slots_of_elastic[c].does = does

\* A full batch goes to all endpoints.  (One that is not full changes nothing here.)
trigger_send ==
  /\ transfers' = transfers \cup elastic_search_ep
  /\ UNCHANGED <<settingVars, elasticSlotVars, enabled, careful_calls>>

process_stats  == Called("process_stats") /\ trigger_send
process_config == Called("process_config") /\ trigger_send
ue_disconnect  == Called("ue_disconnect") /\ trigger_send   \* it was the last UE

\* Mutant: the slot that drives the transfers stays.
MutDisableKeepsCurl ==
  /\ slots_of_elastic' = Restrict(slots_of_elastic,
       DOMAIN slots_of_elastic \ {tick_config, tick_stats, ue_disconnect_slot})
  /\ transfers' = {}
  /\ UNCHANGED <<tick_stats, tick_config, tick_curl, ue_disconnect_slot>>

\* disable_logging() waits for the transfers.
Disable ==
  /\ slots_of_elastic' = Restrict(slots_of_elastic,
       DOMAIN slots_of_elastic \ {tick_config, tick_stats, ue_disconnect_slot, tick_curl})
  /\ transfers' = {}
  /\ UNCHANGED <<tick_stats, tick_config, tick_curl, ue_disconnect_slot>>

\* Transfers end; curl may have a problem.
process_curl ==
  /\ Called("process_curl")
  /\ \/ Disable
     \/ transfers' \in SUBSET transfers /\ UNCHANGED elasticSlotVars
  /\ UNCHANGED <<settingVars, enabled, careful_calls>>
-----------------------------------------------------------------------------
(***************************************************************************)
(* REST calls; one that is refused changes nothing and is left out.        *)
(***************************************************************************)
add_endpoint(e) ==
  /\ e \notin elastic_search_ep
  /\ elastic_search_ep' = elastic_search_ep \cup {e}
  /\ UNCHANGED <<freq_stats, freq_config, transfers, elasticSlotVars, enabled, careful_calls>>

remove_endpoint(e) ==
  /\ e \in elastic_search_ep
  /\ elastic_search_ep' = elastic_search_ep \ {e}
  /\ IF elastic_search_ep' = {} /\ is_active
     THEN Disable ELSE UNCHANGED <<transfers, elasticSlotVars>>
  /\ UNCHANGED <<freq_stats, freq_config, enabled, careful_calls>>

\* The k-th new connection: a number that nothing refers to.
Fresh(k) ==
  LET used == DOMAIN slots_of_elastic \cup
                {tick_stats, tick_config, tick_curl, ue_disconnect_slot}
  IN CHOOSE n \in 1..(Cardinality(used) + k) :
       n \notin used /\ Cardinality((1..n) \ used) = k

\* Slots ss are connected besides s.
Connect(s, ss) == [c \in DOMAIN s \cup DOMAIN ss |-> IF c \in DOMAIN ss THEN ss[c] ELSE s[c]]
At(c, s) == [x \in {c} |-> s]
Nothing == [x \in {} |-> Slot("process_curl", 0)]

\* The slot of connection c is replaced, if logging is active.
Restart(c, f, does) ==
  slots_of_elastic' =
    IF is_active
    THEN Connect(Restrict(slots_of_elastic, DOMAIN slots_of_elastic \ {c}),
                 IF f > 0 THEN At(Fresh(1), Slot(does, f)) ELSE Nothing)
    ELSE slots_of_elastic

\* The new slot calls process_config, not process_stats.
set_freq_stats(f) ==
  /\ f \in 0..1000
  /\ freq_stats' = f
  /\ Restart(tick_stats, f, "process_config")
  /\ tick_stats' = IF is_active /\ f > 0 THEN Fresh(1) ELSE tick_stats
  /\ careful_calls' = (careful_calls /\ ~ is_active)
  /\ UNCHANGED <<elastic_search_ep, freq_config, transfers, tick_config, tick_curl,
                 ue_disconnect_slot, enabled>>

set_freq_config(f) ==
  /\ freq_config' = f
  /\ Restart(tick_config, f, "process_config")
  /\ tick_config' = IF is_active /\ f > 0 THEN Fresh(1) ELSE tick_config
  /\ UNCHANGED <<elastic_search_ep, freq_stats, transfers, tick_stats, tick_curl,
                 ue_disconnect_slot, enabled>>
  /\ careful_calls' = (careful_calls /\ (is_active => is_active'))

enable_logging ==
  /\ enabled < MaxEnabled
  /\ ~ is_active /\ ~ (freq_config = 0 /\ freq_stats = 0)
  /\ tick_config' = IF freq_config > 0 THEN Fresh(1) ELSE tick_config
  /\ tick_stats' = IF freq_stats > 0 THEN Fresh(2) ELSE tick_stats
  /\ ue_disconnect_slot' = IF freq_stats > 0 THEN Fresh(3) ELSE ue_disconnect_slot
  /\ tick_curl' = Fresh(4)
  /\ slots_of_elastic' = Connect(slots_of_elastic,
       [c \in {Fresh(4)} \cup (IF freq_config > 0 THEN {Fresh(1)} ELSE {})
                         \cup (IF freq_stats > 0 THEN {Fresh(2), Fresh(3)} ELSE {}) |->
          CASE c = Fresh(1) -> Slot("process_config", freq_config)
            [] c = Fresh(2) -> Slot("process_stats", freq_stats)
            [] c = Fresh(3) -> Slot("ue_disconnect", Event)
            [] OTHER -> Slot("process_curl", CurlPeriod)])
  /\ enabled' = enabled + 1
  /\ UNCHANGED <<settingVars, transfers, careful_calls>>

disable_logging ==
  /\ Disable
  /\ UNCHANGED <<settingVars, enabled, careful_calls>>

EsNext ==
  \/ process_stats \/ ue_disconnect \/ process_config \/ process_curl
  \/ \E e \in Endpoint : add_endpoint(e) \/ remove_endpoint(e)
  \/ \E f \in Interval : set_freq_stats(f) \/ set_freq_config(f)
  \/ enable_logging \/ disable_logging

EsSpec == EsInit /\ [][EsNext]_esVars
-----------------------------------------------------------------------------
\* The slots that the settings ask for, while logging is active.
Wanted ==
  (IF freq_config > 0 THEN {Slot("process_config", freq_config)} ELSE {}) \cup
  (IF freq_stats > 0 THEN {Slot("process_stats", freq_stats), Slot("ue_disconnect", Event)}
                     ELSE {})

SlotsMatch ==
  /\ Range(slots_of_elastic) =
       IF is_active THEN Wanted \cup {Slot("process_curl", CurlPeriod)} ELSE {}
  /\ Cardinality(DOMAIN slots_of_elastic) = Cardinality(Range(slots_of_elastic))

(***************************************************************************)
(* The slots that are connected are those that the settings ask for, each  *)
(* once, and none if logging is not active, through any sequence of        *)
(* enabling, disabling by a call, by the loss of the last endpoint or by   *)
(* an error of curl, and enabling again -- if nobody has used, while       *)
(* logging was active, a call that breaks it (see careful_calls).          *)
(***************************************************************************)
CarefulSlotsMatch == careful_calls => SlotsMatch
=============================================================================
