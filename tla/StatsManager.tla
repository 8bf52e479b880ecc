---------------------------- MODULE StatsManager ----------------------------
(***************************************************************************)
(* The application stats_manager for one BS: which statistics reports it   *)
(* has asked the BS's agents for.  The task manager's thread adds and      *)
(* removes the BS with the events of the RIB; a REST thread replaces the   *)
(* requests at any time (set_stats_requests), without a lock.  It keeps an *)
(* iterator into bs_list_ over several steps.                              *)
(*                                                                         *)
(* Both threads send through one queue, so the agents see the requests in  *)
(* the order they are sent.                                                *)
(***************************************************************************)
EXTENDS Naturals, Sequences

CONSTANTS
  Report,       \* contents of a report request
  Default,      \* the one of default_stats_request()
  MaxReports,   \* bound: reports in one list of requests
  MaxAdds,      \* bound: how often the BS comes online
  MaxSets       \* bound: calls of set_stats_requests

ASSUME ReportAssumption == Default \in Report /\ MaxReports \in Nat \ {0}
ASSUME SmBoundAssumption == MaxAdds \in Nat /\ MaxSets \in Nat

VARIABLES
  online,     \* the RIB has the BS
  event_pc,   \* task manager: "idle", "adding" and "inserting" in bs_add(),
              \* "removing" before bs_remove()
  adds,       \* how often the BS came online
  bs_list,    \* the entry of bs_list_, NoEntry if there is none
  entry,      \* how many entries were made: which one an iterator points to
  set_pc,     \* REST thread: "idle" or its place in set_stats_requests()
  policy,     \* the reports it is to set
  it,         \* its iterator: the number of the entry, 0 for end()
  xid,        \* its loop variable
  sets,       \* calls of set_stats_requests so far
  active,     \* at the agents: the report of each xid, or NoReport
  outlived,   \* history: an agent kept its reports when the BS went, and is still there
  bad_it      \* "none", "end" or "erased": what a bad iterator pointed to

eventVars == <<online, event_pc, adds, outlived>>
setVars == <<set_pc, policy, it, xid, sets>>
smVars == <<eventVars, bs_list, entry, setVars, active, bad_it>>

Entry(l) == [listed |-> TRUE, reports |-> l]
NoEntry  == [listed |-> FALSE, reports |-> <<>>]
NoReport == "no report"
Xid      == 0..(MaxReports - 1)
Lists    == UNION {[1..n -> Report] : n \in 0..MaxReports}

SmTypeOK ==
  /\ online \in BOOLEAN
  /\ event_pc \in {"idle", "adding", "inserting", "removing"}
  /\ adds \in 0..MaxAdds /\ sets \in 0..MaxSets /\ entry \in 0..MaxAdds
  /\ bs_list \in {Entry(l) : l \in Lists} \cup {NoEntry}
  /\ set_pc \in {"idle", "parsed", "off", "clear", "push"}
  /\ policy \in Lists
  /\ it \in 0..MaxAdds
  /\ xid \in 0..MaxReports
  /\ active \in [Xid -> Report \cup {NoReport}]
  /\ outlived \in BOOLEAN
  /\ bad_it \in {"none", "end", "erased"}
-----------------------------------------------------------------------------
SmInit ==
  /\ online = FALSE
  /\ event_pc = "idle"
  /\ adds = 0
  /\ bs_list = NoEntry
  /\ entry = 0
  /\ set_pc = "idle"
  /\ policy = <<>>
  /\ it = 0
  /\ xid = 0
  /\ sets = 0
  /\ active = [x \in Xid |-> NoReport]
  /\ outlived = FALSE
  /\ bad_it = "none"

\* requests_manager::send_message(): a BS that the RIB does not have gets nothing.
Push(x, r) == active' = IF online THEN [active EXCEPT ![x] = r] ELSE active
-----------------------------------------------------------------------------
(***************************************************************************)
(* Task manager's thread                                                   *)
(***************************************************************************)

\* handle_hello() completes the BS; bs_add_ is still to be raised.
BsOnline ==
  /\ event_pc = "idle" /\ ~online /\ adds < MaxAdds
  /\ event_pc' = "adding"
  /\ online' = TRUE
  /\ adds' = adds + 1
  /\ UNCHANGED <<outlived, bs_list, entry, setVars, active>>

\* Mutant: bs_add() does not ask for the default reports.
MutBsAddPushNothing ==
  /\ event_pc = "adding"
  /\ event_pc' = "inserting"
  /\ UNCHANGED <<online, adds, outlived, bs_list, entry, setVars, active>>

BsAddPush ==
  /\ event_pc = "adding"
  /\ event_pc' = "inserting"
  /\ Push(0, Default)
  /\ UNCHANGED <<online, adds, outlived, bs_list, entry, setVars>>

\* std::map::insert() leaves an entry alone.
BsAddInsert ==
  /\ event_pc = "inserting"
  /\ event_pc' = "idle"
  /\ IF bs_list = NoEntry
     THEN bs_list' = Entry(<<Default>>) /\ entry' = entry + 1
     ELSE UNCHANGED <<bs_list, entry>>
  /\ UNCHANGED <<online, adds, outlived, setVars, active>>

\* handle_disconnect() removes the BS; agents that stay keep their reports.
BsOffline ==
  /\ event_pc = "idle" /\ online
  /\ event_pc' = "removing"
  /\ online' = FALSE
  /\ \/ active' = [x \in Xid |-> NoReport] /\ outlived' = FALSE
     \/ outlived' = TRUE /\ UNCHANGED active
  /\ UNCHANGED <<adds, bs_list, entry, setVars>>

BsRemove ==
  /\ event_pc = "removing"
  /\ event_pc' = "idle"
  /\ bs_list' = NoEntry
  /\ UNCHANGED <<online, adds, outlived, entry, setVars, active>>

\* handle_stats_reply(): a report of an agent without a BS is switched off.
ReportUnknownBs(x) ==
  /\ event_pc = "idle" /\ ~online
  /\ active[x] # NoReport
  /\ active' = [active EXCEPT ![x] = NoReport]
  /\ UNCHANGED <<eventVars, bs_list, entry, setVars>>
-----------------------------------------------------------------------------
(***************************************************************************)
(* REST thread, in set_stats_requests()                                    *)
(***************************************************************************)

\* The BS is known and the reports are parsed.
SetParse ==
  /\ set_pc = "idle" /\ online /\ sets < MaxSets
  /\ set_pc' = "parsed"
  /\ policy' \in Lists
  /\ sets' = sets + 1
  /\ UNCHANGED <<eventVars, bs_list, entry, it, xid, active>>

SetFind ==
  /\ set_pc = "parsed"
  /\ IF bs_list = NoEntry THEN it' = 0 /\ set_pc' = "push"
                          ELSE it' = entry /\ set_pc' = "off"
  /\ xid' = 0
  /\ UNCHANGED <<eventVars, bs_list, entry, policy, sets, active>>

\* The iterator points to the entry that is in the list.
ItValid == bs_list # NoEntry /\ it = entry

\* One turn of the loop that switches the old reports off.
SetOff ==
  /\ set_pc = "off" /\ ItValid
  /\ IF xid < Len(bs_list.reports)
     THEN Push(xid, NoReport) /\ xid' = xid + 1 /\ UNCHANGED set_pc
     ELSE set_pc' = "clear" /\ UNCHANGED <<active, xid>>
  /\ UNCHANGED <<eventVars, bs_list, entry, policy, it, sets>>

SetClear ==
  /\ set_pc = "clear" /\ ItValid
  /\ bs_list' = Entry(<<>>)
  /\ xid' = 0
  /\ set_pc' = "push"
  /\ UNCHANGED <<eventVars, entry, policy, it, sets, active>>

SetPush ==
  /\ set_pc = "push" /\ ItValid /\ xid < Len(policy)
  /\ Push(xid, policy[xid + 1])
  /\ bs_list' = Entry(Append(bs_list.reports, policy[xid + 1]))
  /\ xid' = xid + 1
  /\ UNCHANGED <<eventVars, entry, set_pc, policy, it, sets>>

SetReturn ==
  /\ set_pc = "push" /\ xid = Len(policy)
  /\ set_pc' = "idle"
  /\ policy' = <<>>
  /\ it' = 0
  /\ xid' = 0
  /\ UNCHANGED <<eventVars, bs_list, entry, sets, active>>

\* Every other use of the iterator is undefined.
SetFault ==
  /\ \/ set_pc \in {"off", "clear"}
     \/ set_pc = "push" /\ xid < Len(policy)
  /\ ~ItValid
  /\ bad_it' = IF it = 0 THEN "end" ELSE "erased"
  /\ UNCHANGED <<eventVars, bs_list, entry, setVars, active>>

SmStep ==
  \/ BsOnline \/ BsAddPush \/ BsAddInsert
  \/ BsOffline \/ BsRemove
  \/ \E x \in Xid : ReportUnknownBs(x)
  \/ SetParse \/ SetFind \/ SetOff \/ SetClear \/ SetPush \/ SetReturn

SmNext == bad_it = "none" /\ (SetFault \/ (SmStep /\ UNCHANGED bad_it))

SmSpec == SmInit /\ [][SmNext]_smVars
-----------------------------------------------------------------------------
(***************************************************************************)
(* Properties                                                              *)
(***************************************************************************)

\* Neither thread is in the middle of a change.
Quiet == event_pc = "idle" /\ set_pc = "idle"

\* The list has an entry exactly for the BS that is online.
ListedIffOnline == event_pc = "idle" => (online <=> bs_list # NoEntry)

\* What the list says was asked for is what the agents report, whatever sets,
\* losses and returns of the BS have come before.
ListedActive ==
  Quiet /\ online =>
    \A i \in 1..Len(bs_list.reports) : active[i - 1] = bs_list.reports[i]

\* Nothing else is reported either, unless an agent has outlived the BS.  (Such an
\* agent keeps reports that no list has any more, if it sends none before its BS is
\* back.)
OnlyListedActive ==
  ~outlived /\ Quiet /\ online =>
    \A x \in Xid : active[x] # NoReport => x < Len(bs_list.reports)

\* The agents of a BS report exactly what its list asks for, after all that the two
\* threads of stats_manager may do.
ReportsAsListed == ListedActive /\ OnlyListedActive

\* That there is "no previous stats_req configuration for BS" (stats_manager.cc:296)
\* is worth a warning: the call goes on without one.
MissingListTolerated == bad_it # "end"
=============================================================================
