------------------------------ MODULE RibView ------------------------------
(***************************************************************************)
(* The RIB as the applications see it: the base stations that are          *)
(* registered, with what their agents have reported, and how a call names  *)
(* one of them.  How they come to be there is modelled in Rib.             *)
(***************************************************************************)
EXTENDS Naturals, FiniteSets, FiniteSetsExt, Functions

CONSTANTS
  Bs,    \* IDs of base stations, ordered
  Pci,   \* physical cell IDs
  Ues,   \* UEs of a base station
  Replies  \* what a BS can report

VARIABLE bs   \* eNB_configs_: what each registered BS has reported

ribVars == <<bs>>

NoPci  == 504       \* the configuration has no cell or no cell ID; 503 is the largest
LastBs == 0         \* in a call: -1, "the last BS"
BsReport == [pci : Pci \cup {NoPci}, net_control : BOOLEAN, ues : SUBSET Ues]

ASSUME BsAssumption == Bs \subseteq Nat \ {0} /\ Pci \subseteq Nat
ASSUME ReplyAssumption == Replies \subseteq BsReport

get_available_base_stations == DOMAIN bs

RibInit == bs = <<>>

\* The RIB makes an entry; bs_add_ is raised next.
AddBs(b) ==
  /\ b \notin DOMAIN bs
  /\ bs' = [x \in DOMAIN bs \cup {b} |->
              IF x = b THEN [pci |-> NoPci, net_control |-> FALSE, ues |-> {}] ELSE bs[x]]

\* An agent disconnects; bs_remove_ is raised next.
RemoveBs(b) ==
  /\ b \in DOMAIN bs
  /\ bs' = Restrict(bs, DOMAIN bs \ {b})

\* A configuration reply; UEs come and go.
ReportBs(b, r) ==
  /\ b \in DOMAIN bs
  /\ bs' = [bs EXCEPT ![b] = r]

\* A message of an agent: a BS comes or goes, or reports its UEs.
UeReport(us) == [pci |-> NoPci, net_control |-> FALSE, ues |-> us]
RibMoves ==
  \E b \in Bs : AddBs(b) \/ RemoveBs(b) \/ \E us \in SUBSET Ues : ReportBs(b, UeReport(us))

\* parse_bs_id(): the BS that a call names, 0 if there is none.  "The last BS" is the one
\* with the greatest ID, in whatever order they were added.
parse_bs_id(s) ==
  IF s = LastBs THEN IF bs = <<>> THEN 0 ELSE Max(DOMAIN bs)
  ELSE IF s \in DOMAIN bs THEN s ELSE 0
=============================================================================
