------------------------------- MODULE MCRrm -------------------------------
(***************************************************************************)
(* Two slices on two groups, one UE.  Downlink requests vary; the uplink   *)
(* one switches the algorithm with a slice, or is left out.                *)
(***************************************************************************)
EXTENDS RrmManagement

Request(a, s, sched) == [algorithm |-> a, slices |-> s, scheduler |-> sched]
Nothing == Request(Keep, <<>>, FALSE)

Requests ==
  LET dl == {Request(Keep, s, FALSE) :
               s \in {<<>>, 1 :> Label, 2 :> <<0, 0>>, 2 :> <<0, 1>>, 2 :> <<1, 1>>}}
            \cup {Request("Static", s, FALSE) :
                    s \in {1 :> <<0, 0>>, 1 :> <<0, 1>>, (1 :> <<0, 0>>) @@ (2 :> <<1, 1>>),
                           (1 :> <<0, 1>>) @@ (2 :> <<1, 1>>)}}
            \cup {Request("None", <<>>, TRUE), Request("None", 1 :> Label, FALSE),
                  Request("Static", <<>>, TRUE), Request("NVS", 1 :> Share, FALSE)}
      ul == {Nothing, Request("Static", 1 :> <<0, 0>>, FALSE)}
  IN [dl : dl, ul : ul]

\* Both directions get slices, then the algorithm of one changes.
Switches ==
  {[dl |-> Request("Static", (1 :> <<0, 0>>) @@ (2 :> <<1, 1>>), FALSE),
    ul |-> Request("Static", 1 :> <<0, 0>>, FALSE)],
   [dl |-> Nothing, ul |-> Request("NVS", 1 :> Share, FALSE)]}

Removals == {[has_ids |-> b, ids |-> [dl |-> {1}, ul |-> {}]] : b \in BOOLEAN}

Assocs == [rnti : Ue \cup {Nobody}, imsi : Ue \cup {Nobody},
           dl : {Unset, 2}, ul : {Unset, 1}]

Token(ok, us) == [well_formed |-> ok, matches |-> us]
Bodies == {[brackets |-> TRUE, tokens |-> <<Token(TRUE, Ue)>>],
           [brackets |-> TRUE, tokens |-> <<Token(TRUE, Ue), Token(FALSE, {})>>],
           [brackets |-> TRUE, tokens |-> <<>>],
           [brackets |-> FALSE, tokens |-> <<>>]}
Groups == 0..1
=============================================================================
