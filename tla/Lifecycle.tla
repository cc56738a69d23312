------------------------------ MODULE Lifecycle ------------------------------
(***************************************************************************)
(* The changeset status graph of internal/change/changeset.go.             *)
(***************************************************************************)

Status == {"draft", "validated", "applying", "awaiting_confirm", "committed",
           "rolled_back", "failed", "discarded", "requested"}

\* A changeset id that no row has been inserted for yet.
Absent == "absent"

AllowedTransitions ==
    {<<"draft", "validated">>, <<"draft", "applying">>, <<"draft", "discarded">>,
     <<"validated", "draft">>, <<"validated", "applying">>, <<"validated", "discarded">>,
     <<"applying", "awaiting_confirm">>, <<"applying", "failed">>, <<"applying", "rolled_back">>,
     <<"awaiting_confirm", "committed">>, <<"awaiting_confirm", "rolled_back">>,
     <<"awaiting_confirm", "failed">>,
     <<"requested", "draft">>, <<"requested", "discarded">>}

Terminal == {"committed", "rolled_back", "failed", "discarded"}

Editable(s) == s \in {"draft", "validated"}

\* Changeset.Transition on a copy whose status is `from`: an illegal edge is
\* refused and the copy keeps its status.
Transition(from, to) == IF <<from, to>> \in AllowedTransitions THEN to ELSE from

\* The commit-confirm window: nodes may run a configuration nobody confirmed.
Window == {"applying", "awaiting_confirm"}
==============================================================================
