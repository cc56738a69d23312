---------------------------- MODULE SingleWindow ----------------------------
(***************************************************************************)
(* What the change engine promises about changeset statuses, as seen by a  *)
(* reader of the changesets table: statuses only move along the graph of   *)
(* changeset.go, and at most one changeset at a time is between the start  *)
(* of its apply and its terminal status.                                   *)
(***************************************************************************)
EXTENDS Lifecycle

CONSTANT Changesets

VARIABLE status

TypeOK == status \in [Changesets -> Status \cup {Absent}]

Init == status = [c \in Changesets |-> Absent]

\* Create, CreateRequest and the restoring draft of a committed changeset.
Insert(c) ==
    /\ status[c] = Absent
    /\ \E s \in {"draft", "requested"} : status' = [status EXCEPT ![c] = s]

\* An apply opens the window only while no other changeset is inside it.
Open(c) ==
    /\ Editable(status[c])
    /\ \A d \in Changesets : status[d] \notin Window
    /\ status' = [status EXCEPT ![c] = "applying"]

\* Every other legal edge of the graph.
Move(c) ==
    \E s \in Status \ {"applying"} :
        /\ <<status[c], s>> \in AllowedTransitions
        /\ status' = [status EXCEPT ![c] = s]

Next == \E c \in Changesets : Insert(c) \/ Open(c) \/ Move(c)

Spec == Init /\ [][Next]_status
=============================================================================
