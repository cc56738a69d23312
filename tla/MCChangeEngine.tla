--------------------------- MODULE MCChangeEngine ---------------------------
(***************************************************************************)
(* Instances of the change engine for TLC.                                 *)
(***************************************************************************)
EXTENDS EngineInvariants, TLC

CONSTANTS c1, c2, n1, n2, fw, qos

\* Two changesets that rewrite the same node, one with a firewall part.
SharedNode == (c1 :> {n1, fw}) @@ (c2 :> {n1})

\* Two changesets that rewrite the same node and nothing else.
SharedFile == (c1 :> {n1}) @@ (c2 :> {n1})

\* One changeset over one node, or over two.
OneNode == c1 :> {n1}
TwoNodes == c1 :> {n1, n2}

\* One changeset with a part only the daemon restores.
NodeAndQos == c1 :> {n1, qos}
=============================================================================
