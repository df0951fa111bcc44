-------------------------- MODULE MCConfluenceSync --------------------------
(* One page with an attachment. *)
EXTENDS ConfluenceSync

CONSTANTS p1, a1

MCParent == [a \in {a1} |-> p1]
=============================================================================
