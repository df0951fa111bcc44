------------------------------ MODULE MCScans -------------------------------
(* A Linux source, two kinds of Windows sources and the server itself.     *)
EXTENDS Scans

CONSTANTS h1, h2, dosm, d1, d2

Direct(protocol) ==
  [protocol |-> protocol, hops |-> <<>>, password |-> TRUE, hopPassword |-> FALSE]

MCSource == [h \in {h1, h2} |->
               IF h = h1 THEN Direct("ssh")
               ELSE [protocol |-> "rdp", hops |-> <<"ssh">>, password |-> TRUE,
                     hopPassword |-> FALSE]]

\* A scan of two destinations from one source, and of another destination
\* from two.
MCRequests ==
  {[sources |-> <<h1>>, dests |-> <<d1, d2>>, ports |-> <<1>>],
   [sources |-> <<dosm, h2>>, dests |-> <<d2>>, ports |-> <<1>>]}
=============================================================================
