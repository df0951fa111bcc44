-------------------------- MODULE NetworkExecutor ---------------------------
(***************************************************************************)
(* The group checks of the network executor: how the checks of one source  *)
(* are carried out, and what becomes of a failure at each stage.  A group  *)
(* check answers with one result per check and reports each check to a     *)
(* callback as soon as it is done.                                         *)
(*                                                                         *)
(* A source is described by its protocol, the protocols of its jump hops   *)
(* and whether it and its last hop have a password.                        *)
(***************************************************************************)
EXTENDS Naturals, Sequences, SequencesExt

Sources == [protocol : {"local", "ssh", "rdp"}, hops : Seq({"ssh", "rdp"}),
            password : BOOLEAN, hopPassword : BOOLEAN]

\* The DOSM process itself, the source without a host.
ThisServer == [protocol |-> "local", hops |-> <<>>, password |-> FALSE,
               hopPassword |-> FALSE]

\* How the checks of a Windows source are carried out.
WindowsRoute(s) ==
  CASE ~s.password                               -> "refused"
    [] s.password /\ s.hops = <<>>               -> "winrm"
    [] s.password /\ s.hops # <<>> /\ Last(s.hops) = "rdp" ->
         IF s.hopPassword THEN "invoke" ELSE "refused"
    [] s.password /\ s.hops # <<>> /\ Last(s.hops) = "ssh" ->
         IF "rdp" \in Range(s.hops) THEN "refused" ELSE "tunnel"

\* An SSH chain with a Windows hop is refused before anything is opened.
SshRoute(s) == IF "rdp" \in Range(s.hops) THEN "refused" ELSE "ssh"

Route(s) ==
  CASE s.protocol = "local" -> "local"
    [] s.protocol = "rdp"   -> WindowsRoute(s)
    [] s.protocol = "ssh"   -> SshRoute(s)

\* What a failure at some stage does to the group: "all" answers every check
\* with it, "one" answers the check it happened in, "raise" leaves the group
\* check as an exception, "never" cannot happen.
LocalGroup == [connect |-> "never", probe |-> "raise", report |-> "raise"]

SshGroup == [connect |-> "all", probe |-> "one", report |-> "all"]

WinrmGroup == [connect |-> "all", probe |-> "one", report |-> "raise"]

InvokeGroup == [connect |-> "all", probe |-> "one", report |-> "raise"]

\* The tunnel is leased first; the lease is released whatever happens.
TunnelGroup == [WinrmGroup EXCEPT !.connect = "all"]

Group(route) ==
  CASE route = "local"  -> LocalGroup
    [] route = "ssh"    -> SshGroup
    [] route = "winrm"  -> WinrmGroup
    [] route = "invoke" -> InvokeGroup
    [] route = "tunnel" -> TunnelGroup
=============================================================================
