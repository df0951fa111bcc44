------------------------------ MODULE Inventory ------------------------------
(***************************************************************************)
(* The inventory: hosts and pipeline registrations with their payloads,    *)
(* filed in the tree of OrgTree and bound to the credentials of Vault.     *)
(* The same rows are written through three doors: the web routes, the      *)
(* actions of the agent and the commands of `dosm`.  Web handlers and      *)
(* agent actions do not await between reading and committing, so each is   *)
(* one step; a command is one step too, except `dosm application rm`,      *)
(* which waits for the operator with the node already chosen.              *)
(* An actor who may not see or change a row gets an error and changes      *)
(* nothing, and an administrator always may: rights are left to Accounts.  *)
(***************************************************************************)
EXTENDS OrgTree, Vault

CONSTANTS
  HostIds, PipeIds, PayloadIds, PayloadNames,
  JUMP_CHAIN_MAX_DEPTH,   \* hosts/repo.py
  MaxRows,                \* bound: rows in all tables together, a payload counting half
  MaxCopies               \* bound: copies of copies of a payload

ASSUME InventoryAssumption ==
  /\ HostIds \cup PipeIds \cup PayloadIds \subseteq Nat \ {0}
  /\ NoId \notin HostIds \cup PipeIds \cup PayloadIds
  /\ JUMP_CHAIN_MAX_DEPTH \in Nat
  /\ MaxRows \in Nat
  /\ MaxCopies \in Nat

VARIABLES
  hosts,     \* hosts: id -> [tenant, box, jump, cred, ft, unit]
  pipes,     \* pipelines: id -> [tenant, cred, unit]
  payloads   \* pipeline_payloads: id -> [pipe, name]

orgVars == <<units, asked>>
vars == <<units, asked, creds, sources, secrets, hosts, pipes, payloads>>

Rows == Cardinality(DOMAIN units) + Cardinality(DOMAIN creds) + Cardinality(DOMAIN sources)
        + Cardinality(DOMAIN hosts) + Cardinality(DOMAIN pipes) + Cardinality(DOMAIN secrets)
        + Cardinality({asked} \ {NoId}) + (Cardinality(DOMAIN payloads) + 1) \div 2

----------------------------------------------------------------------------
(* Hosts *)

\* _validate_credential and _validate_org_unit: a reference into the same tenant.
InTenant(table, id, t) == id = NoId \/ (id \in DOMAIN table /\ table[id].tenant = t)

\* The n-th host on the way out from j.
Hop(j) ==
  LET hop[n \in 0..(JUMP_CHAIN_MAX_DEPTH + 1)] ==
        IF n = 0 THEN j
        ELSE IF hop[n - 1] \in DOMAIN hosts THEN hosts[hop[n - 1]].jump ELSE NoId
  IN  hop

\* Mutant: only the first host of the chain is looked at, and not its flag.
ValidJumpShallow(h, j, t) == j = NoId \/ (j # h /\ InTenant(hosts, j, t))

\* _validate_jump: every hop is a flagged host of the tenant, none is the host
\* itself, and the chain ends.
ValidJump(h, j, t) ==
  LET hop == Hop(j)
  IN  /\ hop[JUMP_CHAIN_MAX_DEPTH + 1] = NoId
      /\ \A n \in DOMAIN hop : hop[n] # NoId =>
           /\ hop[n] # h
           /\ InTenant(hosts, hop[n], t)
           /\ hosts[hop[n]].box

\* What create_host and update_host store of the fields they are given.
HostRow(t, box, jump, cred, ft, unit) ==
  [tenant |-> t, box |-> box, jump |-> IF box THEN NoId ELSE jump,
   cred |-> cred, ft |-> ft, unit |-> unit]

\* Mutant: the file-transfer credential goes unchecked.
ValidHostLoginOnly(h, row) ==
  /\ InTenant(units, row.unit, row.tenant)
  /\ InTenant(creds, row.cred, row.tenant)
  /\ ValidJump(h, row.jump, row.tenant)

ValidHost(h, row) ==
  /\ InTenant(units, row.unit, row.tenant)
  /\ InTenant(creds, row.cred, row.tenant)
  /\ InTenant(creds, row.ft, row.tenant)
  /\ ValidJump(h, row.jump, row.tenant)

HostUnchanged == UNCHANGED <<orgVars, vaultVars, pipes, payloads>>

CreateHost(row) ==
  /\ NewId(hosts) \in HostIds
  /\ ValidHost(NoId, row)
  /\ hosts' = Put(hosts, NewId(hosts), row)
  /\ HostUnchanged

UpdateHost(h, row) ==
  /\ ValidHost(h, row)
  /\ hosts[h].box /\ ~row.box => \A g \in DOMAIN hosts : hosts[g].jump # h
  /\ hosts' = [hosts EXCEPT ![h] = row]
  /\ HostUnchanged

HostsCreate(t, box, jump, cred, ft, unit) ==
  CreateHost(HostRow(t, box, jump, cred, ft, unit))

AgentCreateHost(t, box, jump, cred) ==
  CreateHost(HostRow(t, box, jump, cred, NoId, NoId))

HostAdd(t, cred, ft, unit) ==
  CreateHost(HostRow(t, FALSE, NoId, cred, ft, unit))

HostsUpdate(h, box, jump, cred, ft, unit) ==
  /\ h \in DOMAIN hosts
  /\ UpdateHost(h, HostRow(hosts[h].tenant, box, jump, cred, ft, unit))

\* The agent passes on what it was given, the row's own value for a field left
\* out, and nothing at all for the file transfer and the placement: update_host
\* takes their defaults and clears them.
AgentUpdateHost(h, box, jump, cred) ==
  /\ h \in DOMAIN hosts
  /\ UpdateHost(h, HostRow(hosts[h].tenant, box, jump, cred, NoId, NoId))

AssignHost(h, unit) ==
  /\ h \in DOMAIN hosts
  /\ InTenant(units, unit, hosts[h].tenant)
  /\ hosts' = [hosts EXCEPT ![h].unit = unit]
  /\ HostUnchanged

HostsAssignOrg(h, unit) == AssignHost(h, unit)

ApplicationAssign(h, unit) == AssignHost(h, unit)

\* ON DELETE SET NULL of jump_host_id
RemoveHost(h) ==
  /\ h \in DOMAIN hosts
  /\ hosts' = [g \in DOMAIN hosts \ {h} |->
                IF hosts[g].jump = h THEN [hosts[g] EXCEPT !.jump = NoId] ELSE hosts[g]]
  /\ HostUnchanged

HostsDelete(h) == RemoveHost(h)

AgentDeleteHost(h) == RemoveHost(h)

----------------------------------------------------------------------------
(* Pipelines and payloads *)

PipeUnchanged == UNCHANGED <<orgVars, vaultVars, hosts>>

\* A foreign key: the row referred to exists, whoever owns it.
Exists(table, id) == id = NoId \/ id \in DOMAIN table

AddPipeline(t, cred, unit) ==
  /\ NewId(pipes) \in PipeIds
  /\ Exists(creds, cred)
  /\ Exists(units, unit)
  /\ pipes' = Put(pipes, NewId(pipes), [tenant |-> t, cred |-> cred, unit |-> unit])
  /\ PipeUnchanged /\ UNCHANGED payloads

PipelinesCreate(t, cred, unit) == AddPipeline(t, cred, unit)

AgentCreatePipeline(t, cred) == AddPipeline(t, cred, NoId)

PipelineAdd(t, cred, unit) ==
  /\ InTenant(creds, cred, t)
  /\ InTenant(units, unit, t)
  /\ AddPipeline(t, cred, unit)

SetPipeline(p, cred, unit) ==
  /\ p \in DOMAIN pipes
  /\ Exists(creds, cred)
  /\ Exists(units, unit)
  /\ pipes' = [pipes EXCEPT ![p].cred = cred, ![p].unit = unit]
  /\ PipeUnchanged /\ UNCHANGED payloads

PipelinesUpdate(p, cred, unit) == SetPipeline(p, cred, unit)

\* As for hosts, the agent does not pass the placement on.
AgentUpdatePipeline(p, cred) == SetPipeline(p, cred, NoId)

PipelinesAssignOrg(p, unit) ==
  /\ p \in DOMAIN pipes
  /\ InTenant(units, unit, pipes[p].tenant)
  /\ pipes' = [pipes EXCEPT ![p].unit = unit]
  /\ PipeUnchanged /\ UNCHANGED payloads

\* ON DELETE CASCADE of pipeline_payloads.pipeline_id
RemovePipeline(p) ==
  /\ p \in DOMAIN pipes
  /\ pipes' = Without(pipes, {p})
  /\ payloads' = Without(payloads, {l \in DOMAIN payloads : payloads[l].pipe = p})
  /\ PipeUnchanged

PipelinesDelete(p) == RemovePipeline(p)

AgentDeletePipeline(p) == RemovePipeline(p)

PayloadNameFree(p, name, except) ==
  \A l \in DOMAIN payloads \ {except} : payloads[l].pipe = p => payloads[l].name # name

AddPayload(p, name) ==
  /\ NewId(payloads) \in PayloadIds
  /\ payloads' = Put(payloads, NewId(payloads), [pipe |-> p, name |-> name])
  /\ PipeUnchanged /\ UNCHANGED pipes

CreatePayload(p, n) ==
  /\ p \in DOMAIN pipes
  /\ PayloadNameFree(p, <<n>>, NoId)
  /\ AddPayload(p, <<n>>)

PayloadCreate(p, n) == CreatePayload(p, n)

PayloadAdd(p, n) == CreatePayload(p, n)

UpdatePayload(l, n) ==
  /\ l \in DOMAIN payloads
  /\ PayloadNameFree(payloads[l].pipe, <<n>>, l)
  /\ payloads' = [payloads EXCEPT ![l].name = <<n>>]
  /\ PipeUnchanged /\ UNCHANGED pipes

PayloadUpdate(l, n) == UpdatePayload(l, n)

PayloadRename(l, n) == UpdatePayload(l, n)

\* "X (copy)", then "X (copy 2)", "X (copy 3)", ...: the first that is free.
CopyName(l) ==
  LET p == payloads[l].pipe
      Free(k) == PayloadNameFree(p, Append(payloads[l].name, k), NoId)
      first == CHOOSE k \in 1..(Cardinality(DOMAIN payloads) + 1) :
                 Free(k) /\ \A i \in 1..(k - 1) : ~Free(i)
  IN  Append(payloads[l].name, first)

CopyPayload(l) ==
  /\ l \in DOMAIN payloads
  /\ Len(payloads[l].name) <= MaxCopies
  /\ AddPayload(payloads[l].pipe, CopyName(l))

PayloadCopy(l) == CopyPayload(l)

PayloadCopyCli(l) == CopyPayload(l)

DeletePayload(l) ==
  /\ l \in DOMAIN payloads
  /\ payloads' = Without(payloads, {l})
  /\ PipeUnchanged /\ UNCHANGED pipes

PayloadDelete(l) == DeletePayload(l)

PayloadRm(l) == DeletePayload(l)

----------------------------------------------------------------------------
(* The steps that reach into other tables *)

\* ON DELETE SET NULL of org_unit_id, in the transaction that deletes the nodes.
Unfiled(table) ==
  [id \in DOMAIN table |->
     IF table[id].unit \in DOMAIN units' THEN table[id] ELSE [table[id] EXCEPT !.unit = NoId]]

\* ON DELETE SET NULL of credential_id and ft_credential_id
Unbound(ref) == IF ref \in DOMAIN creds' THEN ref ELSE NoId

TreeStep(A) ==
  /\ A
  /\ hosts' = Unfiled(hosts)
  /\ pipes' = Unfiled(pipes)
  /\ UNCHANGED <<vaultVars, payloads>>

VaultStep(A) ==
  /\ A
  /\ hosts' = [h \in DOMAIN hosts |->
       [hosts[h] EXCEPT !.cred = Unbound(@), !.ft = Unbound(@)]]
  /\ pipes' = [p \in DOMAIN pipes |-> [pipes[p] EXCEPT !.cred = Unbound(@)]]
  /\ UNCHANGED <<orgVars, payloads>>

\* credentials_delete refuses while a host logs in with the profile.
HostsUsing(c) == {h \in DOMAIN hosts : hosts[h].cred = c}

----------------------------------------------------------------------------

Init ==
  /\ units = << >> /\ asked = NoId
  /\ creds = << >> /\ sources = << >> /\ secrets = << >>
  /\ hosts = << >> /\ pipes = << >> /\ payloads = << >>

\* A reference in a form or an argument: a row there is, or none.  An id whose row
\* is gone is refused by every door.
Ref(table) == DOMAIN table \cup {NoId}

\* The bound on the rows leaves room for one more.
Room == Rows < MaxRows

TreeNext ==
  \/ Room /\ \E t \in Tenants, n \in Names, p \in Ref(units) :
       \/ \E tier \in Tiers : TreeStep(WebCreateUnit(t, n, tier, p))
       \/ TreeStep(ApplicationAdd(t, n, p))
  \/ \E u \in DOMAIN units :
       \/ \E n \in Names : TreeStep(EditUnit(u, n)) \/ TreeStep(ApplicationRename(u, n))
       \/ TreeStep(DeleteUnit(u))
       \/ TreeStep(ApplicationRmAsks(u))
  \/ \E yes \in BOOLEAN : TreeStep(ApplicationRmAnswered(yes))

CredentialNext ==
  \/ Room /\ \E t \in Tenants, n \in CredNames, stored \in BOOLEAN :
       \/ \E kind \in Kinds, ref \in CustomRefs \cup {AutoRef(t, n)}, given \in BOOLEAN :
            \/ VaultStep(CredentialsCreate(t, n, kind, ref, given, stored))
            \/ VaultStep(CredentialAdd(t, n, kind, ref, given, stored))
       \/ VaultStep(MyCredentialsNew(t, n))
       \/ VaultStep(AgentCreateCredential(t, n, stored))
  \/ \E c \in DOMAIN creds :
       \/ \E n \in CredNames, kind \in Kinds, given, stored \in BOOLEAN :
            VaultStep(CredentialsUpdate(c, n, kind, given, stored))
       \/ \E n \in CredNames : VaultStep(CredentialsRename(c, n)) \/ VaultStep(CredentialRename(c, n))
       \/ \E stored \in BOOLEAN : VaultStep(AgentUpdateCredential(c, stored))
       \/ \E u \in Users :
            \/ VaultStep(MyCredentialsSet(c, u)) \/ VaultStep(CredentialSetUserSecret(c, u))
            \/ VaultStep(MyCredentialsClear(c, u)) \/ VaultStep(CredentialClearUserSecret(c, u))
       \/ HostsUsing(c) = {} /\ VaultStep(CredentialsDelete(c))
       \/ \E done \in BOOLEAN : VaultStep(AgentDeleteCredential(c, done))
  \/ \E path \in CustomRefs :
       (\E t \in Tenants : VaultStep(SecretSet(path, t))) \/ VaultStep(SecretDelete(path))

SourceNext ==
  \/ \E given \in BOOLEAN, failed \in Outcomes :
       \/ \E t \in Tenants :
            VaultStep(CreateSource(t, given, failed)) \/ VaultStep(AgentCreateSource(t, given, failed))
       \/ \E s \in DOMAIN sources :
            VaultStep(UpdateSource(s, given, failed)) \/ VaultStep(AgentUpdateSource(s, given, failed))
  \/ \E s \in DOMAIN sources, done \in BOOLEAN :
       VaultStep(DeleteSource(s, done)) \/ VaultStep(AgentDeleteSource(s, done))

HostNext ==
  \/ Room /\ \E t \in Tenants, cred, ft \in Ref(creds), unit \in Ref(units) :
       \/ \E box \in BOOLEAN, jump \in Ref(hosts) : HostsCreate(t, box, jump, cred, ft, unit)
       \/ HostAdd(t, cred, ft, unit)
  \/ Room /\ \E t \in Tenants, box \in BOOLEAN, jump \in Ref(hosts), cred \in Ref(creds) :
       AgentCreateHost(t, box, jump, cred)
  \/ \E h \in DOMAIN hosts :
       \/ \E box \in BOOLEAN, jump \in Ref(hosts), cred \in Ref(creds) :
            \/ \E ft \in Ref(creds), unit \in Ref(units) :
                 HostsUpdate(h, box, jump, cred, ft, unit)
            \/ AgentUpdateHost(h, box, jump, cred)
       \/ \E unit \in Ref(units) : HostsAssignOrg(h, unit) \/ ApplicationAssign(h, unit)
       \/ HostsDelete(h)
       \/ AgentDeleteHost(h)

PipeNext ==
  \/ Room /\ \E t \in Tenants, cred \in Ref(creds) :
       \/ \E unit \in Ref(units) : PipelinesCreate(t, cred, unit) \/ PipelineAdd(t, cred, unit)
       \/ AgentCreatePipeline(t, cred)
  \/ \E p \in DOMAIN pipes :
       \/ \E cred \in Ref(creds) :
            (\E unit \in Ref(units) : PipelinesUpdate(p, cred, unit)) \/ AgentUpdatePipeline(p, cred)
       \/ \E unit \in Ref(units) : PipelinesAssignOrg(p, unit)
       \/ PipelinesDelete(p)
       \/ AgentDeletePipeline(p)
  \/ \E p \in DOMAIN pipes, n \in PayloadNames : PayloadCreate(p, n) \/ PayloadAdd(p, n)
  \/ \E l \in DOMAIN payloads :
       \/ \E n \in PayloadNames : PayloadUpdate(l, n) \/ PayloadRename(l, n)
       \/ PayloadCopy(l)
       \/ PayloadCopyCli(l)
       \/ PayloadDelete(l)
       \/ PayloadRm(l)

Next ==
  /\ TreeNext \/ CredentialNext \/ SourceNext \/ HostNext \/ PipeNext
  /\ Rows' <= MaxRows

Spec == Init /\ [][Next]_vars

----------------------------------------------------------------------------
\* The rows have their shape, and no deletion leaves a reference to a row that
\* is gone (a pipeline's credential and place, a payload's pipeline).
TypeOK ==
  /\ OrgTypeOK
  /\ VaultTypeOK
  /\ DOMAIN hosts \subseteq HostIds
  /\ DOMAIN pipes \subseteq PipeIds
  /\ DOMAIN payloads \subseteq PayloadIds
  /\ \A h \in DOMAIN hosts : hosts[h].tenant \in Tenants /\ hosts[h].box \in BOOLEAN
  /\ \A p \in DOMAIN pipes : Exists(creds, pipes[p].cred) /\ Exists(units, pipes[p].unit)
  /\ \A l \in DOMAIN payloads : payloads[l].pipe \in DOMAIN pipes

(***************************************************************************)
(* resolve_jump_chain walks the chain without a guard ("Validation has     *)
(* already rejected cycles, so this is safe"): through flags set and       *)
(* cleared, hosts deleted and edits by form and agent, a host's jump is a  *)
(* jumpbox of its tenant that is reached directly.                         *)
(***************************************************************************)
JumpsDirect ==
  \A h \in DOMAIN hosts : hosts[h].jump # NoId =>
    /\ ~hosts[h].box
    /\ hosts[h].jump \in DOMAIN hosts
    /\ hosts[hosts[h].jump].box
    /\ hosts[hosts[h].jump].jump = NoId

(***************************************************************************)
(* "Every operational row belongs to exactly one tenant": what a host is   *)
(* bound to (credentials, jump host, place in the tree) exists and is of   *)
(* the host's own tenant, after every deletion and whichever door was used.*)
(***************************************************************************)
HostsClosed ==
  \A h \in DOMAIN hosts :
    /\ InTenant(creds, hosts[h].cred, hosts[h].tenant)
    /\ InTenant(creds, hosts[h].ft, hosts[h].tenant)
    /\ InTenant(hosts, hosts[h].jump, hosts[h].tenant)
    /\ InTenant(units, hosts[h].unit, hosts[h].tenant)

(***************************************************************************)
(* uq_payload_pipeline_name is never hit: a name given to a payload, the   *)
(* one derived for a copy included, is free on its pipeline.               *)
(***************************************************************************)
PayloadsDistinct ==
  \A l, m \in DOMAIN payloads :
    payloads[l].pipe = payloads[m].pipe /\ payloads[l].name = payloads[m].name => l = m

\* "Every operational row belongs to exactly one tenant": the tree and what hosts
\* are bound to stay within it, and every reference leads to a row.
TenantsClosed == TypeOK /\ TreeSound /\ HostsClosed

\* What is looked up by name or slug is found once.
NamesDistinct == PathsDistinct /\ SlugsDistinct /\ PayloadsDistinct
=============================================================================
