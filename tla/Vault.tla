-------------------------------- MODULE Vault --------------------------------
(***************************************************************************)
(* Credential profiles, monitoring sources and the secrets backend they    *)
(* store into (credentials/*, monitoring/routes.py, the agent's            *)
(* credential and monitoring actions, `dosm credential` and `dosm secret`).*)
(* Every writer commits its row first and writes the secret afterwards,    *)
(* because SQLite has one writer: the secret's write may fail alone.       *)
(* A stored secret is not its bytes but for whom it was written: the       *)
(* tenant, and the monitoring source as long as that row exists.           *)
(***************************************************************************)
EXTENDS Naturals, Sequences, FiniteSets, Tables

CONSTANTS CredIds, SourceIds, Users, CredNames, CustomRefs

\* CustomRefs are the paths an operator types: those outside the areas whose paths
\* the program makes itself.
ASSUME VaultAssumption ==
  /\ CredIds \cup SourceIds \subseteq Nat \ {0}
  /\ NoId \notin CredIds \cup SourceIds
  /\ CredNames \subseteq DOMAIN SlugOf
  /\ \A r \in CustomRefs : /\ DOMAIN r = {"area", "of", "slug", "user"}
                            /\ r.area \notin {"credentials", "monitoring"}

VARIABLES
  creds,     \* credentials: id -> [tenant, name, kind, ref]
  sources,   \* monitoring_sources: id -> [tenant, token]
  secrets    \* the backend: path -> [tenant, source]

vaultVars == <<creds, sources, secrets>>

Kinds == {"login", "dynamic"}

\* Mutant: the path is made of the name alone.
AutoRefUnscoped(t, n) == [area |-> "credentials", of |-> NoId, slug |-> SlugOf[n], user |-> NoId]

AutoRef(t, n) == [area |-> "credentials", of |-> t, slug |-> SlugOf[n], user |-> NoId]

UserPath(c, u) == [creds[c].ref EXCEPT !.user = u]

TokenPath(s) == [area |-> "monitoring", of |-> s, slug |-> << >>, user |-> NoId]

\* set(): the value is stored, or the backend raises and nothing is.
Set(path, t, source, stored) ==
  secrets' = IF stored THEN Put(secrets, path, [tenant |-> t, source |-> source]) ELSE secrets

\* uq_credential_tenant_name
CredNameFree(t, n, except) ==
  \A c \in DOMAIN creds \ {except} : creds[c].tenant = t => creds[c].name # n

AddCred(t, n, kind, ref) ==
  /\ NewId(creds) \in CredIds
  /\ CredNameFree(t, n, NoId)
  /\ creds' = Put(creds, NewId(creds), [tenant |-> t, name |-> n, kind |-> kind, ref |-> ref])
  /\ UNCHANGED sources

\* The form may name a path of its own; a dynamic profile gets no shared secret.
CredentialsCreate(t, n, kind, ref, given, stored) ==
  /\ ref \in CustomRefs \cup {AutoRef(t, n)}
  /\ AddCred(t, n, kind, ref)
  /\ Set(ref, t, NoId, given /\ stored /\ kind # "dynamic")

MyCredentialsNew(t, n) ==
  AddCred(t, n, "dynamic", AutoRef(t, n)) /\ UNCHANGED secrets

\* The agent's create_credential: kinds login, ssh_key, pat; a secret is required.
AgentCreateCredential(t, n, stored) ==
  /\ AddCred(t, n, "login", AutoRef(t, n))
  /\ Set(AutoRef(t, n), t, NoId, stored)

CredentialAdd(t, n, kind, ref, given, stored) ==
  /\ ref \in CustomRefs \cup {AutoRef(t, n)}
  /\ AddCred(t, n, kind, ref)
  /\ Set(ref, t, NoId, given /\ stored /\ kind # "dynamic")

\* The edit form: name and kind change, secret_ref never does.
CredentialsUpdate(c, n, kind, given, stored) ==
  /\ c \in DOMAIN creds
  /\ CredNameFree(creds[c].tenant, n, c)
  /\ creds' = [creds EXCEPT ![c].name = n, ![c].kind = kind]
  /\ Set(creds[c].ref, creds[c].tenant, NoId, given /\ stored)
  /\ UNCHANGED sources

AgentUpdateCredential(c, stored) ==
  /\ c \in DOMAIN creds
  /\ Set(creds[c].ref, creds[c].tenant, NoId, stored)
  /\ UNCHANGED <<creds, sources>>

Rename(c, n) ==
  /\ c \in DOMAIN creds
  /\ CredNameFree(creds[c].tenant, n, c)
  /\ creds' = [creds EXCEPT ![c].name = n]
  /\ UNCHANGED <<sources, secrets>>

CredentialsRename(c, n) == Rename(c, n)

CredentialRename(c, n) == Rename(c, n)

SetUserMaterial(c, u) ==
  /\ c \in DOMAIN creds
  /\ creds[c].kind = "dynamic"
  /\ Set(UserPath(c, u), creds[c].tenant, NoId, TRUE)
  /\ UNCHANGED <<creds, sources>>

MyCredentialsSet(c, u) == SetUserMaterial(c, u)

CredentialSetUserSecret(c, u) == SetUserMaterial(c, u)

ClearUserMaterial(c, u) ==
  /\ c \in DOMAIN creds
  /\ secrets' = Without(secrets, {UserPath(c, u)})
  /\ UNCHANGED <<creds, sources>>

MyCredentialsClear(c, u) ==
  c \in DOMAIN creds /\ creds[c].kind = "dynamic" /\ ClearUserMaterial(c, u)

CredentialClearUserSecret(c, u) == ClearUserMaterial(c, u)

RemoveCred(c) ==
  /\ c \in DOMAIN creds
  /\ creds' = Without(creds, {c})
  /\ UNCHANGED sources

\* The web route leaves the stored secret where it is.
CredentialsDelete(c) == RemoveCred(c) /\ UNCHANGED secrets

\* The agent deletes the secret at the profile's path too.
AgentDeleteCredential(c, done) ==
  /\ RemoveCred(c)
  /\ secrets' = IF done THEN Without(secrets, {creds[c].ref}) ELSE secrets

\* `dosm secret set` and `dosm secret delete` on a path of the operator's.
SecretSet(path, t) ==
  Set(path, t, NoId, TRUE) /\ UNCHANGED <<creds, sources>>

SecretDelete(path) ==
  /\ path \in DOMAIN secrets
  /\ secrets' = Without(secrets, {path})
  /\ UNCHANGED <<creds, sources>>

(***************************************************************************)
(* Monitoring sources.  The token's path holds the source's id, and ids    *)
(* are used again after a deletion; the row points at the path only once   *)
(* a token was stored.  "failed" is where the sequence broke off: before   *)
(* the secret, between the secret and the row's second commit, or nowhere. *)
(***************************************************************************)
Outcomes == {"none", "secret", "row"}

\* Mutant: the row points at the token's path before the token is stored.
StoreTokenRowFirst(s, t, given, failed) ==
  /\ Set(TokenPath(s), t, s, given /\ failed # "secret")
  /\ sources' = [x \in DOMAIN sources \cup {s} |->
       IF x # s THEN sources[x]
       ELSE [tenant |-> t, token |-> given \/ (s \in DOMAIN sources /\ sources[s].token)]]

StoreToken(s, t, given, failed) ==
  /\ Set(TokenPath(s), t, s, given /\ failed # "secret")
  /\ sources' = [x \in DOMAIN sources \cup {s} |->
       IF x # s THEN sources[x]
       ELSE [tenant |-> t,
             token |-> (given /\ failed = "none") \/ (s \in DOMAIN sources /\ sources[s].token)]]

CreateSource(t, given, failed) ==
  /\ NewId(sources) \in SourceIds
  /\ StoreToken(NewId(sources), t, given, failed)
  /\ UNCHANGED creds

AgentCreateSource(t, given, failed) ==
  /\ NewId(sources) \in SourceIds
  /\ StoreToken(NewId(sources), t, given, failed)
  /\ UNCHANGED creds

UpdateSource(s, given, failed) ==
  /\ s \in DOMAIN sources
  /\ StoreToken(s, sources[s].tenant, given, failed)
  /\ UNCHANGED creds

AgentUpdateSource(s, given, failed) ==
  /\ s \in DOMAIN sources
  /\ StoreToken(s, sources[s].tenant, given, failed)
  /\ UNCHANGED creds

\* The exceptions of delete() are ignored; what stays in the backend then belongs
\* to no row.
RemoveSource(s, done) ==
  /\ s \in DOMAIN sources
  /\ sources' = Without(sources, {s})
  /\ LET left == IF done /\ sources[s].token THEN Without(secrets, {TokenPath(s)}) ELSE secrets
     IN  secrets' = [p \in DOMAIN left |->
           IF left[p].source = s THEN [left[p] EXCEPT !.source = NoId] ELSE left[p]]
  /\ UNCHANGED creds

DeleteSource(s, done) == RemoveSource(s, done)

AgentDeleteSource(s, done) == RemoveSource(s, done)

VaultTypeOK ==
  /\ DOMAIN creds \subseteq CredIds
  /\ DOMAIN sources \subseteq SourceIds
  /\ \A c \in DOMAIN creds :
       creds[c].tenant \in Tenants /\ creds[c].name \in CredNames /\ creds[c].kind \in Kinds
  /\ \A s \in DOMAIN sources :
       sources[s].tenant \in Tenants /\ sources[s].token \in BOOLEAN
  /\ \A p \in DOMAIN secrets :
       /\ secrets[p].tenant \in Tenants
       /\ secrets[p].source \in DOMAIN sources \cup {NoId}

(***************************************************************************)
(* "namespaced by tenant slug to avoid cross-tenant collisions": through   *)
(* renames, deletions that leave the secret behind and profiles made anew, *)
(* a profile with an automatic path resolves only what was written for its *)
(* own tenant, its users' material included.                               *)
(***************************************************************************)
TenantsApart ==
  \A c \in DOMAIN creds :
    creds[c].ref \notin CustomRefs =>
      \A p \in DOMAIN secrets \cap ({creds[c].ref} \cup {UserPath(c, u) : u \in Users}) :
        secrets[p].tenant = creds[c].tenant

(***************************************************************************)
(* A source whose row points at a token gets the token stored for it, never*)
(* one an earlier source with the same id left behind, whichever of the    *)
(* three writes failed and whichever deletion was ignored.                 *)
(***************************************************************************)
TokenIsOwn ==
  \A s \in DOMAIN sources :
    sources[s].token /\ TokenPath(s) \in DOMAIN secrets => secrets[TokenPath(s)].source = s
=============================================================================
