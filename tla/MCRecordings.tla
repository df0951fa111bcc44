---------------------------- MODULE MCRecordings ----------------------------
(* Two users whose cleaned names may give the same slug; the platform       *)
(* administrator u1 can switch tenants.                                     *)
EXTENDS Recordings, TLC

CONSTANTS u1, u2, t1, t2, s1, s2

MCTenantsOf == (u1 :> {t1, t2, NoTenant}) @@ (u2 :> {t1})
MCSlugsOf == (u1 :> {s1, s2}) @@ (u2 :> {s2})
=============================================================================
