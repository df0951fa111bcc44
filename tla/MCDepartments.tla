---------------------------- MODULE MCDepartments ---------------------------
(* Departments of two tenants under managers who may report to each other.  *)
EXTENDS Departments, TLC

CONSTANTS n1, n2, t1, t2, g1, p1, p2

MCForms == {[tenant |-> t1, name |-> n1, group |-> g1, manager |-> p1],
            [tenant |-> t2, name |-> n1, group |-> g1, manager |-> p2]}
MCLines == {<<p1, p2>>, <<p2, p1>>}
MCSlugOf == n1 :> <<n1>> @@ n2 :> <<n2>>
=============================================================================
