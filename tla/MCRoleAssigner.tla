--------------------------- MODULE MCRoleAssigner ---------------------------
(* A server whose role for those who play is renamed, replaced or there     *)
(* twice; jane is a person, joe is excluded.                                *)
EXTENDS RoleAssigner

CONSTANTS server, elite, jane, joe, r1, r2

OneAssign == <<[guild |-> "fleet", game |-> elite, role |-> "pilot", exclude |-> {joe}]>>

Described(roles) == [id |-> server, name |-> "fleet", roles |-> roles]
FirstRole == [name |-> "pilot", id |-> r1]
SecondRole == [name |-> "pilot", id |-> r2]
RolesComeAndGo == {Described(<<FirstRole, SecondRole>>), Described(<<FirstRole>>)}
RolesAreThereOrNot == {Described(<<FirstRole>>), Described(<<>>)}
=============================================================================
