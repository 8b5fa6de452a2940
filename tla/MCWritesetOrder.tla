-------------------------- MODULE MCWritesetOrder --------------------------
EXTENDS WritesetOrder, TLC
CONSTANTS r1, r2, r3, n1, p1, k1, k2, k3, kp

MCRow == {r1, r2, r3, n1, p1}
MCKey == {k1, k2, k3, kp}
\* r1 and r2 share the value k2 of a second unique key; n1 has no key;
\* p1 is the foreign key parent of r2.
MCRowKeys == r1 :> {k1, k2} @@ r2 :> {k2} @@ r3 :> {k3} @@ n1 :> {} @@ p1 :> {kp}
MCFKParentRow == {p1}
MCFKRef == {<<r2, p1>>}
=============================================================================
