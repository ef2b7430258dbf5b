---------------------------- MODULE MCAdmission ----------------------------
(* An instance of Admission: two callers at one address, of which one has an account. *)
EXTENDS Admission, TLC
CONSTANTS c1, c2, u1, x, y, ip

Addressing == c1 :> ip @@ c2 :> ip

Asking == c1 :> {"login", "analyze", "list audit logs"} @@ c2 :> {"analyze"}

Row(active, role, tenant) == [active |-> active, role |-> role, tenant |-> tenant]

RowsOfUsers == {Row(TRUE, "ADMIN", x), Row(TRUE, "VIEWER", y), Row(FALSE, "ADMIN", x)}

Limiting == [route \in LimitedRoutes |-> 1]
=============================================================================
