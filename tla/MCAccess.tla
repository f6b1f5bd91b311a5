------------------------------ MODULE MCAccess ------------------------------
(* A batch is many requests in one: two of them reach what three others do. *)
EXTENDS Access

MCRequests ==
    [f \in Families |-> CASE f = "batches" -> 2
                          [] f \in {"sync", "invitations", "oauth2"} -> 4
                          [] OTHER -> 3]
=============================================================================
