---------------------------- MODULE MCAuthzCache ----------------------------
(* One user, two credentials on one phone (the second replaces the first). *)
EXTENDS AuthzCache
CONSTANTS c1, c2
MCCreds == {c1, c2}
MCUserOf == [c \in MCCreds |-> "u"]
MCDeviceOf == [c \in MCCreds |-> "phone"]
=============================================================================
