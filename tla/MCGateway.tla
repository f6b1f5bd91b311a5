----------------------------- MODULE MCGateway -----------------------------
(***************************************************************************)
(* The door of a gateway (DoorRelay, three overlapping reader sessions) or *)
(* what the cloud keeps of the gateway (GatewayRuntime: its events, its    *)
(* status or its sessions).  They share no state: `part' is chosen first.  *)
(***************************************************************************)
EXTENDS DoorRelay, GatewayRuntime

VARIABLE part

MCBatches == {<<"a1", "d1">>}

MCInit == Init /\ GwInit /\ part \in {"relay", "events", "status", "sessions"}

Cloud(p, A) == part = p /\ A /\ UNCHANGED <<vars, part>>

MCNext ==
    \/ part = "relay" /\ Next /\ UNCHANGED <<gwVars, part>>
    \/ Cloud("events", EventsNext)
    \/ Cloud("status", StatusNext)
    \/ Cloud("sessions", SessionsNext)

MCSpec == MCInit /\ [][MCNext]_<<vars, gwVars, part>> /\ Fairness /\ GwFairness
=============================================================================
