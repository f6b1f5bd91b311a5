---------------------------- MODULE AgentEvents ----------------------------
(***************************************************************************)
(* The gateway agent's upload queue (api/cmd/gateway-agent/agent.go,       *)
(* ws_client.go) and the cloud's WebSocket sessions that read it           *)
(* (api/internal/http/routes_gateway_ws.go).                               *)
(*                                                                         *)
(* Readers append events to a.eventQueue.  One goroutine, eventPushLoop,   *)
(* takes a batch out under a.mu, sends it WITHOUT the lock, and takes the  *)
(* lock again to record the outcome; readers keep appending in between.    *)
(* An event is its position in the order of appending, so "older" is "<".  *)
(* Durations are multiples of eventPushInterval.                           *)
(***************************************************************************)
EXTENDS Integers, Sequences, FiniteSets

CONSTANTS
    QueueMax,     \* eventQueueMaxSize
    BatchMax,     \* eventBatchMaxSize
    FirstBackoff, \* 10 * time.Second
    BackoffMax,   \* eventBackoffMax
    MaxEvents,    \* bound: events ever appended
    MaxConns,     \* bound: WebSocket connections ever opened
    MaxFails      \* bound: the failure count saturates here

ASSUME AgentEventsAssumption ==
    /\ QueueMax \in Nat \ {0} /\ BatchMax \in Nat \ {0}
    /\ FirstBackoff \in Nat \ {0} /\ BackoffMax \in Nat
    /\ FirstBackoff <= BackoffMax
    /\ MaxEvents \in Nat /\ MaxConns \in Nat /\ MaxFails \in Nat \ {0}

VARIABLES
    queue,     \* a.eventQueue
    backoff,   \* a.eventPushBackoff
    offline,   \* ~a.offlineSince.IsZero()
    counter,   \* a.eventQueueDropped
    pc,        \* where eventPushLoop is
    batch,     \* the batch it holds outside the lock
    final,     \* this push is the flush on shutdown
    phase,     \* of the process: running, stopping (stopCh closed), exited
    connected, \* ws.connected
    connNo,    \* the agent's current or last WebSocket connection
    reading,   \* connections the cloud still reads
    wire,      \* per connection, events written and not yet ingested
    cloud,     \* s.accessEvents of the cloud, in order of ingestion
    issued,    \* number of events appended so far
    matter,    \* how many of them the Matter callback appended
    dropped,   \* history: events the ring buffer dropped
    refused,   \* history: events answered by HTTP, with whatever status
    lost,      \* history: events gone with a connection or with the process
    fails      \* history: failed pushes since the last successful one

agentVars == <<queue, backoff, offline, counter, pc, batch, final, phase>>
netVars   == <<connected, connNo, reading, wire, cloud>>
histVars  == <<issued, matter, dropped, refused, lost, fails>>
vars      == <<agentVars, netVars, histVars>>

Conns == 1 .. MaxConns
Elems(s) == {s[i] : i \in DOMAIN s}

Init ==
    /\ queue = <<>> /\ backoff = 0 /\ offline = FALSE /\ counter = 0
    /\ pc = "idle" /\ batch = <<>> /\ final = FALSE /\ phase = "running"
    /\ connected = FALSE /\ connNo = 0 /\ reading = {}
    /\ wire = [c \in Conns |-> <<>>] /\ cloud = <<>>
    /\ issued = 0 /\ matter = 0 /\ dropped = {} /\ refused = {} /\ lost = {} /\ fails = 0

-----------------------------------------------------------------------------
(* Producers.                                                              *)

\* queueEvent: at or above the limit the oldest entries make room.
Overflow == IF Len(queue) >= QueueMax THEN Len(queue) - QueueMax + 1 ELSE 0

QueueEvent ==
    /\ phase # "exited" /\ issued < MaxEvents
    /\ issued' = issued + 1
    /\ queue' = Append(SubSeq(queue, Overflow + 1, Len(queue)), issued + 1)
    /\ counter' = counter + Overflow
    /\ dropped' = dropped \cup Elems(SubSeq(queue, 1, Overflow))
    /\ UNCHANGED <<backoff, offline, pc, batch, final, phase, netVars, matter, refused, lost, fails>>

\* The lock-state callback Start installs for a Matter relay appends directly.
MatterStateChanged ==
    /\ phase # "exited" /\ issued < MaxEvents
    /\ issued' = issued + 1 /\ matter' = matter + 1
    /\ queue' = Append(queue, issued + 1)
    /\ UNCHANGED <<backoff, offline, counter, pc, batch, final, phase, netVars,
                   dropped, refused, lost, fails>>

-----------------------------------------------------------------------------
(* The push goroutine.                                                     *)

Lesser(a, b) == IF a < b THEN a ELSE b
BatchSize == Lesser(Len(queue), BatchMax)

\* The first critical section of pushEvents; last = TRUE for the flush made
\* when stopCh is seen closed, after which the goroutine returns.
SkipEmpty(last) ==
    /\ queue = <<>>
    /\ pc' = IF last THEN "done" ELSE "idle"
    /\ UNCHANGED <<queue, backoff, batch>>

\* Mutant: the delay is not counted down.
SkipBackoff_Stuck(last) ==
    /\ queue # <<>> /\ backoff > 1
    /\ pc' = IF last THEN "done" ELSE "idle"
    /\ UNCHANGED <<queue, batch, backoff>>

SkipBackoff(last) ==
    /\ queue # <<>> /\ backoff > 1
    /\ backoff' = backoff - 1
    /\ pc' = IF last THEN "done" ELSE "idle"
    /\ UNCHANGED <<queue, batch>>

\* Mutant: the batch is copied and stays in the queue.
TakeBatch_Copies ==
    /\ queue # <<>> /\ backoff <= 1
    /\ backoff' = 0
    /\ batch' = SubSeq(queue, 1, BatchSize)
    /\ queue' = queue
    /\ pc' = "send"

TakeBatch ==
    /\ queue # <<>> /\ backoff <= 1
    /\ backoff' = 0
    /\ batch' = SubSeq(queue, 1, BatchSize)
    /\ queue' = SubSeq(queue, BatchSize + 1, Len(queue))
    /\ pc' = "send"

\* The select of eventPushLoop: with stopCh closed either case may be chosen.
PushEvents(last) ==
    /\ pc = "idle" /\ phase # "exited" /\ (last => phase = "stopping")
    /\ SkipEmpty(last) \/ SkipBackoff(last) \/ TakeBatch
    /\ final' = last
    /\ UNCHANGED <<offline, counter, phase, netVars, histVars>>

\* SendEvents returns true: the frame was handed to the connection, which is
\* all it means; if the cloud no longer reads it the frame is lost.
SendOverWebSocket ==
    /\ pc = "send" /\ phase # "exited" /\ connected
    /\ IF connNo \in reading
         THEN /\ wire' = [wire EXCEPT ![connNo] = @ \o batch]
              /\ lost' = lost
         ELSE /\ lost' = lost \cup Elems(batch)
              /\ wire' = wire
    /\ batch' = <<>>
    /\ pc' = "ok"
    /\ UNCHANGED <<queue, backoff, offline, counter, final, phase, connected, connNo,
                   reading, cloud, issued, matter, dropped, refused, fails>>

\* Not connected, or the write failed: fall through to HTTP.
FallBackToHTTP ==
    /\ pc = "send" /\ phase # "exited"
    /\ pc' = "http"
    /\ UNCHANGED <<queue, backoff, offline, counter, batch, final, phase, netVars, histVars>>

\* Some response came back.  pushEvents looks at err only, and the handler
\* refuses the body (unknown field "events") before it ingests anything.
HTTPAnswered ==
    /\ pc = "http" /\ phase # "exited"
    /\ refused' = refused \cup Elems(batch)
    /\ batch' = <<>>
    /\ pc' = "ok"
    /\ UNCHANGED <<queue, backoff, offline, counter, final, phase, netVars,
                   issued, matter, dropped, lost, fails>>

HTTPTransportError ==
    /\ pc = "http" /\ phase # "exited"
    /\ pc' = "fail"
    /\ UNCHANGED <<queue, backoff, offline, counter, batch, final, phase, netVars, histVars>>

\* The last critical section, on success and on failure.
PushSucceeded ==
    /\ pc = "ok" /\ phase # "exited"
    /\ offline' = FALSE /\ backoff' = 0 /\ counter' = 0 /\ fails' = 0
    /\ pc' = IF final THEN "done" ELSE "idle"
    /\ UNCHANGED <<queue, batch, final, phase, netVars, issued, matter, dropped, refused, lost>>

NextBackoff == IF backoff = 0 THEN FirstBackoff ELSE Lesser(2 * backoff, BackoffMax)

\* Mutant: the batch is put back behind what arrived meanwhile.
PushFailed_Appends ==
    /\ pc = "fail" /\ phase # "exited"
    /\ queue' = queue \o batch
    /\ batch' = <<>>
    /\ offline' = TRUE
    /\ backoff' = NextBackoff
    /\ fails' = Lesser(fails + 1, MaxFails)
    /\ pc' = IF final THEN "done" ELSE "idle"
    /\ UNCHANGED <<counter, final, phase, netVars, issued, matter, dropped, refused, lost>>

\* Mutant: the batch is put back only if the queue has room for it.
PushFailed_Caps ==
    /\ pc = "fail" /\ phase # "exited"
    /\ queue' = IF Len(batch \o queue) <= QueueMax THEN batch \o queue ELSE queue
    /\ batch' = <<>>
    /\ offline' = TRUE
    /\ backoff' = NextBackoff
    /\ fails' = Lesser(fails + 1, MaxFails)
    /\ pc' = IF final THEN "done" ELSE "idle"
    /\ UNCHANGED <<counter, final, phase, netVars, issued, matter, dropped, refused, lost>>

PushFailed ==
    /\ pc = "fail" /\ phase # "exited"
    /\ queue' = batch \o queue
    /\ batch' = <<>>
    /\ offline' = TRUE
    /\ backoff' = NextBackoff
    /\ fails' = Lesser(fails + 1, MaxFails)
    /\ pc' = IF final THEN "done" ELSE "idle"
    /\ UNCHANGED <<counter, final, phase, netVars, issued, matter, dropped, refused, lost>>

-----------------------------------------------------------------------------
(* The WebSocket: connectLoop on the agent, gatewayWebSocket in the cloud. *)

WSConnect ==
    /\ phase # "exited" /\ ~connected /\ connNo < MaxConns
    /\ connected' = TRUE /\ connNo' = connNo + 1
    /\ reading' = reading \cup {connNo + 1}
    /\ UNCHANGED <<agentVars, wire, cloud, histVars>>

\* readLoop returned: read error, deadline, close frame, or stopCh.
WSDisconnect ==
    /\ connected
    /\ connected' = FALSE
    /\ UNCHANGED <<agentVars, connNo, reading, wire, cloud, histVars>>

\* The cloud stops reading a connection: replaced by a newer one, session
\* expired, revoked, or the network broke.  Frames not read are gone.
SessionEnds(c) ==
    /\ c \in reading
    /\ reading' = reading \ {c}
    /\ lost' = lost \cup Elems(wire[c])
    /\ wire' = [wire EXCEPT ![c] = <<>>]
    /\ UNCHANGED <<agentVars, connected, connNo, cloud, issued, matter, dropped, refused, fails>>

\* handleGWWSEventBatch ingests one event of a frame.  Sessions of an old and
\* a new connection run in goroutines of their own.
CloudIngest(c) ==
    /\ c \in reading /\ wire[c] # <<>>
    /\ cloud' = Append(cloud, Head(wire[c]))
    /\ wire' = [wire EXCEPT ![c] = Tail(@)]
    /\ UNCHANGED <<agentVars, connected, connNo, reading, histVars>>

-----------------------------------------------------------------------------
Stop ==
    /\ phase = "running"
    /\ phase' = "stopping"
    /\ UNCHANGED <<queue, backoff, offline, counter, pc, batch, final, netVars, histVars>>

\* main returns after Stop without waiting for eventPushLoop.
Exit ==
    /\ phase = "stopping"
    /\ phase' = "exited"
    /\ lost' = lost \cup Elems(batch) \cup Elems(queue)
    /\ queue' = <<>> /\ batch' = <<>> /\ connected' = FALSE
    /\ UNCHANGED <<backoff, offline, counter, pc, final, connNo, reading, wire, cloud,
                   issued, matter, dropped, refused, fails>>

Next == \/ QueueEvent \/ MatterStateChanged
        \/ \E last \in BOOLEAN : PushEvents(last)
        \/ SendOverWebSocket \/ FallBackToHTTP \/ HTTPAnswered \/ HTTPTransportError
        \/ PushSucceeded \/ PushFailed
        \/ WSConnect \/ WSDisconnect
        \/ \E c \in Conns : SessionEnds(c) \/ CloudIngest(c)
        \/ Stop \/ Exit

Spec == Init /\ [][Next]_vars

\* The push goroutine runs its own steps; the network does not fail every
\* attempt for ever (one of the two transports accepts again and again); a
\* session the cloud still reads is read; main returns once Stop has.
Fairness ==
    /\ WF_vars(PushEvents(FALSE))
    /\ WF_vars(FallBackToHTTP) /\ WF_vars(HTTPAnswered \/ HTTPTransportError)
    /\ WF_vars(PushSucceeded) /\ WF_vars(PushFailed)
    /\ SF_vars(SendOverWebSocket \/ HTTPAnswered)
    /\ \A c \in Conns : WF_vars(CloudIngest(c))
    /\ WF_vars(Exit)

FairSpec == Spec /\ Fairness

-----------------------------------------------------------------------------
(* Properties.                                                             *)

Held == batch \o queue   \* what the agent still has to upload, oldest first
Increasing(s) == \A i, j \in DOMAIN s : i < j => s[i] < s[j]
Before(S, T) == \A x \in S, y \in T : x < y

\* Type invariant of the agent's fields, the connections and the histories.
TypeOK ==
    /\ queue \in Seq(Nat) /\ batch \in Seq(Nat) /\ cloud \in Seq(Nat)
    /\ wire \in [Conns -> Seq(Nat)] /\ reading \subseteq Conns
    /\ backoff \in 0 .. BackoffMax /\ offline \in BOOLEAN /\ counter \in Nat
    /\ pc \in {"idle", "send", "http", "ok", "fail", "done"}
    /\ final \in BOOLEAN /\ phase \in {"running", "stopping", "exited"}
    /\ connected \in BOOLEAN /\ connNo \in 0 .. MaxConns
    /\ issued \in 0 .. MaxEvents /\ matter \in 0 .. issued /\ fails \in 0 .. MaxFails
    /\ dropped \subseteq Nat /\ refused \subseteq Nat /\ lost \subseteq Nat

\* Events leave the agent in the order they happened, whatever readers do
\* while a batch is out and however often it is put back: what is still held
\* is in order and all of it is newer than anything sent or ingested, and one
\* connection carries its events in order.  So a put-back batch can neither
\* overtake nor repeat what was already sent (pushEvents, queueEvent).
UploadOrder ==
    /\ Increasing(Held)
    /\ \A c \in Conns : Increasing(wire[c]) /\ Before(Elems(wire[c]), Elems(Held))
    /\ Before(Elems(cloud), Elems(Held))

\* Every event appended is held, on a wire, ingested, dropped by the ring
\* buffer, answered over HTTP or gone with a connection or the process: the
\* push goroutine itself never mislays one between its critical sections.
EveryEventAccounted ==
    1 .. issued = Elems(Held) \cup Elems(cloud) \cup (UNION {Elems(wire[c]) : c \in Conns})
                    \cup dropped \cup refused \cup lost

\* What the agent keeps in memory, batch in flight included: the queue limit,
\* one put-back batch above it, and what the Matter callback appended.
RetainedBound == Len(Held) <= QueueMax + BatchMax + matter

\* Every event the agent holds leaves it: sent, answered, dropped or gone with
\* the process.  No sequence of failed pushes, backoffs and reconnects strands
\* the queue.
EveryEventLeaves ==
    \A n \in 1 .. MaxEvents : n \in Elems(Held) ~> n \notin Elems(Held)
=============================================================================
