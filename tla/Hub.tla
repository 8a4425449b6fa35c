-------------------------------- MODULE Hub --------------------------------
(***************************************************************************)
(* internal/websocket: the hub goroutine, and the three goroutines of each *)
(* connection that matter to it (the handler that reads, the writer that   *)
(* ranges over Send; the pinger only makes the reader fail).               *)
(*                                                                         *)
(* The hub's channels are unbuffered: a send and the hub's receive are one *)
(* step, possible only while the hub is in its select.  Hub.Mu is held by  *)
(* the hub through a whole fan-out, which is taken client by client        *)
(* because senders of notifications fill the same queues without Mu.       *)
(***************************************************************************)
EXTENDS Integers, FiniteSets, Sequences

CONSTANTS Conns,       \* WebSocket connections
          Cap,         \* buffer of Client.Send (256 in the code)
          NoMsg        \* model value: the hub is not broadcasting

ASSUME HubAssumption == Cap \in Nat \ {0}

VARIABLES
    clients,   \* Hub.Clients
    open,      \* connections whose Send channel is not closed
    queue,     \* what Client.Send buffers
    stage,     \* the reader: where WebSocketHandler is
    writer,    \* the writer goroutine: "off", "on", "failed" or "ended"
    message,   \* what the hub is broadcasting, or NoMsg
    left,      \* clients the current fan-out has still to visit
    hubDown,   \* the hub goroutine has panicked, which ends the process
    log,       \* history: every message the hub has received on Broadcast
    joined,    \* history: Len(log) when the connection registered
    got        \* history: what the writer has put on the socket

hubVars == <<clients, open, queue, stage, writer, message, left, hubDown, log,
             joined, got>>

HubInit ==
    /\ clients = {}
    /\ open = {}
    /\ queue = [k \in Conns |-> <<>>]
    /\ stage = [k \in Conns |-> "none"]
    /\ writer = [k \in Conns |-> "off"]
    /\ message = NoMsg
    /\ left = {}
    /\ hubDown = FALSE
    /\ log = <<>>
    /\ joined = [k \in Conns |-> 0]
    /\ got = [k \in Conns |-> <<>>]

\* The hub is in its select, so it can receive on one of its channels; then
\* it does not hold Mu either.
Selecting == message = NoMsg /\ ~hubDown

-----------------------------------------------------------------------------
(* WebSocketHandler. *)

\* The reader's Read fails: the browser went away, or a ping got no answer.
ReadFails(k) ==
    /\ stage[k] = "reading"
    /\ stage' = [stage EXCEPT ![k] = "unregistering"]
    /\ UNCHANGED <<clients, open, queue, writer, message, left, hubDown, log, joined, got>>

\* for message := range client.Send: a closed channel is drained first.
WriterSends(k) ==
    /\ writer[k] = "on"
    /\ queue[k] # <<>>
    /\ got' = [got EXCEPT ![k] = Append(@, Head(queue[k]))]
    /\ queue' = [queue EXCEPT ![k] = Tail(@)]
    /\ UNCHANGED <<clients, open, stage, writer, message, left, hubDown, log, joined>>

\* Write returns an error: the message is gone and nobody reads Send any more.
WriterFails(k) ==
    /\ writer[k] = "on"
    /\ queue[k] # <<>>
    /\ queue' = [queue EXCEPT ![k] = Tail(@)]
    /\ writer' = [writer EXCEPT ![k] = "failed"]
    /\ UNCHANGED <<clients, open, stage, message, left, hubDown, log, joined, got>>

WriterEnds(k) ==
    /\ writer[k] = "on"
    /\ queue[k] = <<>> /\ k \notin open
    /\ writer' = [writer EXCEPT ![k] = "ended"]
    /\ UNCHANGED <<clients, open, queue, stage, message, left, hubDown, log, joined, got>>

-----------------------------------------------------------------------------
(* Hub.Run. *)

\* close(client.Send): closing a closed channel panics, and no recover is
\* between the hub goroutine and the end of the process.
Close(k) ==
    /\ open' = open \ {k}
    /\ hubDown' = (hubDown \/ k \notin open)

\* A connection is accepted, its client built with an open, empty Send, and
\* the hub takes it from register: until then nobody else knows of it.
Register(k) ==
    /\ Selecting
    /\ stage[k] = "none"
    /\ stage' = [stage EXCEPT ![k] = "reading"]
    /\ open' = open \union {k}
    /\ clients' = clients \union {k}
    /\ writer' = [writer EXCEPT ![k] = "on"]
    /\ joined' = [joined EXCEPT ![k] = Len(log)]
    /\ UNCHANGED <<queue, message, left, hubDown, log, got>>

\* Mutant: the client is not looked up before it is closed.
MutantUnregister(k) ==
    /\ Selecting
    /\ stage[k] = "unregistering"
    /\ stage' = [stage EXCEPT ![k] = "gone"]
    /\ clients' = clients \ {k}
    /\ Close(k)
    /\ UNCHANGED <<queue, writer, message, left, log, joined, got>>

Unregister(k) ==
    /\ Selecting
    /\ stage[k] = "unregistering"
    /\ stage' = [stage EXCEPT ![k] = "gone"]
    /\ IF k \in clients
       THEN clients' = clients \ {k} /\ Close(k)
       ELSE UNCHANGED <<clients, open, hubDown>>
    /\ UNCHANGED <<queue, writer, message, left, log, joined, got>>

\* message := <-h.Broadcast, the other half of a handler's send.
Receive(m) ==
    /\ Selecting
    /\ log' = Append(log, m)
    /\ IF clients = {} THEN UNCHANGED <<message, left>>
       ELSE message' = m /\ left' = clients
    /\ UNCHANGED <<clients, open, queue, stage, writer, hubDown, joined, got>>

\* Mutant: a full client is skipped instead of closed.
MutantSlow(k) == UNCHANGED <<clients, open, hubDown>>

\* The default branch: a client whose buffer is full is closed and dropped.
Slow(k) == clients' = clients \ {k} /\ Close(k)

\* Mutant: a send without a default branch waits for room.
MutantVisit(k) ==
    /\ k \in left
    /\ Len(queue[k]) < Cap
    /\ queue' = [queue EXCEPT ![k] = Append(@, message)]
    /\ left' = left \ {k}
    /\ message' = IF left' = {} THEN NoMsg ELSE message
    /\ UNCHANGED <<clients, open, stage, writer, hubDown, log, joined, got>>

\* One turn of the fan-out.
Visit(k) ==
    /\ k \in left
    /\ ~hubDown
    /\ IF Len(queue[k]) < Cap
       THEN /\ queue' = [queue EXCEPT ![k] = Append(@, message)]
            /\ UNCHANGED <<clients, open, hubDown>>
       ELSE /\ Slow(k)
            /\ UNCHANGED queue
    /\ left' = left \ {k}
    /\ message' = IF left' = {} THEN NoMsg ELSE message
    /\ UNCHANGED <<stage, writer, log, joined, got>>

ConnStep(k) ==
    Register(k) \/ ReadFails(k) \/ WriterSends(k) \/ WriterFails(k) \/ WriterEnds(k)
HubStep(k) == Unregister(k) \/ Visit(k)
=============================================================================
