----------------------------- MODULE ControlPlane -----------------------------
(***************************************************************************)
(* control_plane.py: the pool of web sockets and the broadcasts to it.     *)
(*                                                                         *)
(* All coroutines share one event loop, so an action is what runs between  *)
(* two awaits: of accept, of receive_text and of each send_json.           *)
(***************************************************************************)
EXTENDS Naturals, Sequences, SequencesExt

CONSTANTS Client, Broadcast

VARIABLES active_connections,
          endpoint,        \* where each client's websocket_telemetry_endpoint is
          linked,          \* clients whose browser is there
          cast,            \* where each broadcast_telemetry is
          left,            \* the connections it still has to send to
          reached,         \* history: clients each broadcast was sent to
          refused,         \* history: clients each broadcast gave up on
          audience         \* history: the pool when each broadcast began

history == <<reached, refused, audience>>
poolVars == <<active_connections, endpoint, linked, cast, left, history>>

Init == /\ active_connections = << >>
        /\ endpoint = [c \in Client |-> "new"] /\ linked = Client
        /\ cast = [b \in Broadcast |-> "idle"]
        /\ left = [b \in Broadcast |-> << >>]
        /\ reached = [b \in Broadcast |-> {}]
        /\ refused = [b \in Broadcast |-> {}]
        /\ audience = [b \in Broadcast |-> {}]

\* disconnect: removes the connection if it is still in the list.
Without(c) ==
  IF Contains(active_connections, c)
    THEN RemoveAt(active_connections,
                  CHOOSE i \in DOMAIN active_connections : active_connections[i] = c)
    ELSE active_connections

-----------------------------------------------------------------------------
Endpoint(c, from, to) == endpoint[c] = from /\ endpoint' = [endpoint EXCEPT ![c] = to]

\* A browser connects: the endpoint awaits accept.
Accept(c) == /\ Endpoint(c, "new", "accepting")
             /\ UNCHANGED <<active_connections, linked, cast, left, history>>

\* accept returns and the connection enters the pool, or it raises.
Connect(c) == /\ \/ Endpoint(c, "accepting", "streaming")
                    /\ active_connections' = Append(active_connections, c)
                 \/ Endpoint(c, "accepting", "closed") /\ c \notin linked
                    /\ UNCHANGED active_connections
              /\ UNCHANGED <<linked, cast, left, history>>

\* The browser goes away.
Leave(c) == /\ endpoint[c] \in {"accepting", "streaming"} /\ c \in linked
            /\ linked' = linked \ {c}
            /\ UNCHANGED <<active_connections, endpoint, cast, left, history>>

\* receive_text raises anything else, as it does on a frame that is not text:
\* the endpoint ends, and the server's link to the browser with it, with its
\* connection still in the pool.
Break(c) == /\ Endpoint(c, "streaming", "broken") /\ linked' = linked \ {c}
            /\ UNCHANGED <<active_connections, cast, left, history>>

\* receive_text raises WebSocketDisconnect.
Disconnect(c) == /\ Endpoint(c, "streaming", "closed") /\ c \notin linked
                 /\ active_connections' = Without(c)
                 /\ UNCHANGED <<linked, cast, left, history>>

-----------------------------------------------------------------------------
\* broadcast_telemetry works on a copy of the list.
Begin(b) == /\ cast[b] = "idle"
            /\ cast' = [cast EXCEPT ![b] = "sending"]
            /\ left' = [left EXCEPT ![b] = active_connections]
            /\ audience' = [audience EXCEPT ![b] = ToSet(active_connections)]
            /\ UNCHANGED <<active_connections, endpoint, linked, reached, refused>>

\* BUG: the loop runs over the list itself, and skips the connection that
\* takes the place of a removed one.
NextAfterPruneLive(s) == SubSeq(s, 3, Len(s))

NextAfterPrune(s) == Tail(s)

\* send_json returns; it may, too, if the endpoint breaks in the meantime.
Sent(b) == /\ cast[b] = "sending" /\ left[b] # << >>
           /\ reached' = [reached EXCEPT ![b] = @ \cup {Head(left[b])}]
           /\ left' = [left EXCEPT ![b] = Tail(@)]
           /\ UNCHANGED <<active_connections, endpoint, linked, cast, refused, audience>>

\* It takes more than 100 ms, or the connection is closed: the client is
\* pruned; an endpoint that waits for it to speak goes on waiting.
Pruned(b) == /\ cast[b] = "sending" /\ left[b] # << >>
             /\ active_connections' = Without(Head(left[b]))
             /\ refused' = [refused EXCEPT ![b] = @ \cup {Head(left[b])}]
             /\ left' = [left EXCEPT ![b] = NextAfterPrune(@)]
             /\ UNCHANGED <<endpoint, linked, cast, reached, audience>>

\* Any other exception, of the parser before the first send or of a send, ends
\* the broadcast where it is.
Abort(b) == /\ cast[b] = "sending" /\ left[b] # << >>
            /\ cast' = [cast EXCEPT ![b] = "failed"]
            /\ UNCHANGED <<active_connections, endpoint, linked, left, history>>

Finish(b) == /\ cast[b] = "sending" /\ left[b] = << >>
             /\ cast' = [cast EXCEPT ![b] = "done"]
             /\ UNCHANGED <<active_connections, endpoint, linked, left, history>>

Next == \/ \E c \in Client : Accept(c) \/ Connect(c) \/ Leave(c) \/ Break(c) \/ Disconnect(c)
        \/ \E b \in Broadcast : Begin(b) \/ Sent(b) \/ Pruned(b) \/ Abort(b) \/ Finish(b)

-----------------------------------------------------------------------------
TypeOK == /\ endpoint \in [Client -> {"new", "accepting", "streaming", "broken", "closed"}]
          /\ cast \in [Broadcast -> {"idle", "sending", "failed", "done"}]
          /\ linked \subseteq Client
          /\ ToSet(active_connections) \subseteq Client /\ IsInjective(active_connections)

\* The pool is the connections of the endpoints that still wait and of those
\* that broke, less the ones some broadcast gave up on: a client that goes away
\* leaves nothing behind, a broken endpoint does until a broadcast fails to
\* send to it, and no client is dropped because another one was.
PoolIsServed ==
  ToSet(active_connections) =
    {c \in Client : /\ endpoint[c] \in {"streaming", "broken"}
                    /\ \A b \in Broadcast : c \notin refused[b]}

\* A broadcast that no exception ends early reaches or gives up on each client
\* that was in the pool when it began, whoever joined, left, broke or was
\* pruned by another one in the meantime.
EveryoneServed ==
  \A b \in Broadcast : cast[b] = "done" => audience[b] \subseteq reached[b] \cup refused[b]

\* The pool holds exactly the clients that are served and those whose endpoint
\* broke, and a broadcast that ends passes over none of them.
PoolInv == TypeOK /\ PoolIsServed /\ EveryoneServed
=============================================================================
