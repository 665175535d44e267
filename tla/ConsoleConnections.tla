--------------------------- MODULE ConsoleConnections ---------------------------
(***************************************************************************)
(* The WebSocket connections between the browsers that show the console   *)
(* and the WebSocketConsoleServer: one per browser, with a queue in each   *)
(* direction.  A connection may be lost at any time.  The server then      *)
(* keeps it in its list, no longer open, until its selector removes it;    *)
(* sending to such a connection throws WebsocketNotConnectedException.     *)
(***************************************************************************)
EXTENDS Naturals, Sequences

CONSTANTS
  Browsers,
  MAX_CUTS,    \* bound on the connections that are lost
  MAX_UNREAD   \* bound on the messages under way to a browser when a broadcast is sent

ASSUME MaxCutsAssumption == MAX_CUTS \in Nat
ASSUME MaxUnreadAssumption == MAX_UNREAD \in Nat \ {0}

VARIABLES
  link,       \* browsers whose connection is open at the server
  lingering,  \* browsers of which the server still lists a connection that is not open
  toServer,   \* requests under way, or received and not looked at
  toClient,   \* messages under way to each browser
  cuts

connectionVars == <<link, lingering, toServer, toClient, cuts>>

\* Some browsers are connected, nothing is under way.
ConnectionsInit(connected, lost) ==
  /\ link = connected
  /\ lingering = {}
  /\ toServer = [b \in Browsers |-> <<>>]
  /\ toClient = [b \in Browsers |-> <<>>]
  /\ cuts = lost

\* What is under way on b's connection is lost with it.
Lose(b) ==
  /\ link' = link \ {b}
  /\ toServer' = [toServer EXCEPT ![b] = <<>>]
  /\ toClient' = [toClient EXCEPT ![b] = <<>>]

\* A broken network.
Cut(b) ==
  /\ b \in link
  /\ cuts < MAX_CUTS
  /\ cuts' = cuts + 1
  /\ Lose(b)
  /\ lingering' = lingering \cup {b}

\* The selector thread of the server removes a connection that is not open.
Remove(b) ==
  /\ b \in lingering
  /\ lingering' = lingering \ {b}
  /\ UNCHANGED <<link, toServer, toClient, cuts>>

\* updateClientState: every listed connection is sent the message, in the
\* order of a list; the first that is not open throws into the calling thread
\* and the rest gets nothing.
BroadcastTo(targets, message) ==
  /\ \A b \in link : Len(toClient[b]) < MAX_UNREAD
  /\ toClient' = [b \in Browsers |-> IF b \in targets THEN Append(toClient[b], message)
                                                      ELSE toClient[b]]
Broadcast(message) == lingering = {} /\ BroadcastTo(link, message)
BroadcastThrows(message) ==
  lingering # {} /\ \E served \in SUBSET link : BroadcastTo(served, message)

\* A single reply; to a connection that is gone, it is lost (onMessage
\* catches the exception).
Reply(b, message) ==
  toClient' = IF b \in link THEN [toClient EXCEPT ![b] = Append(@, message)] ELSE toClient
===============================================================================
