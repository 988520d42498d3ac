----------------------------- MODULE AgentConn -----------------------------
(***************************************************************************)
(* The websocket server of the controller (AgentConn.cpp): the open        *)
(* connections and the one connection every message is sent to.            *)
(*                                                                         *)
(* All handlers run on the single thread inside websocket_server_.run(),   *)
(* so an open, a close and a message are never handled at the same time.   *)
(* The bounds of the environment are the two constants: which clients      *)
(* exist, and how many of them hold a connection at once.                  *)
(***************************************************************************)
EXTENDS FiniteSets, Naturals

CONSTANTS
  Clients,    \* the agents that may open a connection
  NoClient,   \* the empty connection_hdl most_recent_websocket_cxn_ starts as
  MaxOpen     \* bound: connections that are open at the same time

ASSUME ClientsAssumption ==
  /\ NoClient \notin Clients
  /\ MaxOpen \in Nat \ {0}

VARIABLES
  connections,   \* m_connections_
  recent,        \* most_recent_websocket_cxn_
  opening        \* the client whose open handler holds m_connection_lock_ between
                 \* its two stores, or NoClient

connVars == <<connections, recent, opening>>

ConnTypeOK ==
  /\ connections \subseteq Clients
  /\ recent \in Clients \union {NoClient}
  /\ opening \in Clients \union {NoClient}

ConnInit ==
  /\ connections = {}
  /\ recent = NoClient
  /\ opening = NoClient

\* m_connection_lock_.  The close handler has one store, so its hold of the lock
\* is over before anybody can see it.
LockFree == opening = NoClient

\* The two size tests: under the lock in client_is_connected, without it in
\* sendJson_.
ClientIsConnected == connections # {}

NoClientsForMessage == connections = {}

\* websocketSend: a handle whose connection has gone makes send() throw, and
\* the message is dropped.
Reachable == recent \in connections

\* Variant: the old target is stored where the new handle should be.
OnWebsocketOpen_InsertsRecent(c) ==
  /\ LockFree
  /\ c \notin connections
  /\ Cardinality(connections) < MaxOpen
  /\ connections' = connections \union {recent}
  /\ opening' = c
  /\ UNCHANGED recent

\* The first store of the open handler: the connection is in the set, messages
\* still go to the one before it.
OnWebsocketOpen(c) ==
  /\ LockFree
  /\ c \notin connections
  /\ Cardinality(connections) < MaxOpen
  /\ connections' = connections \union {c}
  /\ opening' = c
  /\ UNCHANGED recent

\* The second store, and the end of the guard.
StoreMostRecent ==
  /\ ~ LockFree
  /\ recent' = opening
  /\ opening' = NoClient
  /\ UNCHANGED connections

OnWebsocketClose(c) ==
  /\ LockFree
  /\ c \in connections
  /\ connections' = connections \ {c}
  /\ UNCHANGED <<recent, opening>>
=============================================================================
