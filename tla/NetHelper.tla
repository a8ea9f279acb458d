------------------------------ MODULE NetHelper ------------------------------
(***************************************************************************)
(* The network thread of one TCP/IP port, board/net_helper.c: it opens a   *)
(* socket in one of four roles, hands what it reads to the protocol, ends  *)
(* the connection when the peer does or when a disconnect was asked for,   *)
(* closes what it holds and begins again two seconds later.  The protocol  *)
(* on top is added by Uplink, which conjoins its part to the actions here. *)
(* net_close is only called before the thread exists, so that `shutdown'   *)
(* is FALSE for as long as the thread runs and is left out.                *)
(***************************************************************************)
EXTENDS Integers, FiniteSets

CONSTANTS Fds,      \* the descriptors of the stack, numbers from 0
          Roles     \* the roles a port may have

NoFd == -1

ASSUME FdsAssumption == Fds \subseteq Nat /\ IsFiniteSet(Fds)
ASSUME RolesAssumption ==
  Roles \subseteq {"tcp_client", "tcp_server", "udp_client", "udp_server"}

VARIABLES role,        \* tcpip_type and tcpip_cs of the port
          npc,         \* where the thread is
          sockFd,      \* net->sock_fd: a socket that listens or connects
          tcpFd,       \* net->tcp_fd: the connection, read by every sender
          disconnect,  \* net->disconnect, set by the work task
          opened       \* the descriptors the stack holds open for this port

netVars == <<role, npc, sockFd, tcpFd, disconnect, opened>>

(* "pause": the delay of two seconds; "resolve": name and socket not there *)
(* yet; "connecting": options, bind, listen or connect; "run": the select  *)
(* loop; "end": at __END, the protocol told, the descriptors not closed.   *)
NetPlaces == {"pause", "resolve", "connecting", "run", "end"}

NetTypeOK ==
  /\ role \in Roles
  /\ npc \in NetPlaces
  /\ sockFd \in Fds \cup {NoFd}
  /\ tcpFd \in Fds \cup {NoFd}
  /\ disconnect \in BOOLEAN
  /\ opened \subseteq Fds

NetInit ==
  /\ role \in Roles
  /\ npc = "pause"
  /\ sockFd = NoFd
  /\ tcpFd = NoFd
  /\ disconnect = FALSE
  /\ opened = {}

Connected == tcpFd # NoFd
Free == Fds \ opened

(* A request made of the last connection does not count for the next. *)
RequestKept == disconnect' = disconnect
RequestDropped == disconnect' = FALSE

(* The head of _net_task's loop and the first lines of the four functions. *)
Begin ==
  /\ npc = "pause"
  /\ npc' = "resolve"
  /\ RequestDropped
  /\ sockFd' = NoFd
  /\ tcpFd' = NoFd
  /\ UNCHANGED <<role, opened>>

(* socket() takes any descriptor that is free. *)
OpenSocket ==
  /\ npc = "resolve"
  /\ \E fd \in Free :
       /\ sockFd' = fd
       /\ opened' = opened \cup {fd}
  /\ npc' = "connecting"
  /\ UNCHANGED <<role, tcpFd, disconnect>>

(* A name that is not resolved, no descriptor, an option, bind, listen or  *)
(* connect that fails: all go to __END with what is open by then.          *)
AttemptFails ==
  /\ npc \in {"resolve", "connecting"}
  /\ npc' = "end"
  /\ UNCHANGED <<role, sockFd, tcpFd, disconnect, opened>>

(* "the same": the socket becomes the connection and leaves its old place. *)
HandedTwice == sockFd' = sockFd
Handed == sockFd' = NoFd

Establish ==
  /\ npc = "connecting"
  /\ role # "tcp_server"
  /\ npc' = "run"
  /\ tcpFd' = sockFd
  /\ Handed
  /\ UNCHANGED <<role, disconnect, opened>>

Listen ==
  /\ npc = "connecting"
  /\ role = "tcp_server"
  /\ npc' = "run"
  /\ UNCHANGED <<role, sockFd, tcpFd, disconnect, opened>>

(* A second peer is accepted and closed at once, so nothing changes. *)
TakePeer(fd) == IF Connected THEN UNCHANGED <<tcpFd, opened>>
                ELSE tcpFd' = fd /\ opened' = opened \cup {fd}

Accept ==
  /\ npc = "run"
  /\ role = "tcp_server"
  /\ \E fd \in Free : TakePeer(fd)
  /\ UNCHANGED <<role, npc, sockFd, disconnect>>

(* Read 0, a read error or a select error. *)
PeerGone ==
  /\ npc = "run"
  /\ npc' = "end"
  /\ UNCHANGED <<role, sockFd, tcpFd, disconnect, opened>>

(* select timed out after four seconds, and only then is disconnect read. *)
IdleEnd ==
  /\ npc = "run"
  /\ disconnect
  /\ npc' = "end"
  /\ UNCHANGED <<role, sockFd, tcpFd, disconnect, opened>>

(* __END: under the mutex both descriptors are closed and forgotten. *)
Closed == opened' = opened \ {sockFd, tcpFd}

CloseAll ==
  /\ npc = "end"
  /\ npc' = "pause"
  /\ Closed
  /\ sockFd' = NoFd
  /\ tcpFd' = NoFd
  /\ UNCHANGED <<role, disconnect>>

(* net_disconnect, called by the work task, sets the flag at once. *)
AskDisconnect ==
  /\ disconnect' = TRUE
  /\ UNCHANGED <<role, npc, sockFd, tcpFd, opened>>

-----------------------------------------------------------------------------
(* Every descriptor the stack holds open for the port is in sock_fd or in  *)
(* tcp_fd, and only once: over any number of failed attempts, refused      *)
(* second peers and reconnections none is lost (the stack has few, and one *)
(* lost with each reconnection ends them all) and none is closed twice.    *)
NoFdLost ==
  /\ opened = {sockFd, tcpFd} \ {NoFd}
  /\ sockFd = tcpFd => sockFd = NoFd
=============================================================================
