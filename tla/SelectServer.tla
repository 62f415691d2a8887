---------------------------- MODULE SelectServer ----------------------------
(***************************************************************************)
(* The server of testSelectSocket in socket/socket.c: one loop around      *)
(* select, which accepts at most one connection a round and then serves    *)
(* the descriptors that select has reported.  Clients connect, send and    *)
(* close between any two of its system calls.                              *)
(*                                                                         *)
(* A message is only counted: read takes all that has arrived.  The answer *)
(* goes to `cfd', the descriptor accepted last, and not to the sender.     *)
(***************************************************************************)
EXTENDS Integers, FiniteSets

CONSTANTS
    Conns,     \* the connections clients make, each of them once
    MaxFd,     \* the process may have descriptors up to MaxFd
    MaxSend    \* bound: how many messages a client sends

lfd == 3       \* the listening socket: the first descriptor behind stderr

ASSUME SelectAssumption ==
    /\ IsFiniteSet(Conns)
    /\ MaxFd \in Nat /\ MaxFd >= lfd + Cardinality(Conns)
    /\ MaxSend \in Nat

Fds == lfd .. MaxFd
None == 0

VARIABLES
    client,    \* "none", "queued" (connected), "open" (accepted), "closed"
    sent,      \* how many messages each client has sent
    inbox,     \* how many of them the server has not read yet
    shut,      \* has the client closed its side?
    fdOf,      \* the descriptor of each open connection, else None
    readfds, tempfds, nready, maxfd, cfd, i,   \* the variables of the server
    pc,        \* where the server is
    served     \* history: the descriptors served in this round

clientVars == <<client, sent, inbox, shut, fdOf>>
serverVars == <<readfds, tempfds, nready, maxfd, cfd, i, served>>
vars == <<clientVars, serverVars, pc>>

OpenFds == {fdOf[c] : c \in Conns} \ {None}
Readable ==
    {fdOf[c] : c \in {d \in Conns : client[d] = "open" /\ (inbox[d] > 0 \/ shut[d])}}
       \cup {f \in {lfd} : \E c \in Conns : client[c] = "queued"}
-----------------------------------------------------------------------------
(* Everything up to the loop; no connection has been accepted yet.         *)
Init ==
    /\ client = [c \in Conns |-> "none"]
    /\ sent = [c \in Conns |-> 0] /\ inbox = [c \in Conns |-> 0]
    /\ shut = [c \in Conns |-> FALSE]
    /\ fdOf = [c \in Conns |-> None]
    /\ readfds = {lfd} /\ tempfds = {} /\ nready = 0
    /\ maxfd = lfd /\ cfd = None /\ i = 0
    /\ pc = "select" /\ served = {}
-----------------------------------------------------------------------------
(* Clients.                                                                *)
Connect(c) ==
    /\ client[c] = "none"
    /\ client' = [client EXCEPT ![c] = "queued"]
    /\ UNCHANGED <<sent, inbox, shut, fdOf, serverVars, pc>>

Send(c) ==
    /\ client[c] \in {"queued", "open"} /\ ~shut[c]
    /\ sent[c] < MaxSend
    /\ sent' = [sent EXCEPT ![c] = @ + 1]
    /\ inbox' = [inbox EXCEPT ![c] = @ + 1]
    /\ UNCHANGED <<client, shut, fdOf, serverVars, pc>>

Shut(c) ==
    /\ client[c] \in {"queued", "open"} /\ ~shut[c]
    /\ shut' = [shut EXCEPT ![c] = TRUE]
    /\ UNCHANGED <<client, sent, inbox, fdOf, serverVars, pc>>
-----------------------------------------------------------------------------
(* select blocks until a descriptor of readfds is ready.  Interrupted, it  *)
(* is called again (line 309).                                             *)
Select ==
    /\ pc = "select"
    /\ readfds \cap Readable # {}
    /\ tempfds' = readfds \cap Readable
    /\ nready' = Cardinality(tempfds')
    /\ served' = {}
    /\ i' = lfd + 1
    /\ pc' = IF lfd \in tempfds' THEN "accept" ELSE "scan"
    /\ UNCHANGED <<clientVars, readfds, maxfd, cfd>>

(* Variant: leaves maxfd alone.                                            *)
AcceptLowMaxfd ==
    /\ pc = "accept"
    /\ \E c \in Conns :
          /\ client[c] = "queued"
          /\ client' = [client EXCEPT ![c] = "open"]
          /\ cfd' = CHOOSE f \in Fds \ (OpenFds \cup {lfd}) :
                       \A g \in Fds \ (OpenFds \cup {lfd}) : f <= g
          /\ fdOf' = [fdOf EXCEPT ![c] = cfd']
    /\ readfds' = readfds \cup {cfd'}
    /\ nready' = nready - 1
    /\ served' = {lfd}
    /\ pc' = IF nready = 1 THEN "select" ELSE "scan"
    /\ UNCHANGED <<sent, inbox, shut, tempfds, maxfd, i>>

(* Accept gets the least free descriptor; with no other descriptor ready   *)
(* the round is over.                                                      *)
Accept ==
    /\ pc = "accept"
    /\ \E c \in Conns :
          /\ client[c] = "queued"
          /\ client' = [client EXCEPT ![c] = "open"]
          /\ cfd' = CHOOSE f \in Fds \ (OpenFds \cup {lfd}) :
                       \A g \in Fds \ (OpenFds \cup {lfd}) : f <= g
          /\ fdOf' = [fdOf EXCEPT ![c] = cfd']
    /\ readfds' = readfds \cup {cfd'}
    /\ maxfd' = IF maxfd < cfd' THEN cfd' ELSE maxfd
    /\ nready' = nready - 1
    /\ served' = {lfd}
    /\ pc' = IF nready = 1 THEN "select" ELSE "scan"
    /\ UNCHANGED <<sent, inbox, shut, tempfds, i>>

(* Variant: counts the served descriptors wrongly.                         *)
DoneWithLast ==
    /\ nready' = nready - 1
    /\ served' = served \cup {i}
    /\ i' = i + 1
    /\ pc' = IF nready <= 2 THEN "select" ELSE "scan"

(* Descriptor i is done with: the round is over if it was the last one.    *)
DoneWith ==
    /\ nready' = nready - 1
    /\ served' = served \cup {i}
    /\ i' = i + 1
    /\ pc' = IF nready = 1 THEN "select" ELSE "scan"

Skip ==
    /\ pc = "scan"
    /\ i \notin tempfds \/ i > maxfd
    /\ i' = i + 1
    /\ pc' = IF i > maxfd THEN "select" ELSE "scan"
    /\ UNCHANGED <<clientVars, readfds, tempfds, nready, maxfd, cfd, served>>

(* read returns what has arrived; the answer goes to cfd, if that is still *)
(* open.  If its client has closed, the answer may raise SIGPIPE, which    *)
(* ends the server.                                                        *)
Serve(c) ==
    /\ pc = "scan"
    /\ i <= maxfd /\ i \in tempfds /\ fdOf[c] = i
    /\ inbox[c] > 0
    /\ inbox' = [inbox EXCEPT ![c] = 0]
    /\ \/ DoneWith
       \/ /\ \E d \in Conns : fdOf[d] = cfd /\ shut[d]
          /\ pc' = "dead"
          /\ UNCHANGED <<nready, served, i>>
    /\ UNCHANGED <<client, sent, shut, fdOf, readfds, tempfds, maxfd, cfd>>

(* Variant: leaves the descriptor in readfds.                              *)
HangUpKeep(c) ==
    /\ pc = "scan"
    /\ i <= maxfd /\ i \in tempfds /\ fdOf[c] = i
    /\ inbox[c] = 0
    /\ client' = [client EXCEPT ![c] = "closed"]
    /\ fdOf' = [fdOf EXCEPT ![c] = None]
    /\ DoneWith
    /\ UNCHANGED <<sent, inbox, shut, readfds, tempfds, maxfd, cfd>>

(* read returns 0: the client has closed and nothing is left.              *)
HangUp(c) ==
    /\ pc = "scan"
    /\ i <= maxfd /\ i \in tempfds /\ fdOf[c] = i
    /\ inbox[c] = 0
    /\ client' = [client EXCEPT ![c] = "closed"]
    /\ fdOf' = [fdOf EXCEPT ![c] = None]
    /\ readfds' = readfds \ {i}
    /\ DoneWith
    /\ UNCHANGED <<sent, inbox, shut, tempfds, maxfd, cfd>>

Server == \/ Select \/ Accept \/ Skip
          \/ \E c \in Conns : Serve(c) \/ HangUp(c)
Next == Server \/ \E c \in Conns : Connect(c) \/ Send(c) \/ Shut(c)

(* The server runs whenever it can.                                        *)
Spec == Init /\ [][Next]_vars /\ WF_vars(Server)
-----------------------------------------------------------------------------
(* Every variable keeps its type; nready, a difference of two counts, does *)
(* not become negative.                                                    *)
TypeOK ==
    /\ client \in [Conns -> {"none", "queued", "open", "closed"}]
    /\ sent \in [Conns -> Nat] /\ inbox \in [Conns -> Nat]
    /\ shut \in [Conns -> BOOLEAN]
    /\ fdOf \in [Conns -> Fds \cup {None}]
    /\ readfds \subseteq Fds /\ tempfds \subseteq Fds
    /\ nready \in Nat /\ maxfd \in Fds /\ cfd \in Fds \cup {None}
    /\ i \in Nat /\ served \subseteq Fds
    /\ pc \in {"select", "accept", "scan", "dead"}

(* select is asked about the listening socket and the open connections, no *)
(* more and no less, although descriptors are closed in the middle of a    *)
(* round and given to new connections; and maxfd bounds them all.          *)
FdSets ==
    /\ readfds = {lfd} \cup OpenFds
    /\ \A f \in readfds : f <= maxfd
    /\ \A c, d \in Conns : fdOf[c] = fdOf[d] /\ fdOf[c] # None => c = d

(* The two early exits from a round (lines 323 and 352) count down nready. *)
(* They never leave out a descriptor that select has reported.             *)
RoundComplete ==
    /\ pc = "select" => served = tempfds
    /\ pc = "scan" => nready = Cardinality(tempfds \ served) /\ nready > 0

(* Every message is read, and a client that has closed is let go, whatever *)
(* the other clients do, unless SIGPIPE ends the server.                   *)
Settled(c) ==
    /\ inbox[c] = 0
    /\ client[c] = "closed" \/ (client[c] = "open" /\ ~shut[c])
AllServed == \A c \in Conns : client[c] # "none" ~> Settled(c) \/ pc = "dead"

(* The sets, with the bounds of descriptors.                               *)
SetsOK == TypeOK /\ FdSets
=============================================================================
