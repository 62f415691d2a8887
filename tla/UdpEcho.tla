------------------------------- MODULE UdpEcho ------------------------------
(***************************************************************************)
(* testUdpServer and testUdpClient of udp/udp.c over a network that may    *)
(* lose, repeat and reorder datagrams.  The server answers each datagram   *)
(* to the address recvfrom has stored in client.  A client sends what its  *)
(* user types and then waits for some datagram, without a time-out, before *)
(* it reads on.                                                            *)
(*                                                                         *)
(* The content of a datagram is who has typed it and the how manieth of    *)
(* that user's inputs it is; capitals are left out.                        *)
(***************************************************************************)
EXTENDS Integers

CONSTANTS
    Clients,
    MaxInput,   \* bound: the inputs of a user
    MaxRepeat   \* bound: how often the network repeats a datagram

VARIABLES
    toServer,   \* datagrams under way: [from, n]
    toClient,   \* answers under way: [to, from, n]
    server,     \* {} or the answer the server is about to send
    pc, typed,  \* each client: "input" or "reply", how many inputs it has sent
    shown,      \* the content each client has shown last
    repeated,   \* how often the network has repeated a datagram
    lost        \* history: has it lost one?

clientVars == <<pc, typed, shown>>
network == <<toServer, toClient, repeated, lost>>
vars == <<clientVars, network, server>>

Contents == [from : Clients, n : 1 .. MaxInput]
-----------------------------------------------------------------------------
Init ==
    /\ toServer = {} /\ toClient = {} /\ server = {}
    /\ pc = [c \in Clients |-> "input"] /\ typed = [c \in Clients |-> 0]
    /\ shown = [c \in Clients |-> [from |-> c, n |-> 0]]
    /\ repeated = 0 /\ lost = FALSE

(* The network hands over m, of which it may keep a copy.                  *)
Deliver(net, m, netp) ==
    \/ netp = net \ {m} /\ UNCHANGED repeated
    \/ repeated < MaxRepeat /\ netp = net /\ repeated' = repeated + 1

Lose(m) ==
    /\ m \in toServer \cup toClient
    /\ toServer' = toServer \ {m} /\ toClient' = toClient \ {m}
    /\ lost' = TRUE
    /\ UNCHANGED <<clientVars, server, repeated>>
-----------------------------------------------------------------------------
(* The server.  Variant: client may keep the address of another sender.    *)
RecvFromStale ==
    /\ server = {}
    /\ \E m \in toServer, to \in Clients :
          /\ server' = {[to |-> to, from |-> m.from, n |-> m.n]}
          /\ Deliver(toServer, m, toServer')
    /\ UNCHANGED <<clientVars, toClient, lost>>

RecvFrom ==
    /\ server = {}
    /\ \E m \in toServer :
          /\ server' = {[to |-> m.from, from |-> m.from, n |-> m.n]}
          /\ Deliver(toServer, m, toServer')
    /\ UNCHANGED <<clientVars, toClient, lost>>

(* Variant: sendto fails, for want of len = sizeof(client).                *)
SendToNobody ==
    /\ server # {}
    /\ server' = {}
    /\ UNCHANGED <<clientVars, network>>

SendTo ==
    /\ server # {}
    /\ toClient' = toClient \cup server
    /\ server' = {}
    /\ UNCHANGED <<clientVars, toServer, repeated, lost>>
-----------------------------------------------------------------------------
(* A client.                                                               *)
Input(c) ==
    /\ pc[c] = "input" /\ typed[c] < MaxInput
    /\ typed' = [typed EXCEPT ![c] = @ + 1]
    /\ toServer' = toServer \cup {[from |-> c, n |-> typed[c] + 1]}
    /\ pc' = [pc EXCEPT ![c] = "reply"]
    /\ UNCHANGED <<toClient, repeated, lost, server, shown>>

Reply(c) ==
    /\ pc[c] = "reply"
    /\ \E m \in toClient :
          /\ m.to = c
          /\ shown' = [shown EXCEPT ![c] = [from |-> m.from, n |-> m.n]]
          /\ Deliver(toClient, m, toClient')
    /\ pc' = [pc EXCEPT ![c] = "input"]
    /\ UNCHANGED <<toServer, lost, server, typed>>

Server == RecvFrom \/ SendTo
Next == \/ Server
        \/ \E c \in Clients : Input(c) \/ Reply(c)
        \/ \E m \in toServer \cup toClient : Lose(m)
Spec == Init /\ [][Next]_vars

(* The server runs, and a client takes an answer that has come.            *)
Fairness == WF_vars(Server) /\ \A c \in Clients : WF_vars(Reply(c))
-----------------------------------------------------------------------------
(* A client never sees another one's text, nor an answer to what it has    *)
(* not sent yet; and what it shows is the answer to its last input, unless *)
(* the network has repeated a datagram: from then on it may lag behind.    *)
OwnAnswers == \A c \in Clients :
    /\ shown[c].from = c /\ shown[c].n <= typed[c]
    /\ pc[c] = "input" /\ repeated = 0 => shown[c].n = typed[c]

(* A client is answered if the network loses nothing; when it does, the    *)
(* client waits for ever, as nobody sends again.                           *)
Answered == \A c \in Clients : pc[c] = "reply" ~> pc[c] = "input" \/ lost
=============================================================================
