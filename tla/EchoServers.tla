---------------------------- MODULE EchoServers -----------------------------
(***************************************************************************)
(* The blocking echo servers of socket/socket.c and the client they are    *)
(* used with (testClientSocket).  The server is one of three: it serves    *)
(* one connection and ends (testServSocket), forks a child for each        *)
(* connection (processServSocket), or starts a thread for each             *)
(* (threadServSocket).  The client sends what it reads from its input and  *)
(* then waits for some answer, over and over, until its user ends it.      *)
(*                                                                         *)
(* A step is one system call.  The n-th byte a client sends is the number  *)
(* n; that the answer is in capitals is left out.  A stream may deliver    *)
(* any part of what was written to it.  fork and pthread_create may fail.  *)
(***************************************************************************)
EXTENDS Integers, Sequences, FiniteSets

CONSTANTS
    Clients,    \* the runs of testClientSocket, each of one connection
    MaxBytes    \* bound: a user types that many bytes

None == 0

ASSUME EchoAssumption ==
    /\ IsFiniteSet(Clients) /\ None \notin Clients
    /\ MaxBytes \in Nat

Kinds == {"single", "fork", "thread"}
Fds == 1 .. Cardinality(Clients)        \* descriptors, counted from lfd + 1
Workers == 1 .. Cardinality(Clients)    \* in the order in which they start

VARIABLES
    kind,        \* which of the three servers runs
    cpc,         \* clients: "start", "input", "reply", "done", "killed"
    sent,        \* how many bytes each client has sent
    toServer, toClient,   \* the bytes under way
    got,         \* history: the bytes each client has received
    queued,      \* the connections accept has not returned yet
    mpc,         \* the server: "accept", "start", "close", "serving", "gone"
    cfd,         \* its variable of that name
    table,       \* what its descriptors stand for
    wpc,         \* workers: "none", "start", "read", "write", "close", "ended"
    fd,          \* the descriptor a worker serves
    own,         \* what a child's descriptor stands for
    inherited,   \* the connections a child has open
    buf,         \* what a worker has read and not written yet
    raced,       \* history: cfd changed before a new thread had read it
    stranded     \* history: the connections no thread could be created for

clientVars == <<cpc, sent, got>>
streams == <<toServer, toClient>>
mainVars == <<kind, queued, mpc, cfd, table, raced, stranded>>
workerVars == <<wpc, fd, own, inherited, buf>>
vars == <<clientVars, streams, mainVars, workerVars>>

Entries == {table[f] : f \in Fds} \ {None}
Talking == {c \in Clients : cpc[c] \notin {"done", "killed"}}
Live(w) == wpc[w] \notin {"none", "ended"}

(* The connection a worker reads and writes, None if it has been closed; a *)
(* thread that has just started is going to serve cfd.                     *)
Conn(w) == IF kind = "fork" THEN own[w] ELSE IF fd[w] = None THEN None ELSE table[fd[w]]
Target(w) == IF wpc[w] = "start" THEN table[cfd] ELSE Conn(w)

(* Does a process of the server have c open, or in its queue?              *)
Reachable(c) ==
    \/ c \in queued
    \/ c \in Entries
    \/ \E w \in Workers : c \in inherited[w]
-----------------------------------------------------------------------------
Init ==
    /\ kind \in Kinds
    /\ cpc = [c \in Clients |-> "start"] /\ sent = [c \in Clients |-> 0]
    /\ toServer = [c \in Clients |-> <<>>] /\ toClient = [c \in Clients |-> <<>>]
    /\ got = [c \in Clients |-> <<>>]
    /\ queued = {} /\ mpc = "accept" /\ cfd = None
    /\ table = [f \in Fds |-> None]
    /\ wpc = [w \in Workers |-> "none"] /\ fd = [w \in Workers |-> None]
    /\ own = [w \in Workers |-> None] /\ inherited = [w \in Workers |-> {}]
    /\ buf = [w \in Workers |-> <<>>]
    /\ raced = FALSE /\ stranded = {}
-----------------------------------------------------------------------------
(* testClientSocket.  connect fails when nobody listens any more.          *)
Connect(c) ==
    /\ cpc[c] = "start"
    /\ \/ /\ mpc # "gone"
          /\ cpc' = [cpc EXCEPT ![c] = "input"]
          /\ queued' = queued \cup {c}
       \/ /\ mpc = "gone"
          /\ cpc' = [cpc EXCEPT ![c] = "done"]
          /\ UNCHANGED queued
    /\ UNCHANGED <<sent, got, streams, kind, mpc, cfd, table, raced, stranded, workerVars>>

(* At the end of its input the client sends nothing and waits all the      *)
(* same.  Writing to a server that has gone may end it.                    *)
Input(c) ==
    /\ cpc[c] = "input"
    /\ \/ \E n \in 0 .. MaxBytes - sent[c] :
             /\ sent' = [sent EXCEPT ![c] = @ + n]
             /\ toServer' = [toServer EXCEPT ![c] = @ \o [k \in 1 .. n |-> sent[c] + k]]
             /\ cpc' = [cpc EXCEPT ![c] = "reply"]
       \/ /\ ~Reachable(c)
          /\ cpc' = [cpc EXCEPT ![c] = "done"]
          /\ UNCHANGED <<sent, toServer>>
    /\ UNCHANGED <<got, toClient, mainVars, workerVars>>

Reply(c) ==
    /\ cpc[c] = "reply"
    /\ \/ \E k \in 1 .. Len(toClient[c]) :
             /\ got' = [got EXCEPT ![c] = @ \o SubSeq(toClient[c], 1, k)]
             /\ toClient' = [toClient EXCEPT ![c] = SubSeq(@, k + 1, Len(@))]
             /\ cpc' = [cpc EXCEPT ![c] = "input"]
       \/ /\ toClient[c] = <<>> /\ ~Reachable(c)
          /\ cpc' = [cpc EXCEPT ![c] = "done"]
          /\ UNCHANGED <<got, toClient>>
    /\ UNCHANGED <<sent, toServer, mainVars, workerVars>>

(* The user ends the client.                                               *)
Kill(c) ==
    /\ cpc[c] \in {"input", "reply"}
    /\ cpc' = [cpc EXCEPT ![c] = "killed"]
    /\ UNCHANGED <<sent, got, streams, mainVars, workerVars>>
-----------------------------------------------------------------------------
(* accept, with the least free descriptor.                                 *)
Accept(c) ==
    /\ mpc = "accept"
    /\ c \in queued
    /\ queued' = queued \ {c}
    /\ cfd' = CHOOSE f \in Fds : /\ table[f] = None
                                 /\ \A g \in Fds : table[g] = None => f <= g
    /\ table' = [table EXCEPT ![cfd'] = c]
    /\ raced' = (raced \/ \E w \in Workers : wpc[w] = "start")
    /\ mpc' = "start"
    /\ UNCHANGED <<kind, stranded, clientVars, streams, workerVars>>

(* A process that ends closes all it has open; the queue of the listening  *)
(* socket goes with it.                                                    *)
EndMain ==
    /\ mpc' = "gone"
    /\ queued' = {}
    /\ table' = [f \in Fds |-> None]

(* The process of the server is killed, with its threads.                  *)
Dies ==
    /\ wpc' = [v \in Workers |-> "ended"]
    /\ EndMain
    /\ UNCHANGED inherited

(* The server itself serves; forks, which may fail and end it; or starts a *)
(* thread, which is given the address of cfd.  Nobody looks whether there  *)
(* is a thread: without one the connection stays open, and what            *)
(* pthread_detach does with an id that is none (line 242) is not defined.  *)
Start ==
    /\ mpc = "start"
    /\ LET w == CHOOSE v \in Workers : /\ wpc[v] = "none"
                                       /\ \A u \in Workers : wpc[u] = "none" => v <= u
       IN  \/ /\ kind = "single"
              /\ wpc' = [wpc EXCEPT ![w] = "read"]
              /\ fd' = [fd EXCEPT ![w] = cfd]
              /\ mpc' = "serving"
              /\ UNCHANGED <<own, inherited, queued, table, stranded>>
           \/ /\ kind = "fork"
              /\ wpc' = [wpc EXCEPT ![w] = "read"]
              /\ own' = [own EXCEPT ![w] = table[cfd]]
              /\ inherited' = [inherited EXCEPT ![w] = Entries]
              /\ mpc' = "close"
              /\ UNCHANGED <<fd, queued, table, stranded>>
           \/ kind = "fork" /\ EndMain /\ UNCHANGED <<wpc, fd, own, inherited, stranded>>
           \/ /\ kind = "thread"
              /\ wpc' = [wpc EXCEPT ![w] = "start"]
              /\ mpc' = "accept"
              /\ UNCHANGED <<fd, own, inherited, queued, table, stranded>>
           \/ /\ kind = "thread"
              /\ stranded' = stranded \cup ({table[cfd]} \ {None})
              /\ mpc' = "accept"
              /\ UNCHANGED <<wpc, fd, own, inherited, queued, table>>
           \/ kind = "thread" /\ Dies /\ UNCHANGED <<fd, own, stranded>>
    /\ UNCHANGED <<kind, cfd, raced, clientVars, streams, buf>>

(* Variant: the parent keeps the connection open.                          *)
ParentKeep ==
    /\ mpc = "close"
    /\ mpc' = "accept"
    /\ UNCHANGED <<kind, queued, cfd, table, raced, stranded, clientVars, streams, workerVars>>

(* The parent closes cfd, and closes it again, which fails: nothing can    *)
(* have got that descriptor in between.                                    *)
ParentClose ==
    /\ mpc = "close"
    /\ table' = [table EXCEPT ![cfd] = None]
    /\ mpc' = "accept"
    /\ UNCHANGED <<kind, queued, cfd, raced, stranded, clientVars, streams, workerVars>>
-----------------------------------------------------------------------------
(* The loop of a worker: the server itself, a child or a thread.           *)
CopyArgument(w) ==
    /\ wpc[w] = "start"
    /\ fd' = [fd EXCEPT ![w] = cfd]
    /\ wpc' = [wpc EXCEPT ![w] = "read"]
    /\ UNCHANGED <<own, inherited, buf, clientVars, streams, mainVars>>

(* read fails on a closed descriptor, and on a connection the client has   *)
(* broken off.                                                             *)
Read(w) ==
    /\ wpc[w] = "read"
    /\ LET c == Conn(w)
       IN  \/ /\ c # None
              /\ \E k \in 1 .. Len(toServer[c]) :
                    /\ buf' = [buf EXCEPT ![w] = SubSeq(toServer[c], 1, k)]
                    /\ toServer' = [toServer EXCEPT ![c] = SubSeq(@, k + 1, Len(@))]
              /\ wpc' = [wpc EXCEPT ![w] = "write"]
           \/ /\ c \notin Talking
              /\ wpc' = [wpc EXCEPT ![w] = "close"]
              /\ UNCHANGED <<buf, toServer>>
    /\ UNCHANGED <<fd, own, inherited, toClient, clientVars, mainVars>>

(* Variants: may write the same again; loses what it has read.             *)
WriteAgain(w) ==
    /\ wpc[w] = "write"
    /\ LET c == Conn(w)
       IN  toClient' = IF c \notin Talking THEN toClient
                       ELSE [toClient EXCEPT ![c] = @ \o buf[w]]
    /\ \/ wpc' = [wpc EXCEPT ![w] = "read"] /\ buf' = [buf EXCEPT ![w] = <<>>]
       \/ UNCHANGED <<wpc, buf>>
    /\ UNCHANGED <<fd, own, inherited, toServer, clientVars, mainVars>>

WriteNothing(w) ==
    /\ wpc[w] = "write"
    /\ buf' = [buf EXCEPT ![w] = <<>>]
    /\ wpc' = [wpc EXCEPT ![w] = "read"]
    /\ UNCHANGED <<fd, own, inherited, streams, clientVars, mainVars>>

Write(w) ==
    /\ wpc[w] = "write"
    /\ LET c == Conn(w)
       IN  toClient' = IF c \notin Talking THEN toClient
                       ELSE [toClient EXCEPT ![c] = @ \o buf[w]]
    /\ buf' = [buf EXCEPT ![w] = <<>>]
    /\ wpc' = [wpc EXCEPT ![w] = "read"]
    /\ UNCHANGED <<fd, own, inherited, toServer, clientVars, mainVars>>

(* Writing to a client that has gone may raise SIGPIPE, which ends the     *)
(* process: a child, or the server with all its threads.                   *)
Sigpipe(w) ==
    /\ wpc[w] = "write"
    /\ Conn(w) \notin Talking \cup {None}
    /\ \/ /\ kind = "fork"
          /\ wpc' = [wpc EXCEPT ![w] = "ended"]
          /\ inherited' = [inherited EXCEPT ![w] = {}]
          /\ UNCHANGED <<queued, mpc, table>>
       \/ kind # "fork" /\ Dies
    /\ UNCHANGED <<kind, cfd, raced, stranded, fd, own, buf, clientVars, streams>>

(* Variant: stays in the loop.                                             *)
CloseAndGoOn(w) ==
    /\ wpc[w] = "close"
    /\ IF kind = "fork"
       THEN inherited' = [inherited EXCEPT ![w] = @ \ {own[w]}] /\ UNCHANGED table
       ELSE table' = [table EXCEPT ![fd[w]] = None] /\ UNCHANGED inherited
    /\ wpc' = [wpc EXCEPT ![w] = "read"]
    /\ UNCHANGED <<kind, cfd, raced, stranded, queued, mpc, fd, own, buf, clientVars, streams>>

(* A child exits; the one server returns; a thread closes its descriptor,  *)
(* whatever that stands for by now.                                        *)
Close(w) ==
    /\ wpc[w] = "close"
    /\ wpc' = [wpc EXCEPT ![w] = "ended"]
    /\ \/ kind = "single" /\ EndMain /\ UNCHANGED inherited
       \/ /\ kind = "fork"
          /\ inherited' = [inherited EXCEPT ![w] = {}]
          /\ UNCHANGED <<queued, mpc, table>>
       \/ /\ kind = "thread"
          /\ table' = [table EXCEPT ![fd[w]] = None]
          /\ UNCHANGED <<queued, mpc, inherited>>
    /\ UNCHANGED <<kind, cfd, raced, stranded, fd, own, buf, clientVars, streams>>

Client(c) == Connect(c) \/ Input(c) \/ Reply(c) \/ Kill(c)
Main == Start \/ ParentClose \/ \E c \in Clients : Accept(c)
Worker(w) == CopyArgument(w) \/ Read(w) \/ Write(w) \/ Sigpipe(w) \/ Close(w)

Next == \/ \E c \in Clients : Client(c)
        \/ Main
        \/ \E w \in Workers : Worker(w)

Spec == Init /\ [][Next]_vars

(* The server's processes and threads run, and a client takes an answer    *)
(* that has come; users need not do anything.                              *)
FairSpec == /\ Spec
            /\ WF_vars(Main) /\ \A w \in Workers : WF_vars(Worker(w))
            /\ \A c \in Clients : WF_vars(Reply(c))
-----------------------------------------------------------------------------
(* Every variable keeps its type.                                          *)
TypeOK ==
    /\ kind \in Kinds
    /\ cpc \in [Clients -> {"start", "input", "reply", "done", "killed"}]
    /\ sent \in [Clients -> 0 .. MaxBytes]
    /\ \A c \in Clients : {toServer[c], toClient[c], got[c]} \subseteq Seq(1 .. MaxBytes)
    /\ queued \subseteq Clients
    /\ mpc \in {"accept", "start", "close", "serving", "gone"}
    /\ cfd \in Fds \cup {None} /\ table \in [Fds -> Clients \cup {None}]
    /\ wpc \in [Workers -> {"none", "start", "read", "write", "close", "ended"}]
    /\ fd \in [Workers -> Fds \cup {None}] /\ own \in [Workers -> Clients \cup {None}]
    /\ inherited \in [Workers -> SUBSET Clients]
    /\ buf \in [Workers -> Seq(1 .. MaxBytes)] /\ raced \in BOOLEAN
    /\ stranded \subseteq Clients

(* As long as no thread is overtaken by the next accept (line 240), every  *)
(* accepted connection that is still open has one worker (a child may end  *)
(* before its parent closes its copy), and no two workers ever share one,  *)
(* although descriptors are closed and reused.  Only a connection for      *)
(* which pthread_create has failed has none, and gets none later.          *)
OneWorker ==
    ~raced => \A c \in Clients :
        LET serving == {w \in Workers : Live(w) /\ Target(w) = c}
        IN  IF c \in stranded \/ (mpc = "start" /\ table[cfd] = c) THEN serving = {}
            ELSE IF mpc = "close" /\ table[cfd] = c THEN Cardinality(serving) <= 1
            ELSE Reachable(c) /\ c \notin queued => Cardinality(serving) = 1

(* Then, too, no byte is lost, repeated or overtaken between a client and  *)
(* its worker: what the client has got, what is under way to it, what the  *)
(* worker holds and what it has not read yet are together what was sent.   *)
Holding(c) ==
    LET holders == {w \in Workers : Conn(w) = c /\ wpc[w] = "write"}
    IN  IF holders = {} THEN <<>> ELSE buf[CHOOSE w \in holders : TRUE]
EchoInOrder ==
    \A c \in Clients :
        ~raced /\ cpc[c] \in {"input", "reply"} /\ Reachable(c)
            => got[c] \o toClient[c] \o Holding(c) \o toServer[c]
                   = [k \in 1 .. sent[c] |-> k]

(* A forking server does not collect descriptors: between two calls of     *)
(* accept the parent has none but the listening socket, and a child has    *)
(* its own connection and not those of its siblings.                       *)
NoStrayCopies ==
    kind = "fork" =>
        /\ mpc \in {"accept", "gone"} => Entries = {}
        /\ \A w \in Workers : Live(w) => inherited[w] = {own[w]}

(* A client that waits for bytes it has sent gets some, unless its user    *)
(* ends it.  The exceptions are those the servers have: the second client  *)
(* of a server that serves one; threads that have mixed up descriptors or  *)
(* could not be created; and the death of a server, by SIGPIPE (line 206)  *)
(* or undefined behaviour with all its threads, by a failing fork with     *)
(* the clients that have no child yet.  What happens to its parent and to  *)
(* other clients does not keep a child from answering.                     *)
Abandoned(c) ==
    \/ raced \/ c \in stranded
    \/ kind = "single" /\ c \in queued
    \/ mpc = "gone" /\ (kind = "fork" => \A w \in Workers : own[w] # c)
AnswerComes == \A c \in Clients :
    cpc[c] = "reply" /\ Len(got[c]) < sent[c]
        ~> cpc[c] \in {"input", "killed"} \/ Abandoned(c)

(* Workers and connections, with the bounds of descriptors and buffers.    *)
WorkersOK == TypeOK /\ OneWorker
=============================================================================
