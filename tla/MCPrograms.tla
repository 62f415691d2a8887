----------------------------- MODULE MCPrograms -----------------------------
(***************************************************************************)
(* main.c calls demos of which all but one are commented out.  Here the    *)
(* one that runs is chosen at the start; the others stay as they are, in a *)
(* state in which none of their fair actions is enabled.  testSigchld,     *)
(* module ChildReaper, is extended, the others are instances.              *)
(***************************************************************************)
EXTENDS ChildReaper, Sequences

CONSTANTS
    MaxNum,                      \* bound of PingPong
    Producers, Consumers, Start, \* of SemList
    Writers, Readers, Rounds,    \* of Counters for testRwlock
    Adders, Additions,           \* its writers and their rounds for testCreateThread6
    UdpClients,                  \* the clients of UdpEcho and of BevEcho
    MaxInput, MaxRepeat,         \* bounds of UdpEcho
    MaxText, LineSizes,          \* of Streams
    Codes, MaxName, BufferSizes  \* of UrlCode

ASSUME ProgramsAssumption ==
    /\ IsFiniteSet(Producers) /\ IsFiniteSet(Consumers) /\ Producers \cap Consumers = {}
    /\ Start \in Nat
    /\ IsFiniteSet(Writers) /\ Writers \cap Readers = {} /\ IsFiniteSet(Adders)
    /\ Rounds \in Nat /\ Additions \in Nat
    /\ MaxText \in Nat /\ LineSizes \subseteq Nat \ {0, 1}
    /\ Codes \subseteq 1 .. 127 /\ MaxName \in Nat /\ BufferSizes \subseteq Nat \ {0}

VARIABLES
    program,
    pong_pc, num, flag, sent,                        \* testSigchld2
    sem_producer, sem_consumer, length, sem_pc, sem_undefined,
    number, holders, count_pc, cur, round, total,    \* testRwlock and others
    toServer, toClient, server, udp_pc, typed, shown, repeated, lost,
    bev_server, conn, client, written, arrived, echoed, flushed, come, printed,
    merged, bev_undefined,                           \* hello-world.c
    sender, reader, size, text, ptr, closed, taken, read_pc, buf, results, interrupted,
    url_pc, name, tosize, from, url_buf, to,
    file, opt, handles, opened, log_undefined

Pong == INSTANCE PingPong WITH pc <- pong_pc, pending <- sent
Sem == INSTANCE SemList WITH pc <- sem_pc, undefined <- sem_undefined
Count == INSTANCE Counters WITH pc <- count_pc
Sum == INSTANCE Counters WITH
    Writers <- Adders, Readers <- {}, Rounds <- Additions, pc <- count_pc
Udp == INSTANCE UdpEcho WITH Clients <- UdpClients, pc <- udp_pc
Bev == INSTANCE BevEcho WITH
    Clients <- UdpClients, Size <- 2, MaxSend <- 3,
    server <- bev_server, typed <- written, shown <- printed, undefined <- bev_undefined
Wrap == INSTANCE Streams WITH Sizes <- LineSizes, pc <- read_pc
Url == INSTANCE UrlCode WITH
    Sizes <- BufferSizes, pc <- url_pc, buf <- url_buf
Log == INSTANCE LogFile WITH undefined <- log_undefined

pongVars == <<pong_pc, num, flag, sent>>
semVars == <<sem_producer, sem_consumer, length, sem_pc, sem_undefined>>
countVars == <<number, holders, count_pc, cur, round, total>>
udpVars == <<toServer, toClient, server, udp_pc, typed, shown, repeated, lost>>
bevVars == <<bev_server, conn, client, written, arrived, echoed, flushed, come, printed,
             merged, bev_undefined>>
wrapVars == <<sender, reader, size, text, ptr, closed, taken, read_pc, buf, results, interrupted>>
urlVars == <<url_pc, name, tosize, from, url_buf, to>>
logVars == <<file, opt, handles, opened, log_undefined>>
ProgramsVars ==
    <<program, vars, pongVars, semVars, countVars, udpVars, bevVars, wrapVars, urlVars, logVars>>
-----------------------------------------------------------------------------
Programs == {"sigchld", "pong", "sem", "count", "sum", "udp", "bev", "wrap", "url", "log"}

(* Those that do not run have ended, or wait for something that does not   *)
(* come.                                                                   *)
ProgramsInit ==
    /\ program \in Programs
    /\ IF program = "sigchld" THEN Init
       ELSE /\ child = [c \in Children |-> "none"] /\ i = 0
            /\ pending = FALSE /\ blocked = TRUE /\ installed = FALSE
            /\ pc = "gone" /\ handler = "out"
    /\ IF program = "pong" THEN Pong!Init
       ELSE /\ pong_pc = [p \in Pong!Players |-> IF p = "parent" THEN "dead" ELSE "test"]
            /\ num = [p \in Pong!Players |-> IF p = "parent" THEN 0 ELSE 1]
            /\ flag = [p \in Pong!Players |-> 1] /\ sent = {}
    /\ IF program = "bev" THEN Bev!Init
       ELSE /\ bev_server = "gone" /\ bev_undefined = {} /\ merged = [c \in UdpClients |-> FALSE]
            /\ conn = [c \in UdpClients |-> "none"] /\ client = [c \in UdpClients |-> "gone"]
            /\ written = [c \in UdpClients |-> 0] /\ arrived = written /\ echoed = written
            /\ flushed = written /\ come = written /\ printed = written
    /\ Sem!Init /\ Udp!Init /\ Url!Init /\ Log!Init
    /\ IF program = "sum" THEN Sum!Init ELSE Count!Init
    /\ Wrap!Init
    /\ program # "wrap" => text = <<>> /\ sender = "Write" /\ reader = "Read"
                          /\ size = CHOOSE n \in LineSizes : TRUE

OthersStay ==
    /\ UNCHANGED program
    /\ IF program = "sigchld" THEN TRUE ELSE UNCHANGED vars
    /\ IF program = "pong" THEN TRUE ELSE UNCHANGED pongVars
    /\ IF program = "sem" THEN TRUE ELSE UNCHANGED semVars
    /\ IF program \in {"count", "sum"} THEN TRUE ELSE UNCHANGED countVars
    /\ IF program = "udp" THEN TRUE ELSE UNCHANGED udpVars
    /\ IF program = "bev" THEN TRUE ELSE UNCHANGED bevVars
    /\ IF program = "wrap" THEN TRUE ELSE UNCHANGED wrapVars
    /\ IF program = "url" THEN TRUE ELSE UNCHANGED urlVars
    /\ IF program = "log" THEN TRUE ELSE UNCHANGED logVars

ProgramsNext ==
    \/ program = "sigchld" /\ Next /\ OthersStay
    \/ program = "pong" /\ Pong!Next /\ OthersStay
    \/ program = "sem" /\ Sem!Next /\ OthersStay
    \/ program = "count" /\ Count!Next /\ OthersStay
    \/ program = "sum" /\ Sum!Next /\ OthersStay
    \/ program = "udp" /\ Udp!Next /\ OthersStay
    \/ program = "bev" /\ Bev!Next /\ OthersStay
    \/ program = "wrap" /\ Wrap!Next /\ OthersStay
    \/ program = "url" /\ Url!Next /\ OthersStay
    \/ program = "log" /\ Log!Next /\ OthersStay

ProgramsSpec ==
    /\ ProgramsInit /\ [][ProgramsNext]_ProgramsVars
    /\ Fairness /\ Pong!Fairness /\ Udp!Fairness /\ Bev!Fairness
-----------------------------------------------------------------------------
(* The properties of the programs; their modules explain them.  First,     *)
(* testSigchld2 prints the numbers in order.                               *)
InTurn == Pong!InTurn

(* testSigchld2 prints all of them unless a flag is overwritten.           *)
GoesOn == Pong!GoesOn

(* The semaphores of lock.c leave no consumer waiting beside a node.       *)
NodesBacked == Sem!NodesBacked

(* No count made under a lock is lost.                                     *)
CountRight == IF program = "sum" THEN Sum!CountRight ELSE Count!CountRight

(* A UDP client shows what it has typed itself.                            *)
OwnAnswers == Udp!OwnAnswers

(* A UDP client is answered, unless the network loses a datagram.          *)
Answered == Udp!Answered

(* The bufferevent server answers all that a client types, or all but the  *)
(* tail of an input that came in larger than its callback's buffer; unless *)
(* one of the two ends.                                                    *)
Echoed == Bev!Echoed

(* A text arrives unchanged whatever pieces it is transferred in.          *)
PiecesRight == Wrap!PiecesRight

(* A URL is decoded to what it stands for, and back.                       *)
CodingRight == Url!CodingRight

(* The log opens each file once and closes what it has opened.             *)
FilesRight == Log!FilesRight
=============================================================================
