------------------------- MODULE EchoServersProofs --------------------------
(***************************************************************************)
(* What is proved of EchoServers, for any number of clients: workers and   *)
(* connections belong together one to one, children keep no copies, and    *)
(* the bytes stay in order.                                                *)
(***************************************************************************)
EXTENDS EchoServers, FiniteSetTheorems, SequenceTheorems, WellFoundedInduction,
        TLAPS

(* The connections accept has returned, and the workers ever started.      *)
Accepted == {c \in Clients : cpc[c] # "start" /\ c \notin queued}
Started == {w \in Workers : wpc[w] # "none"}

StreamTypes ==
    /\ toServer \in [Clients -> Seq(1 .. MaxBytes)]
    /\ toClient \in [Clients -> Seq(1 .. MaxBytes)]
    /\ got \in [Clients -> Seq(1 .. MaxBytes)]

(* A connection has one descriptor in the server, once it is accepted.     *)
TableInv ==
    /\ \A c \in queued : cpc[c] # "start"
    /\ Entries \subseteq Accepted /\ stranded \subseteq Accepted
    /\ \A f, g \in Fds : table[f] = table[g] /\ table[f] # None => f = g
    /\ mpc \in {"start", "close"} => cfd \in Fds

(* At most one worker has been started for each accepted connection, and   *)
(* none for the last one while the server is about to.                     *)
CountInv ==
    mpc # "gone" =>
        Cardinality(Started) + (IF mpc = "start" THEN 1 ELSE 0) <= Cardinality(Accepted)

BaseInv == TypeOK /\ StreamTypes /\ TableInv /\ CountInv

(* The forking server: the parent has the last connection open until it    *)
(* closes it, each child has its own, and no two the same.                 *)
ForkInv ==
    kind = "fork" =>
        /\ mpc # "serving" /\ stranded = {}
        /\ mpc \in {"accept", "gone"} => \A f \in Fds : table[f] = None
        /\ mpc \in {"start", "close"} => /\ table[cfd] # None
                                         /\ \A f \in Fds \ {cfd} : table[f] = None
        /\ \A w \in Workers :
              /\ wpc[w] # "start"
              /\ wpc[w] = "none" <=> own[w] = None
              /\ own[w] # None => own[w] \in Accepted
              /\ inherited[w] = IF Live(w) THEN {own[w]} ELSE {}
              /\ mpc = "start" => own[w] # table[cfd]
        /\ \A v, w \in Workers : own[v] = own[w] /\ own[v] # None => v = w

(* The descriptor a worker serves or, as a new thread, is going to serve.  *)
FdOf(w) == IF wpc[w] = "start" THEN cfd ELSE fd[w]

(* What a descriptor stands for that needs no worker.                      *)
Unserved == stranded \cup {None}

(* The other two servers: as long as no thread has been overtaken, each    *)
(* open descriptor has a worker of its own, except the stranded ones.      *)
ThreadInv ==
    kind # "fork" =>
        /\ mpc # "close"
        /\ \A w \in Workers : own[w] = None /\ inherited[w] = {}
        /\ mpc = "gone" => \A w \in Workers : ~Live(w)
        /\ mpc = "gone" => \A f \in Fds : table[f] = None
        /\ kind = "single" =>
              /\ stranded = {}
              /\ \A w \in Workers : wpc[w] # "start" /\ (Live(w) => mpc = "serving")
              /\ \A v, w \in Workers : Live(v) /\ Live(w) => v = w
        /\ kind = "thread" => mpc # "serving"
        /\ ~raced =>
              /\ mpc = "start" => /\ table[cfd] \notin Unserved
                                  /\ \A w \in Workers : wpc[w] # "start"
              /\ \A w \in Workers : Live(w) => /\ FdOf(w) \in Fds
                                               /\ table[FdOf(w)] \notin Unserved
                                               /\ mpc = "start" => FdOf(w) # cfd
              /\ \A v, w \in Workers : Live(v) /\ Live(w) /\ FdOf(v) = FdOf(w) => v = w
              /\ \A f \in Fds : table[f] \notin Unserved =>
                    (mpc = "start" /\ f = cfd) \/ \E w \in Workers : Live(w) /\ FdOf(w) = f

(* The two halves of what the last invariant needs: what a client that has *)
(* not connected is like, and where the bytes of the others are.           *)
FreshInv ==
    \A c \in Clients : cpc[c] = "start" => /\ sent[c] = 0
                                           /\ toServer[c] = <<>> /\ toClient[c] = <<>>
                                           /\ got[c] = <<>>

EchoInv == BaseInv /\ ForkInv /\ ThreadInv
-----------------------------------------------------------------------------
LEMMA LeastNumber ==
    ASSUME NEW T \in SUBSET Nat, T # {}
    PROVE  \E m \in T : \A n \in T : m <= n
<1> DEFINE R == OpToRel(<, Nat)
<1>1. IsWellFoundedOn(R, Nat)
  BY NatLessThanWellFounded, Zenon
<1>2. \A a, b \in Nat : a < b => <<a, b>> \in R
  BY DEF OpToRel
<1> HIDE DEF R
<1>3. PICK m \in T : \A n \in T : ~ (<<n, m>> \in R)
  BY <1>1, WFMin
<1>4. ASSUME NEW n \in T PROVE m <= n
  <2>1. ~ (n < m) /\ m \in Nat /\ n \in Nat
    BY <1>2, <1>3, Zenon
  <2> QED
    BY <2>1, SMT
<1> QED
  BY <1>4

(* There are as many descriptors and workers as clients.                   *)
LEMMA Sizes ==
    /\ Cardinality(Clients) \in Nat
    /\ IsFiniteSet(Fds) /\ Cardinality(Fds) = Cardinality(Clients)
    /\ Fds \subseteq Nat /\ None \notin Fds
    /\ IsFiniteSet(Workers) /\ Cardinality(Workers) = Cardinality(Clients)
    /\ Workers \subseteq Nat
<1>1. Cardinality(Clients) \in Nat
  BY EchoAssumption, FS_CardinalityType
<1> DEFINE n == Cardinality(Clients)
<1>2. IsFiniteSet(1 .. n) /\ Cardinality(1 .. n) = n
  <2>1. /\ IsFiniteSet(1 .. n)
        /\ Cardinality(1 .. n) = IF 1 > n THEN 0 ELSE n - 1 + 1
    BY <1>1, FS_Interval
  <2> HIDE DEF n
  <2> QED
    BY <1>1, <2>1, SMT DEF n
<1> QED
  BY <1>1, <1>2, SMT DEF Fds, Workers, None

LEMMA CountTypes ==
    /\ IsFiniteSet(Started) /\ Cardinality(Started) \in Nat
    /\ IsFiniteSet(Started') /\ Cardinality(Started') \in Nat
    /\ IsFiniteSet(Accepted) /\ Cardinality(Accepted) \in Nat
    /\ IsFiniteSet(Accepted') /\ Cardinality(Accepted') \in Nat
    /\ Cardinality(Accepted) <= Cardinality(Clients)
<1>1. /\ Started \in SUBSET Workers /\ Started' \in SUBSET Workers
      /\ Accepted \in SUBSET Clients /\ Accepted' \in SUBSET Clients
  BY DEF Started, Accepted
<1> QED
  BY <1>1, Sizes, EchoAssumption, FS_Subset, FS_CardinalityType

(* A connection that waits leaves a descriptor for it, the least of which  *)
(* accept takes.                                                           *)
LEMMA FreeFd ==
    ASSUME BaseInv, NEW c \in Clients, c \in queued
    PROVE  \E f \in Fds : table[f] = None /\ \A g \in Fds : table[g] = None => f <= g
<1> DEFINE T == {f \in Fds : table[f] = None}
<1>1. T # {}
  <2> SUFFICES ASSUME \A f \in Fds : table[f] # None PROVE FALSE
    OBVIOUS
  <2>1. table \in [Fds -> Clients]
    BY DEF BaseInv, TypeOK
  <2>2. table \in Injection(Fds, Clients)
    <3>1. \A f, g \in Fds : table[f] = table[g] => f = g
      BY DEF BaseInv, TableInv
    <3> QED
      BY <2>1, <3>1 DEF Injection, IsInjective
  <2>3. table \in Surjection(Fds, Clients)
    BY <2>2, Sizes, EchoAssumption, FS_Injection
  <2>4. c \in Entries
    BY <2>3, EchoAssumption DEF Surjection, Entries
  <2> QED
    BY <2>4 DEF BaseInv, TableInv, Accepted
<1>2. T \in SUBSET Nat
  BY Sizes
<1>3. PICK f \in T : \A g \in T : f <= g
  <2> HIDE DEF T
  <2> QED
    BY <1>1, <1>2, LeastNumber
<1> QED
  BY <1>3

(* accept returns a connection in a descriptor that was free.              *)
LEMMA AcceptGives ==
    ASSUME BaseInv, NEW c \in Clients, Accept(c)
    PROVE  cfd' \in Fds /\ table[cfd'] = None
BY FreeFd DEF Accept

(* And a server that is about to start a worker has one left.              *)
LEMMA FreeWorker ==
    ASSUME BaseInv, mpc = "start"
    PROVE  \E v \in Workers : /\ wpc[v] = "none"
                              /\ \A u \in Workers : wpc[u] = "none" => v <= u
<1> DEFINE T == {v \in Workers : wpc[v] = "none"}
<1>1. T # {}
  <2> SUFFICES ASSUME Started = Workers PROVE FALSE
    BY DEF Started
  <2>1. Cardinality(Started) + 1 <= Cardinality(Accepted)
    BY DEF BaseInv, CountInv
  <2> QED
    BY <2>1, Sizes, CountTypes, SMT
<1>2. T \in SUBSET Nat
  BY Sizes
<1>3. PICK v \in T : \A u \in T : v <= u
  <2> HIDE DEF T
  <2> QED
    BY <1>1, <1>2, LeastNumber
<1> QED
  BY <1>3
-----------------------------------------------------------------------------
LEMMA BaseInvInit == Init => BaseInv
<1> SUFFICES ASSUME Init PROVE BaseInv
  OBVIOUS
<1>1. <<>> \in Seq(1 .. MaxBytes) /\ Entries = {} /\ Started = {} /\ Accepted = {}
  BY EmptySeq DEF Init, Entries, Started, Accepted
<1>2. StreamTypes
  BY <1>1 DEF Init, StreamTypes
<1>3. TypeOK
  <2>1. \A c \in Clients : {toServer[c], toClient[c], got[c]} \subseteq Seq(1 .. MaxBytes)
    BY <1>2 DEF StreamTypes
  <2>2. /\ cpc \in [Clients -> {"start", "input", "reply", "done", "killed"}]
        /\ sent \in [Clients -> 0 .. MaxBytes]
        /\ wpc \in [Workers -> {"none", "start", "read", "write", "close", "ended"}]
    BY EchoAssumption, SMT DEF Init
  <2>3. /\ table \in [Fds -> Clients \cup {None}]
        /\ fd \in [Workers -> Fds \cup {None}] /\ own \in [Workers -> Clients \cup {None}]
        /\ inherited \in [Workers -> SUBSET Clients]
        /\ buf \in [Workers -> Seq(1 .. MaxBytes)]
    BY <1>1, Zenon DEF Init
  <2> QED
    BY <2>1, <2>2, <2>3 DEF Init, TypeOK
<1>4. TableInv
  BY <1>1 DEF Init, TableInv
<1>5. CountInv
  BY <1>1, FS_EmptySet, SMT DEF Init, CountInv
<1> QED
  BY <1>2, <1>3, <1>4, <1>5 DEF BaseInv

(* Steps after which the same connections are accepted, and the same       *)
(* descriptors and workers in use.                                         *)
LEMMA SameCounts ==
    ASSUME BaseInv, TypeOK', StreamTypes', mpc' = mpc, cfd' = cfd, table' = table,
           queued' = queued, stranded' = stranded, \A c \in Clients : cpc'[c] = "start" <=> cpc[c] = "start",
           \A w \in Workers : wpc'[w] = "none" <=> wpc[w] = "none"
    PROVE  BaseInv'
<1>1. Accepted' = Accepted /\ Started' = Started
  BY DEF Accepted, Started
<1>2. TableInv'
  BY <1>1 DEF BaseInv, TypeOK, TableInv, Entries
<1>3. CountInv'
  BY <1>1 DEF BaseInv, CountInv
<1> QED
  BY <1>2, <1>3 DEF BaseInv

LEMMA ConnectKeepsBase ==
    ASSUME BaseInv, NEW c \in Clients, Connect(c)
    PROVE  BaseInv'
<1>0. TypeOK /\ StreamTypes /\ TableInv /\ CountInv
  BY DEF BaseInv
<1>1. /\ UNCHANGED <<sent, got, streams, kind, mpc, cfd, table, raced, stranded, workerVars>>
      /\ cpc[c] = "start" /\ c \notin queued /\ c \notin Accepted
      /\ \/ /\ mpc # "gone" /\ queued' = queued \cup {c}
            /\ cpc' = [cpc EXCEPT ![c] = "input"]
         \/ /\ mpc = "gone" /\ queued' = queued
            /\ cpc' = [cpc EXCEPT ![c] = "done"]
  BY <1>0 DEF Connect, TableInv, Accepted
<1>2. /\ cpc' \in [Clients -> {"start", "input", "reply", "done", "killed"}]
      /\ cpc'[c] # "start" /\ \A d \in Clients \ {c} : cpc'[d] = cpc[d]
      /\ queued' \subseteq Clients
  <2>1. queued' \subseteq Clients
    BY <1>0, <1>1 DEF TypeOK
  <2>2. \E p \in {"input", "done"} : cpc' = [cpc EXCEPT ![c] = p]
    BY <1>1
  <2> QED
    BY <1>0, <2>1, <2>2, SMT DEF TypeOK
<1>3. StreamTypes' /\ TypeOK'
  BY <1>0, <1>1, <1>2 DEF StreamTypes, TypeOK, streams, workerVars
<1>4. /\ Accepted \subseteq Accepted'
      /\ mpc # "gone" => Accepted' = Accepted
  BY <1>1, <1>2 DEF Accepted
<1>5. TableInv'
  <2>1. Entries' \subseteq Accepted'
    BY <1>0, <1>1, <1>4 DEF TableInv, Entries
  <2>2. \A d \in queued' : cpc'[d] # "start"
    BY <1>0, <1>1, <1>2 DEF TableInv, TypeOK
  <2> QED
    BY <1>0, <1>1, <1>4, <2>1, <2>2 DEF TableInv
<1>6. CountInv'
  BY <1>0, <1>1, <1>4 DEF CountInv, Started, workerVars
<1> QED
  BY <1>3, <1>5, <1>6 DEF BaseInv

(* What the streams are cut into and put together from stays a sequence of *)
(* bytes.                                                                  *)
LEMMA CutType ==
    ASSUME NEW S, NEW s \in Seq(S), NEW k \in 1 .. Len(s)
    PROVE  /\ SubSeq(s, 1, k) \in Seq(S) /\ SubSeq(s, k + 1, Len(s)) \in Seq(S)
           /\ SubSeq(s, 1, k) \o SubSeq(s, k + 1, Len(s)) = s
<1>1. Len(s) \in Nat /\ k \in Nat /\ k >= 1 /\ k <= Len(s)
  BY LenProperties, SMT
<1>2. \A j \in 1 .. Len(s) : s[j] \in S
  BY ElementOfSeq
<1>3. \A j \in 1 .. k : s[j] \in S
  BY <1>1, <1>2, SMT
<1>4. \A j \in k + 1 .. Len(s) : s[j] \in S
  BY <1>1, <1>2, SMT
<1>5. SubSeq(s, 1, k) \in Seq(S) /\ SubSeq(s, k + 1, Len(s)) \in Seq(S)
  <2>1. 1 \in Int /\ k \in Int /\ k + 1 \in Int /\ Len(s) \in Int
    BY <1>1, SMT
  <2> QED
    BY <1>3, <1>4, <2>1, SubSeqProperties
<1>6. SubSeq(s, 1, k) \o SubSeq(s, k + 1, Len(s)) = SubSeq(s, 1, Len(s))
  <2>1. 1 \in 1 .. Len(s) + 1 /\ k \in 1 - 1 .. Len(s) /\ Len(s) \in k .. Len(s)
    BY <1>1, SMT
  <2> QED
    BY <2>1, ConcatAdjacentSubSeq
<1> QED
  BY <1>5, <1>6, SubSeqFull

LEMMA InputKeepsBase ==
    ASSUME BaseInv, NEW c \in Clients, Input(c)
    PROVE  BaseInv'
<1>0. TypeOK /\ StreamTypes /\ TableInv /\ CountInv
  BY DEF BaseInv
<1>1. cpc[c] = "input" /\ UNCHANGED <<got, toClient, mainVars, workerVars>>
  BY DEF Input
<1>2. /\ sent' \in [Clients -> 0 .. MaxBytes]
      /\ toServer' \in [Clients -> Seq(1 .. MaxBytes)]
      /\ \E p \in {"reply", "done"} : cpc' = [cpc EXCEPT ![c] = p]
  <2>1. ASSUME NEW n \in 0 .. MaxBytes - sent[c],
               sent' = [sent EXCEPT ![c] = @ + n],
               toServer' = [toServer EXCEPT ![c] = @ \o [k \in 1 .. n |-> sent[c] + k]],
               cpc' = [cpc EXCEPT ![c] = "reply"]
        PROVE  <1>2!:
    <3>1. sent[c] \in 0 .. MaxBytes /\ n \in Nat /\ sent[c] + n \in 0 .. MaxBytes
      BY <1>0, <2>1, EchoAssumption, SMT DEF TypeOK
    <3>2. [k \in 1 .. n |-> sent[c] + k] \in Seq(1 .. MaxBytes)
      <4>1. \A k \in 1 .. n : sent[c] + k \in 1 .. MaxBytes
        BY <3>1, <2>1, EchoAssumption, SMT
      <4> QED
        BY <3>1, <4>1, IsASeq
    <3>3. toServer[c] \o [k \in 1 .. n |-> sent[c] + k] \in Seq(1 .. MaxBytes)
      BY <1>0, <3>2, ConcatProperties DEF StreamTypes
    <3>4. toServer' \in [Clients -> Seq(1 .. MaxBytes)]
      BY <1>0, <2>1, <3>3 DEF StreamTypes
    <3> QED
      BY <1>0, <2>1, <3>1, <3>4 DEF TypeOK
  <2>2. CASE cpc' = [cpc EXCEPT ![c] = "done"] /\ UNCHANGED <<sent, toServer>>
    BY <1>0, <2>2 DEF TypeOK, StreamTypes
  <2> QED
    BY <2>1, <2>2 DEF Input
<1>3. /\ cpc' \in [Clients -> {"start", "input", "reply", "done", "killed"}]
      /\ \A d \in Clients : cpc'[d] = "start" <=> cpc[d] = "start"
  BY <1>0, <1>1, <1>2, SMT DEF TypeOK
<1>4. StreamTypes' /\ TypeOK'
  BY <1>0, <1>1, <1>2, <1>3 DEF StreamTypes, TypeOK, mainVars, workerVars
<1> QED
  BY <1>1, <1>3, <1>4, SameCounts DEF mainVars, workerVars

LEMMA ReplyKeepsBase ==
    ASSUME BaseInv, NEW c \in Clients, Reply(c)
    PROVE  BaseInv'
<1>0. TypeOK /\ StreamTypes /\ TableInv /\ CountInv
  BY DEF BaseInv
<1>1. cpc[c] = "reply" /\ UNCHANGED <<sent, toServer, mainVars, workerVars>>
  BY DEF Reply
<1>2. /\ got' \in [Clients -> Seq(1 .. MaxBytes)]
      /\ toClient' \in [Clients -> Seq(1 .. MaxBytes)]
      /\ \E p \in {"input", "done"} : cpc' = [cpc EXCEPT ![c] = p]
  <2>1. ASSUME NEW k \in 1 .. Len(toClient[c]),
               got' = [got EXCEPT ![c] = @ \o SubSeq(toClient[c], 1, k)],
               toClient' = [toClient EXCEPT ![c] = SubSeq(@, k + 1, Len(@))],
               cpc' = [cpc EXCEPT ![c] = "input"]
        PROVE  <1>2!:
    <3>1. /\ SubSeq(toClient[c], 1, k) \in Seq(1 .. MaxBytes)
          /\ SubSeq(toClient[c], k + 1, Len(toClient[c])) \in Seq(1 .. MaxBytes)
      BY <1>0, <2>1, CutType DEF StreamTypes
    <3>2. got[c] \o SubSeq(toClient[c], 1, k) \in Seq(1 .. MaxBytes)
      BY <1>0, <3>1, ConcatProperties DEF StreamTypes
    <3> QED
      BY <1>0, <2>1, <3>1, <3>2 DEF StreamTypes
  <2>2. CASE cpc' = [cpc EXCEPT ![c] = "done"] /\ UNCHANGED <<got, toClient>>
    BY <1>0, <2>2 DEF StreamTypes
  <2> QED
    BY <2>1, <2>2 DEF Reply
<1>3. /\ cpc' \in [Clients -> {"start", "input", "reply", "done", "killed"}]
      /\ \A d \in Clients : cpc'[d] = "start" <=> cpc[d] = "start"
  BY <1>0, <1>1, <1>2, SMT DEF TypeOK
<1>4. StreamTypes' /\ TypeOK'
  BY <1>0, <1>1, <1>2, <1>3 DEF StreamTypes, TypeOK, mainVars, workerVars
<1> QED
  BY <1>1, <1>3, <1>4, SameCounts DEF mainVars, workerVars

LEMMA KillKeepsBase ==
    ASSUME BaseInv, NEW c \in Clients, Kill(c)
    PROVE  BaseInv'
<1>0. TypeOK /\ StreamTypes /\ TableInv /\ CountInv
  BY DEF BaseInv
<1>1. /\ cpc' \in [Clients -> {"start", "input", "reply", "done", "killed"}]
      /\ \A d \in Clients : cpc'[d] = "start" <=> cpc[d] = "start"
  BY <1>0, SMT DEF Kill, TypeOK
<1>2. StreamTypes' /\ TypeOK'
  BY <1>0, <1>1 DEF Kill, StreamTypes, TypeOK, streams, mainVars, workerVars
<1> QED
  BY <1>1, <1>2, SameCounts DEF Kill, mainVars, workerVars

LEMMA AcceptKeepsBase ==
    ASSUME BaseInv, NEW c \in Clients, Accept(c)
    PROVE  BaseInv'
<1>0. TypeOK /\ StreamTypes /\ TableInv /\ CountInv
  BY DEF BaseInv
<1>1. cfd' \in Fds /\ table[cfd'] = None
  BY AcceptGives
<1>2. /\ mpc = "accept" /\ c \in queued /\ queued' = queued \ {c}
      /\ table' = [table EXCEPT ![cfd'] = c] /\ mpc' = "start"
      /\ raced' = (raced \/ \E w \in Workers : wpc[w] = "start")
      /\ UNCHANGED <<kind, stranded, clientVars, streams, workerVars>>
  BY DEF Accept
<1>3. TypeOK' /\ StreamTypes'
  <2>1. table' \in [Fds -> Clients \cup {None}]
    BY <1>0, <1>1, <1>2 DEF TypeOK
  <2>2. raced' \in BOOLEAN
    BY <1>2
  <2> QED
    BY <1>0, <1>1, <1>2, <2>1, <2>2
       DEF TypeOK, StreamTypes, clientVars, streams, workerVars
<1>4. /\ Accepted' = Accepted \cup {c} /\ c \notin Accepted
      /\ Started' = Started
  BY <1>0, <1>2 DEF Accepted, Started, clientVars, workerVars, TableInv
<1>5. table'[cfd'] = c /\ \A f \in Fds \ {cfd'} : table'[f] = table[f]
  BY <1>0, <1>1, <1>2 DEF TypeOK
<1>6. TableInv'
  <2>1. Entries' = Entries \cup {c}
    BY <1>1, <1>5, EchoAssumption DEF Entries
  <2>2. c \notin Entries
    BY <1>0, <1>4 DEF TableInv
  <2>3. \A f \in Fds : table[f] # c
    BY <2>2, EchoAssumption DEF Entries
  <2>4. \A f, g \in Fds : table'[f] = table'[g] /\ table'[f] # None => f = g
    BY <1>0, <1>1, <1>5, <2>3 DEF TableInv
  <2>5. \A d \in queued' : cpc'[d] # "start"
    BY <1>0, <1>2 DEF TableInv, clientVars
  <2> QED
    BY <1>0, <1>1, <1>2, <1>4, <2>1, <2>4, <2>5 DEF TableInv
<1>7. CountInv'
  <2>1. Cardinality(Accepted') = Cardinality(Accepted) + 1
    BY <1>4, CountTypes, FS_AddElement
  <2>2. Cardinality(Started) <= Cardinality(Accepted)
    BY <1>0, <1>2, CountTypes, SMT DEF CountInv
  <2> QED
    BY <1>2, <1>4, <2>1, <2>2, CountTypes, SMT DEF CountInv
<1> QED
  BY <1>3, <1>6, <1>7 DEF BaseInv

(* A server that has gone has nothing open and counts nothing any more.    *)
LEMMA EndKeepsBase ==
    ASSUME BaseInv, EndMain,
           UNCHANGED <<kind, cfd, raced, stranded, fd, own, buf, clientVars, streams>>,
           wpc' \in [Workers -> {"none", "start", "read", "write", "close", "ended"}],
           inherited' = inherited
    PROVE  BaseInv'
<1>0. TypeOK /\ StreamTypes /\ TableInv /\ CountInv
  BY DEF BaseInv
<1>1. mpc' = "gone" /\ queued' = {} /\ table' = [f \in Fds |-> None]
  BY DEF EndMain
<1>2. TypeOK' /\ StreamTypes'
  BY <1>0, <1>1 DEF TypeOK, StreamTypes, clientVars, streams
<1>3. Entries' = {}
  BY <1>1 DEF Entries
<1>4. Accepted \subseteq Accepted'
  BY <1>1 DEF Accepted, clientVars
<1> QED
  BY <1>0, <1>1, <1>2, <1>3, <1>4 DEF BaseInv, TableInv, CountInv

(* What Start does when it does not end the server: it gives a worker that *)
(* has not been used the connection in cfd.                                *)
LEMMA StartGives ==
    ASSUME BaseInv, Start
    PROVE  \/ kind = "fork" /\ EndMain /\ UNCHANGED <<wpc, fd, own, inherited, stranded>>
           \/ kind = "thread" /\ Dies /\ UNCHANGED <<fd, own, stranded>>
           \/ /\ kind = "thread" /\ mpc' = "accept"
              /\ stranded' = stranded \cup ({table[cfd]} \ {None})
              /\ UNCHANGED <<wpc, fd, own, inherited, queued, table>>
           \/ /\ \E w \in Workers :
                    /\ wpc[w] = "none"
                    /\ \/ /\ kind = "single" /\ mpc' = "serving"
                          /\ wpc' = [wpc EXCEPT ![w] = "read"]
                          /\ fd' = [fd EXCEPT ![w] = cfd]
                          /\ UNCHANGED <<own, inherited>>
                       \/ /\ kind = "fork" /\ mpc' = "close"
                          /\ wpc' = [wpc EXCEPT ![w] = "read"]
                          /\ own' = [own EXCEPT ![w] = table[cfd]]
                          /\ inherited' = [inherited EXCEPT ![w] = Entries]
                          /\ UNCHANGED fd
                       \/ /\ kind = "thread" /\ mpc' = "accept"
                          /\ wpc' = [wpc EXCEPT ![w] = "start"]
                          /\ UNCHANGED <<fd, own, inherited>>
              /\ UNCHANGED <<queued, table, stranded>>
<1> DEFINE w == CHOOSE v \in Workers : /\ wpc[v] = "none"
                                       /\ \A u \in Workers : wpc[u] = "none" => v <= u
<1>1. w \in Workers /\ wpc[w] = "none"
  <2>1. mpc = "start"
    BY DEF Start
  <2> QED
    BY <2>1, FreeWorker
<1>2. \/ kind = "fork" /\ EndMain /\ UNCHANGED <<wpc, fd, own, inherited, stranded>>
      \/ kind = "thread" /\ Dies /\ UNCHANGED <<fd, own, stranded>>
      \/ /\ kind = "thread" /\ mpc' = "accept"
         /\ stranded' = stranded \cup ({table[cfd]} \ {None})
         /\ UNCHANGED <<wpc, fd, own, inherited, queued, table>>
      \/ /\ \/ /\ kind = "single" /\ mpc' = "serving"
               /\ wpc' = [wpc EXCEPT ![w] = "read"]
               /\ fd' = [fd EXCEPT ![w] = cfd]
               /\ UNCHANGED <<own, inherited>>
            \/ /\ kind = "fork" /\ mpc' = "close"
               /\ wpc' = [wpc EXCEPT ![w] = "read"]
               /\ own' = [own EXCEPT ![w] = table[cfd]]
               /\ inherited' = [inherited EXCEPT ![w] = Entries]
               /\ UNCHANGED fd
            \/ /\ kind = "thread" /\ mpc' = "accept"
               /\ wpc' = [wpc EXCEPT ![w] = "start"]
               /\ UNCHANGED <<fd, own, inherited>>
         /\ UNCHANGED <<queued, table, stranded>>
  BY Zenon DEF Start
<1> HIDE DEF w
<1> QED
  BY <1>1, <1>2, Zenon

LEMMA StartKeepsBase ==
    ASSUME BaseInv, Start
    PROVE  BaseInv'
<1>0. TypeOK /\ StreamTypes /\ TableInv /\ CountInv
  BY DEF BaseInv
<1>1. mpc = "start" /\ UNCHANGED <<kind, cfd, raced, clientVars, streams, buf>>
      /\ cfd \in Fds /\ table[cfd] \in Clients \cup {None}
  BY <1>0 DEF Start, TableInv, TypeOK
<1>2. CASE EndMain /\ UNCHANGED <<wpc, fd, own, inherited, stranded>>
  BY <1>0, <1>1, <1>2, EndKeepsBase DEF TypeOK
<1>4. CASE Dies /\ UNCHANGED <<fd, own, stranded>>
  <2>1. wpc' \in [Workers -> {"none", "start", "read", "write", "close", "ended"}]
    BY <1>4 DEF Dies
  <2> QED
    BY <1>1, <1>4, <2>1, EndKeepsBase DEF Dies
<1>5. CASE /\ mpc' = "accept"
           /\ stranded' = stranded \cup ({table[cfd]} \ {None})
           /\ UNCHANGED <<wpc, fd, own, inherited, queued, table>>
  <2>1. table[cfd] # None => table[cfd] \in Accepted
    BY <1>0, <1>1 DEF TableInv, Entries
  <2>2. Accepted' = Accepted /\ Started' = Started
    BY <1>1, <1>5 DEF Accepted, Started, clientVars
  <2>3. TypeOK' /\ StreamTypes'
    BY <1>0, <1>1, <1>5 DEF TypeOK, StreamTypes, clientVars, streams
  <2>4. TableInv'
    BY <1>0, <1>1, <1>5, <2>1, <2>2 DEF TableInv, Entries, clientVars
  <2>5. CountInv'
    BY <1>0, <1>1, <1>5, <2>2, CountTypes, SMT DEF CountInv
  <2> QED
    BY <2>3, <2>4, <2>5 DEF BaseInv
<1>3. ASSUME NEW w \in Workers, wpc[w] = "none", UNCHANGED <<queued, table, stranded>>,
             NEW p \in {"read", "start"}, wpc' = [wpc EXCEPT ![w] = p],
             NEW m \in {"serving", "close", "accept"}, mpc' = m,
             fd' \in {fd, [fd EXCEPT ![w] = cfd]},
             own' \in {own, [own EXCEPT ![w] = table[cfd]]},
             inherited' \in {inherited, [inherited EXCEPT ![w] = Entries]}
      PROVE  BaseInv'
  <2>1. /\ wpc' \in [Workers -> {"none", "start", "read", "write", "close", "ended"}]
        /\ wpc'[w] # "none" /\ \A v \in Workers \ {w} : wpc'[v] = wpc[v]
    BY <1>0, <1>3, SMT DEF TypeOK
  <2>2. Entries \in SUBSET Clients
    BY <1>0 DEF TableInv, Accepted
  <2>3. /\ fd' \in [Workers -> Fds \cup {None}]
        /\ own' \in [Workers -> Clients \cup {None}]
        /\ inherited' \in [Workers -> SUBSET Clients]
    <3>1. fd' \in [Workers -> Fds \cup {None}]
      BY <1>0, <1>1, <1>3 DEF TypeOK
    <3>2. own' \in [Workers -> Clients \cup {None}]
      BY <1>0, <1>1, <1>3 DEF TypeOK
    <3>3. inherited' \in [Workers -> SUBSET Clients]
      BY <1>0, <1>3, <2>2 DEF TypeOK
    <3> QED
      BY <3>1, <3>2, <3>3
  <2>4. TypeOK' /\ StreamTypes'
    BY <1>0, <1>1, <1>3, <2>1, <2>3 DEF TypeOK, StreamTypes, clientVars, streams
  <2>5. Started' = Started \cup {w} /\ w \notin Started /\ Accepted' = Accepted
    BY <1>1, <1>3, <2>1 DEF Started, Accepted, clientVars
  <2>6. Cardinality(Started') = Cardinality(Started) + 1
    BY <2>5, CountTypes, FS_AddElement
  <2>7. CountInv'
    BY <1>0, <1>1, <1>3, <2>5, <2>6, CountTypes, SMT DEF CountInv
  <2>8. TableInv'
    BY <1>0, <1>1, <1>3, <2>5 DEF TableInv, Entries, clientVars
  <2> QED
    BY <2>4, <2>7, <2>8 DEF BaseInv
<1> QED
  BY <1>2, <1>3, <1>4, <1>5, StartGives

(* Closing a descriptor: those of other connections stay.                  *)
LEMMA CloseKeepsBase ==
    ASSUME BaseInv, TypeOK', NEW f, table' = [table EXCEPT ![f] = None],
           UNCHANGED <<cfd, queued, stranded, clientVars, streams>>,
           \/ mpc' = mpc
           \/ mpc = "close" /\ mpc' = "accept",
           \A w \in Workers : wpc'[w] = "none" <=> wpc[w] = "none"
    PROVE  BaseInv'
<1>0. TypeOK /\ StreamTypes /\ TableInv /\ CountInv
  BY DEF BaseInv
<1>1. Accepted' = Accepted /\ Started' = Started /\ StreamTypes'
  BY <1>0 DEF Accepted, Started, StreamTypes, clientVars, streams
<1>2. \A g \in Fds : table'[g] # None => table'[g] = table[g]
  BY <1>0 DEF TypeOK
<1>3. Entries' \subseteq Entries
  BY <1>2 DEF Entries
<1>4. TableInv'
  BY <1>0, <1>1, <1>2, <1>3 DEF TableInv, clientVars
<1>5. CountInv'
  BY <1>0, <1>1 DEF CountInv
<1> QED
  BY <1>1, <1>4, <1>5 DEF BaseInv

LEMMA ParentCloseKeepsBase ==
    ASSUME BaseInv, ParentClose
    PROVE  BaseInv'
<1>1. table' \in [Fds -> Clients \cup {None}]
  BY DEF BaseInv, TypeOK, ParentClose
<1>2. TypeOK'
  BY <1>1 DEF BaseInv, TypeOK, ParentClose, clientVars, streams, workerVars
<1> QED
  BY <1>2, CloseKeepsBase DEF ParentClose, workerVars

LEMMA CopyKeepsBase ==
    ASSUME BaseInv, NEW w \in Workers, CopyArgument(w)
    PROVE  BaseInv'
<1>0. TypeOK /\ StreamTypes
  BY DEF BaseInv
<1>1. /\ wpc' \in [Workers -> {"none", "start", "read", "write", "close", "ended"}]
      /\ fd' \in [Workers -> Fds \cup {None}]
      /\ \A v \in Workers : wpc'[v] = "none" <=> wpc[v] = "none"
  BY <1>0, SMT DEF CopyArgument, TypeOK
<1>2. TypeOK' /\ StreamTypes'
  BY <1>0, <1>1 DEF CopyArgument, TypeOK, StreamTypes, clientVars, streams, mainVars
<1> QED
  BY <1>1, <1>2, SameCounts DEF CopyArgument, clientVars, mainVars

(* A live worker works for nobody or for a client.                         *)
LEMMA ConnType ==
    ASSUME TypeOK, NEW w \in Workers
    PROVE  Conn(w) \in Clients \cup {None}
BY DEF TypeOK, Conn

LEMMA ReadKeepsBase ==
    ASSUME BaseInv, NEW w \in Workers, Read(w)
    PROVE  BaseInv'
<1>0. TypeOK /\ StreamTypes
  BY DEF BaseInv
<1>1. wpc[w] = "read" /\ UNCHANGED <<fd, own, inherited, toClient, clientVars, mainVars>>
  BY DEF Read
<1>2. /\ buf' \in [Workers -> Seq(1 .. MaxBytes)]
      /\ toServer' \in [Clients -> Seq(1 .. MaxBytes)]
      /\ \E p \in {"write", "close"} : wpc' = [wpc EXCEPT ![w] = p]
  <2> DEFINE c == Conn(w)
  <2>1. ASSUME c # None, NEW k \in 1 .. Len(toServer[c]),
               buf' = [buf EXCEPT ![w] = SubSeq(toServer[c], 1, k)],
               toServer' = [toServer EXCEPT ![c] = SubSeq(@, k + 1, Len(@))],
               wpc' = [wpc EXCEPT ![w] = "write"]
        PROVE  <1>2!:
    <3>1. c \in Clients
      BY <1>0, <2>1, ConnType
    <3>2. /\ SubSeq(toServer[c], 1, k) \in Seq(1 .. MaxBytes)
          /\ SubSeq(toServer[c], k + 1, Len(toServer[c])) \in Seq(1 .. MaxBytes)
      BY <1>0, <2>1, <3>1, CutType DEF StreamTypes
    <3> QED
      BY <1>0, <2>1, <3>1, <3>2 DEF StreamTypes, TypeOK
  <2>2. CASE wpc' = [wpc EXCEPT ![w] = "close"] /\ UNCHANGED <<buf, toServer>>
    BY <1>0, <2>2 DEF StreamTypes, TypeOK
  <2> QED
    BY <2>1, <2>2 DEF Read
<1>3. /\ wpc' \in [Workers -> {"none", "start", "read", "write", "close", "ended"}]
      /\ \A v \in Workers : wpc'[v] = "none" <=> wpc[v] = "none"
  BY <1>0, <1>1, <1>2, SMT DEF TypeOK
<1>4. TypeOK' /\ StreamTypes'
  BY <1>0, <1>1, <1>2, <1>3 DEF TypeOK, StreamTypes, clientVars, mainVars
<1> QED
  BY <1>1, <1>3, <1>4, SameCounts DEF clientVars, mainVars

LEMMA WriteKeepsBase ==
    ASSUME BaseInv, NEW w \in Workers, Write(w)
    PROVE  BaseInv'
<1>0. TypeOK /\ StreamTypes
  BY DEF BaseInv
<1>1. /\ wpc[w] = "write" /\ wpc' = [wpc EXCEPT ![w] = "read"]
      /\ buf' = [buf EXCEPT ![w] = <<>>]
      /\ UNCHANGED <<fd, own, inherited, toServer, clientVars, mainVars>>
      /\ toClient' = IF Conn(w) \notin Talking THEN toClient
                     ELSE [toClient EXCEPT ![Conn(w)] = @ \o buf[w]]
  BY DEF Write
<1>2. toClient' \in [Clients -> Seq(1 .. MaxBytes)]
  <2>1. CASE Conn(w) \in Talking
    <3>1. Conn(w) \in Clients
      BY <2>1 DEF Talking
    <3>2. toClient[Conn(w)] \o buf[w] \in Seq(1 .. MaxBytes)
      BY <1>0, <3>1, ConcatProperties DEF StreamTypes, TypeOK
    <3> QED
      BY <1>0, <1>1, <2>1, <3>1, <3>2 DEF StreamTypes
  <2>2. CASE Conn(w) \notin Talking
    BY <1>0, <1>1, <2>2 DEF StreamTypes
  <2> QED
    BY <2>1, <2>2
<1>3. /\ wpc' \in [Workers -> {"none", "start", "read", "write", "close", "ended"}]
      /\ \A v \in Workers : wpc'[v] = "none" <=> wpc[v] = "none"
  BY <1>0, <1>1, SMT DEF TypeOK
<1>4. buf' \in [Workers -> Seq(1 .. MaxBytes)]
  BY <1>0, <1>1, EmptySeq DEF TypeOK
<1>5. TypeOK' /\ StreamTypes'
  <2>1. UNCHANGED <<fd, own, inherited, toServer, clientVars, mainVars>>
    BY <1>1
  <2> QED
    BY <1>0, <1>2, <1>3, <1>4, <2>1 DEF TypeOK, StreamTypes, clientVars, mainVars
<1> QED
  BY <1>1, <1>3, <1>5, SameCounts DEF clientVars, mainVars

LEMMA SigpipeKeepsBase ==
    ASSUME BaseInv, NEW w \in Workers, Sigpipe(w)
    PROVE  BaseInv'
<1>0. TypeOK /\ StreamTypes
  BY DEF BaseInv
<1>1. wpc[w] = "write" /\ UNCHANGED <<kind, cfd, raced, stranded, fd, own, buf, clientVars, streams>>
  BY DEF Sigpipe, Dies
<1>2. CASE /\ wpc' = [wpc EXCEPT ![w] = "ended"]
           /\ inherited' = [inherited EXCEPT ![w] = {}]
           /\ UNCHANGED <<queued, mpc, table>>
  <2>1. /\ wpc' \in [Workers -> {"none", "start", "read", "write", "close", "ended"}]
        /\ \A v \in Workers : wpc'[v] = "none" <=> wpc[v] = "none"
    BY <1>0, <1>1, <1>2, SMT DEF TypeOK
  <2>2. inherited' \in [Workers -> SUBSET Clients]
    BY <1>0, <1>2 DEF TypeOK
  <2>3. TypeOK' /\ StreamTypes'
    BY <1>0, <1>1, <1>2, <2>1, <2>2 DEF TypeOK, StreamTypes, clientVars, streams
  <2> QED
    BY <1>1, <1>2, <2>1, <2>3, SameCounts DEF clientVars
<1>3. CASE wpc' = [v \in Workers |-> "ended"] /\ EndMain /\ UNCHANGED inherited
  <2>1. wpc' \in [Workers -> {"none", "start", "read", "write", "close", "ended"}]
    BY <1>3
  <2> QED
    BY <1>1, <1>3, <2>1, EndKeepsBase
<1> QED
  BY <1>2, <1>3 DEF Sigpipe, Dies

LEMMA WorkerCloseKeepsBase ==
    ASSUME BaseInv, NEW w \in Workers, Close(w)
    PROVE  BaseInv'
<1>0. TypeOK /\ StreamTypes
  BY DEF BaseInv
<1>1. /\ wpc[w] = "close" /\ wpc' = [wpc EXCEPT ![w] = "ended"]
      /\ UNCHANGED <<kind, cfd, raced, stranded, fd, own, buf, clientVars, streams>>
  BY DEF Close
<1>2. /\ wpc' \in [Workers -> {"none", "start", "read", "write", "close", "ended"}]
      /\ \A v \in Workers : wpc'[v] = "none" <=> wpc[v] = "none"
  BY <1>0, <1>1, SMT DEF TypeOK
<1>3. CASE EndMain /\ UNCHANGED inherited
  BY <1>1, <1>2, <1>3, EndKeepsBase
<1>4. CASE inherited' = [inherited EXCEPT ![w] = {}] /\ UNCHANGED <<queued, mpc, table>>
  <2>1. inherited' \in [Workers -> SUBSET Clients]
    BY <1>0, <1>4 DEF TypeOK
  <2>2. TypeOK' /\ StreamTypes'
    BY <1>0, <1>1, <1>2, <1>4, <2>1 DEF TypeOK, StreamTypes, clientVars, streams
  <2> QED
    BY <1>1, <1>2, <1>4, <2>2, SameCounts DEF clientVars
<1>5. CASE table' = [table EXCEPT ![fd[w]] = None] /\ UNCHANGED <<queued, mpc, inherited>>
  <2>1. table' \in [Fds -> Clients \cup {None}]
    BY <1>0, <1>5 DEF TypeOK
  <2>2. TypeOK'
    BY <1>0, <1>1, <1>2, <1>5, <2>1 DEF TypeOK, clientVars, streams
  <2> QED
    BY <1>1, <1>2, <1>5, <2>2, CloseKeepsBase
<1> QED
  BY <1>3, <1>4, <1>5 DEF Close

LEMMA BaseInvStep == BaseInv /\ [Next]_vars => BaseInv'
<1> SUFFICES ASSUME BaseInv, [Next]_vars PROVE BaseInv'
  OBVIOUS
<1>1. CASE UNCHANGED vars
  <2>1. TypeOK' /\ StreamTypes'
    BY <1>1 DEF BaseInv, TypeOK, StreamTypes, vars, clientVars, streams, mainVars, workerVars
  <2> QED
    BY <1>1, <2>1, SameCounts DEF vars, clientVars, mainVars, workerVars
<1>2. ASSUME NEW c \in Clients, Client(c) \/ Accept(c) PROVE BaseInv'
  BY <1>2, ConnectKeepsBase, InputKeepsBase, ReplyKeepsBase, KillKeepsBase,
     AcceptKeepsBase DEF Client
<1>3. ASSUME NEW w \in Workers, Worker(w) PROVE BaseInv'
  BY <1>3, CopyKeepsBase, ReadKeepsBase, WriteKeepsBase, SigpipeKeepsBase,
     WorkerCloseKeepsBase DEF Worker
<1> QED
  BY <1>1, <1>2, <1>3, StartKeepsBase, ParentCloseKeepsBase DEF Next, Main
-----------------------------------------------------------------------------
(* Steps that change no descriptor, and no worker but a thread that reads  *)
(* its argument.                                                           *)
LEMMA SamePlaces ==
    ASSUME ForkInv, ThreadInv, UNCHANGED <<kind, mpc, cfd, table, raced, stranded, own, inherited>>,
           Accepted \subseteq Accepted',
           \A w \in Workers : /\ Live(w)' = Live(w) /\ FdOf(w)' = FdOf(w)
                              /\ wpc'[w] = "none" <=> wpc[w] = "none"
                              /\ wpc'[w] = "start" => wpc[w] = "start"
    PROVE  ForkInv' /\ ThreadInv'
<1>1. ForkInv'
  <2> SUFFICES ASSUME kind = "fork" PROVE ForkInv'
    BY DEF ForkInv
  <2>1. \A w \in Workers :
           /\ wpc'[w] # "start"
           /\ wpc'[w] = "none" <=> own'[w] = None
           /\ own'[w] # None => own'[w] \in Accepted'
           /\ inherited'[w] = IF Live(w)' THEN {own'[w]} ELSE {}
           /\ mpc' = "start" => own'[w] # table'[cfd']
    BY DEF ForkInv
  <2> QED
    BY <2>1 DEF ForkInv
<1>2. ThreadInv'
  <2> SUFFICES ASSUME kind # "fork" PROVE ThreadInv'
    BY DEF ThreadInv
  <2>1. /\ mpc' # "close"
        /\ \A w \in Workers : own'[w] = None /\ inherited'[w] = {}
        /\ mpc' = "gone" => \A w \in Workers : ~Live(w)'
        /\ mpc' = "gone" => \A f \in Fds : table'[f] = None
        /\ kind' = "single" =>
              /\ \A w \in Workers : wpc'[w] # "start" /\ (Live(w)' => mpc' = "serving")
              /\ \A v, w \in Workers : Live(v)' /\ Live(w)' => v = w
        /\ kind' = "thread" => mpc' # "serving"
    BY DEF ThreadInv
  <2>2. ASSUME ~raced
        PROVE  /\ mpc' = "start" => /\ table'[cfd'] \notin Unserved'
                                    /\ \A w \in Workers : wpc'[w] # "start"
               /\ \A w \in Workers : Live(w)' => /\ FdOf(w)' \in Fds
                                                 /\ table'[FdOf(w)'] \notin Unserved'
                                                 /\ mpc' = "start" => FdOf(w)' # cfd'
               /\ \A v, w \in Workers : Live(v)' /\ Live(w)' /\ FdOf(v)' = FdOf(w)' => v = w
               /\ \A f \in Fds : table'[f] \notin Unserved' =>
                     (mpc' = "start" /\ f = cfd') \/ \E w \in Workers : Live(w)' /\ FdOf(w)' = f
    BY <2>2 DEF ThreadInv, Unserved
  <2> QED
    BY <2>1, <2>2 DEF ThreadInv
<1> QED
  BY <1>1, <1>2

(* The clients' own steps leave the places of all workers alone.           *)
LEMMA ClientKeepsPlaces ==
    ASSUME EchoInv, NEW c \in Clients, Client(c)
    PROVE  ForkInv' /\ ThreadInv'
<1>1. UNCHANGED <<kind, mpc, cfd, table, raced, stranded, workerVars>>
  BY DEF Client, Connect, Input, Reply, Kill, mainVars
<1>2. Accepted \subseteq Accepted'
  <2>1. cpc \in [Clients -> {"start", "input", "reply", "done", "killed"}]
    BY DEF EchoInv, BaseInv, TypeOK
  <2>2. \A d \in Clients : cpc[d] # "start" => cpc'[d] # "start"
    BY <2>1, SMT DEF Client, Connect, Input, Reply, Kill
  <2>3. queued' \subseteq queued \cup {c} /\ (cpc[c] # "start" => queued' = queued)
    BY DEF Client, Connect, Input, Reply, Kill, mainVars
  <2> QED
    BY <2>2, <2>3 DEF Accepted
<1> QED
  BY <1>1, <1>2, SamePlaces DEF EchoInv, workerVars, Live, FdOf

LEMMA LoopKeepsPlaces ==
    ASSUME EchoInv, NEW w \in Workers, CopyArgument(w) \/ Read(w) \/ Write(w)
    PROVE  ForkInv' /\ ThreadInv'
<1>1. UNCHANGED <<own, inherited, clientVars, mainVars>>
  BY DEF CopyArgument, Read, Write
<1>2. Accepted' = Accepted
  BY <1>1 DEF Accepted, clientVars, mainVars
<1>3. /\ wpc \in [Workers -> {"none", "start", "read", "write", "close", "ended"}]
      /\ fd \in [Workers -> Fds \cup {None}]
  BY DEF EchoInv, BaseInv, TypeOK
<1>4. /\ wpc[w] \in {"start", "read", "write"}
      /\ \E p \in {"read", "write", "close"} : wpc' = [wpc EXCEPT ![w] = p]
      /\ IF wpc[w] = "start" THEN fd' = [fd EXCEPT ![w] = cfd] ELSE fd' = fd
  BY DEF CopyArgument, Read, Write
<1>5. ASSUME NEW v \in Workers
      PROVE  /\ Live(v)' = Live(v) /\ FdOf(v)' = FdOf(v)
             /\ wpc'[v] = "none" <=> wpc[v] = "none"
             /\ wpc'[v] = "start" => wpc[v] = "start"
  <2>1. CASE v = w
    <3>1. /\ wpc'[v] \in {"read", "write", "close"}
          /\ fd'[v] = IF wpc[v] = "start" THEN cfd ELSE fd[v]
          /\ wpc[v] \in {"start", "read", "write"} /\ cfd' = cfd
      BY <1>1, <1>3, <1>4, <2>1 DEF mainVars
    <3> QED
      BY <3>1 DEF Live, FdOf
  <2>2. CASE v # w
    <3>1. wpc'[v] = wpc[v] /\ fd'[v] = fd[v] /\ cfd' = cfd
      BY <1>1, <1>3, <1>4, <2>2 DEF mainVars
    <3> QED
      BY <3>1 DEF Live, FdOf
  <2> QED
    BY <2>1, <2>2
<1> QED
  BY <1>1, <1>2, <1>5, SamePlaces DEF EchoInv, mainVars

LEMMA AcceptKeepsPlaces ==
    ASSUME EchoInv, NEW c \in Clients, Accept(c)
    PROVE  ForkInv' /\ ThreadInv'
<1>0. BaseInv /\ TypeOK /\ TableInv /\ ForkInv /\ ThreadInv
  BY DEF EchoInv, BaseInv
<1>1. cfd' \in Fds /\ table[cfd'] = None
  BY <1>0, AcceptGives
<1>2. /\ mpc = "accept" /\ c \in queued /\ queued' = queued \ {c}
      /\ table' = [table EXCEPT ![cfd'] = c] /\ mpc' = "start"
      /\ raced' = (raced \/ \E w \in Workers : wpc[w] = "start")
      /\ UNCHANGED <<kind, stranded, clientVars, streams, workerVars>>
  BY DEF Accept
<1>3. /\ table'[cfd'] = c /\ c # None
      /\ \A f \in Fds \ {cfd'} : table'[f] = table[f]
  BY <1>0, <1>1, <1>2, EchoAssumption DEF TypeOK
<1>4. Accepted \subseteq Accepted' /\ c \notin Accepted
  BY <1>2 DEF Accepted, clientVars
<1>5. \A w \in Workers : Live(w)' = Live(w)
  BY <1>2 DEF Live, workerVars
<1>6. ForkInv'
  <2> SUFFICES ASSUME kind = "fork" PROVE ForkInv'
    BY <1>2 DEF ForkInv
  <2>1. \A f \in Fds \ {cfd'} : table'[f] = None
    BY <1>0, <1>2, <1>3 DEF ForkInv
  <2>2. \A w \in Workers :
           /\ wpc'[w] # "start"
           /\ wpc'[w] = "none" <=> own'[w] = None
           /\ own'[w] # None => own'[w] \in Accepted'
           /\ inherited'[w] = IF Live(w)' THEN {own'[w]} ELSE {}
           /\ own'[w] # table'[cfd']
    BY <1>0, <1>2, <1>3, <1>4, <1>5 DEF ForkInv, workerVars
  <2>3. \A v, w \in Workers : own'[v] = own'[w] /\ own'[v] # None => v = w
    BY <1>0, <1>2 DEF ForkInv, workerVars
  <2> QED
    BY <1>0, <1>2, <1>3, <2>1, <2>2, <2>3 DEF ForkInv
<1>7. ThreadInv'
  <2> SUFFICES ASSUME kind # "fork" PROVE ThreadInv'
    BY <1>2 DEF ThreadInv
  <2>1. /\ \A w \in Workers : own'[w] = None /\ inherited'[w] = {}
        /\ kind' = "single" =>
              /\ \A w \in Workers : wpc'[w] # "start" /\ ~Live(w)'
              /\ \A v, w \in Workers : Live(v)' /\ Live(w)' => v = w
    BY <1>0, <1>2, <1>5 DEF ThreadInv, workerVars
  <2>2. ASSUME ~raced'
        PROVE  /\ table'[cfd'] \notin Unserved' /\ \A w \in Workers : wpc'[w] # "start"
               /\ \A w \in Workers : Live(w)' => /\ FdOf(w)' \in Fds
                                                 /\ table'[FdOf(w)'] \notin Unserved'
                                                 /\ FdOf(w)' # cfd'
               /\ \A v, w \in Workers : Live(v)' /\ Live(w)' /\ FdOf(v)' = FdOf(w)' => v = w
               /\ \A f \in Fds : table'[f] \notin Unserved' =>
                     f = cfd' \/ \E w \in Workers : Live(w)' /\ FdOf(w)' = f
    <3>7. Unserved' = Unserved /\ c \notin Unserved
      BY <1>0, <1>2, <1>3, <1>4 DEF Unserved, TableInv
    <3>1. ~raced /\ \A w \in Workers : wpc[w] # "start"
      BY <1>2, <2>2
    <3>2. \A w \in Workers : FdOf(w)' = FdOf(w) /\ wpc'[w] # "start"
      BY <1>2, <3>1 DEF FdOf, workerVars
    <3>3. \A w \in Workers : Live(w)' => /\ FdOf(w)' \in Fds /\ table[FdOf(w)'] \notin Unserved
      BY <1>0, <1>5, <3>1, <3>2 DEF ThreadInv
    <3>4. \A w \in Workers : Live(w)' => FdOf(w)' # cfd' /\ table'[FdOf(w)'] \notin Unserved'
      BY <1>1, <1>3, <3>3, <3>7 DEF Unserved
    <3>5. \A v, w \in Workers : Live(v)' /\ Live(w)' /\ FdOf(v)' = FdOf(w)' => v = w
      BY <1>0, <1>5, <3>1, <3>2 DEF ThreadInv
    <3>6. \A f \in Fds : table'[f] \notin Unserved' =>
             f = cfd' \/ \E w \in Workers : Live(w)' /\ FdOf(w)' = f
      BY <1>0, <1>2, <1>3, <1>5, <3>1, <3>2, <3>7 DEF ThreadInv
    <3> QED
      BY <1>3, <3>2, <3>3, <3>4, <3>5, <3>6, <3>7
  <2> QED
    BY <1>0, <1>2, <2>1, <2>2 DEF ThreadInv
<1> QED
  BY <1>6, <1>7

(* The server ends, with all its workers or with the only one it has.      *)
LEMMA ServerEndKeepsPlaces ==
    ASSUME EchoInv, kind # "fork", EndMain, UNCHANGED <<kind, cfd, raced, stranded, own, inherited>>,
           \A v \in Workers : ~(Live(v)') /\ wpc'[v] # "start"
    PROVE  ForkInv' /\ ThreadInv'
<1>0. ThreadInv
  BY DEF EchoInv
<1>1. mpc' = "gone" /\ \A f \in Fds : table'[f] = None
  BY DEF EndMain
<1>2. \A v \in Workers : own'[v] = None /\ inherited'[v] = {}
  BY <1>0 DEF ThreadInv
<1> QED
  BY <1>0, <1>1, <1>2 DEF ForkInv, ThreadInv, Unserved

LEMMA StartKeepsPlaces ==
    ASSUME EchoInv, Start
    PROVE  ForkInv' /\ ThreadInv'
<1>0. BaseInv /\ TypeOK /\ TableInv /\ ForkInv /\ ThreadInv /\ StreamTypes
  BY DEF EchoInv, BaseInv
<1>1. mpc = "start" /\ UNCHANGED <<kind, cfd, raced, clientVars, streams, buf>> /\ cfd \in Fds
  BY <1>0 DEF Start, TableInv
<1>2. CASE kind = "fork" /\ EndMain /\ UNCHANGED <<wpc, fd, own, inherited, stranded>>
  <2>1. mpc' = "gone" /\ \A f \in Fds : table'[f] = None
    BY <1>2 DEF EndMain
  <2>2. Accepted \subseteq Accepted' /\ \A w \in Workers : Live(w)' = Live(w)
    BY <1>1, <1>2 DEF Accepted, clientVars, EndMain, Live
  <2>3. \A w \in Workers :
           /\ wpc'[w] # "start"
           /\ wpc'[w] = "none" <=> own'[w] = None
           /\ own'[w] # None => own'[w] \in Accepted'
           /\ inherited'[w] = IF Live(w)' THEN {own'[w]} ELSE {}
    BY <1>0, <1>2, <2>2 DEF ForkInv
  <2>4. \A v, w \in Workers : own'[v] = own'[w] /\ own'[v] # None => v = w
    BY <1>0, <1>2 DEF ForkInv
  <2> QED
    BY <1>0, <1>1, <1>2, <2>1, <2>3, <2>4 DEF ForkInv, ThreadInv
<1>3. ASSUME NEW w \in Workers, wpc[w] = "none", UNCHANGED <<queued, table, fd, stranded>>,
             kind = "fork", mpc' = "close", wpc' = [wpc EXCEPT ![w] = "read"],
             own' = [own EXCEPT ![w] = table[cfd]],
             inherited' = [inherited EXCEPT ![w] = Entries]
      PROVE  ForkInv' /\ ThreadInv'
  <2>1. /\ table[cfd] # None /\ \A f \in Fds \ {cfd} : table[f] = None
        /\ Entries = {table[cfd]}
    BY <1>0, <1>1, <1>3 DEF ForkInv, Entries
  <2>2. Accepted' = Accepted /\ table[cfd] \in Accepted
    BY <1>0, <1>1, <1>3, <2>1 DEF Accepted, clientVars, TableInv
  <2>3. /\ wpc'[w] = "read" /\ own'[w] = table[cfd] /\ inherited'[w] = {table[cfd]}
        /\ Live(w)'
        /\ \A v \in Workers \ {w} : /\ wpc'[v] = wpc[v] /\ own'[v] = own[v]
                                    /\ inherited'[v] = inherited[v]
                                    /\ Live(v)' = Live(v)
    BY <1>0, <1>3, <2>1 DEF TypeOK, Live
  <2>4. \A v \in Workers :
           /\ wpc'[v] # "start"
           /\ wpc'[v] = "none" <=> own'[v] = None
           /\ own'[v] # None => own'[v] \in Accepted'
           /\ inherited'[v] = IF Live(v)' THEN {own'[v]} ELSE {}
    <3>1. ASSUME NEW v \in Workers \ {w} PROVE <2>4!(v)
      BY <1>0, <1>3, <2>2, <2>3, <3>1 DEF ForkInv
    <3>2. <2>4!(w)
      BY <2>1, <2>2, <2>3
    <3> QED
      BY <3>1, <3>2
  <2>5. \A v \in Workers : own[v] # table[cfd]
    BY <1>0, <1>1, <1>3 DEF ForkInv
  <2>6. \A u, v \in Workers : own'[u] = own'[v] /\ own'[u] # None => u = v
    BY <1>0, <1>3, <2>3, <2>5 DEF ForkInv
  <2> QED
    BY <1>0, <1>1, <1>3, <2>1, <2>4, <2>6 DEF ForkInv, ThreadInv
<1>4. ASSUME NEW w \in Workers, wpc[w] = "none", UNCHANGED <<queued, table, own, inherited, stranded>>,
             NEW p \in {"read", "start"}, wpc' = [wpc EXCEPT ![w] = p],
             \/ kind = "single" /\ mpc' = "serving" /\ p = "read"
                /\ fd' = [fd EXCEPT ![w] = cfd]
             \/ kind = "thread" /\ mpc' = "accept" /\ p = "start" /\ fd' = fd
      PROVE  ForkInv' /\ ThreadInv'
  <2>1. /\ wpc'[w] = p /\ Live(w)' /\ FdOf(w)' = cfd /\ ~Live(w)
        /\ \A v \in Workers \ {w} : /\ wpc'[v] = wpc[v] /\ Live(v)' = Live(v)
                                    /\ FdOf(v)' = FdOf(v)
    BY <1>0, <1>1, <1>4 DEF TypeOK, Live, FdOf
  <2>2. /\ \A v \in Workers : own'[v] = None /\ inherited'[v] = {}
        /\ kind' = "single" =>
              /\ \A v \in Workers : wpc'[v] # "start"
              /\ \A u, v \in Workers : Live(u)' /\ Live(v)' => u = v
    <3>1. \A v \in Workers : own'[v] = None /\ inherited'[v] = {}
      BY <1>0, <1>4 DEF ThreadInv
    <3>2. ASSUME kind = "single"
          PROVE  \A v \in Workers : wpc'[v] # "start" /\ (v # w => ~Live(v)')
      BY <1>0, <1>1, <1>4, <2>1, <3>2 DEF ThreadInv
    <3> QED
      BY <1>1, <3>1, <3>2
  <2>3. ASSUME ~raced
        PROVE  /\ \A v \in Workers : Live(v)' => FdOf(v)' \in Fds /\ table[FdOf(v)'] \notin Unserved
               /\ \A u, v \in Workers : Live(u)' /\ Live(v)' /\ FdOf(u)' = FdOf(v)' => u = v
               /\ \A f \in Fds : table[f] \notin Unserved => \E v \in Workers : Live(v)' /\ FdOf(v)' = f
    <3>1. /\ table[cfd] \notin Unserved
          /\ \A v \in Workers : Live(v) => /\ FdOf(v) \in Fds /\ table[FdOf(v)] \notin Unserved
                                           /\ FdOf(v) # cfd
          /\ \A u, v \in Workers : Live(u) /\ Live(v) /\ FdOf(u) = FdOf(v) => u = v
          /\ \A f \in Fds : table[f] \notin Unserved =>
                f = cfd \/ \E v \in Workers : Live(v) /\ FdOf(v) = f
      BY <1>0, <1>1, <1>4, <2>3 DEF ThreadInv
    <3>2. \A v \in Workers : Live(v)' => FdOf(v)' \in Fds /\ table[FdOf(v)'] \notin Unserved
      BY <1>1, <2>1, <3>1
    <3>3. \A u, v \in Workers : Live(u)' /\ Live(v)' /\ FdOf(u)' = FdOf(v)' => u = v
      BY <2>1, <3>1
    <3>4. \A f \in Fds : table[f] \notin Unserved => \E v \in Workers : Live(v)' /\ FdOf(v)' = f
      BY <2>1, <3>1
    <3> QED
      BY <3>2, <3>3, <3>4
  <2> QED
    BY <1>0, <1>1, <1>4, <2>2, <2>3 DEF ForkInv, ThreadInv, Unserved
<1>5. CASE /\ kind = "thread" /\ mpc' = "accept"
           /\ stranded' = stranded \cup ({table[cfd]} \ {None})
           /\ UNCHANGED <<wpc, fd, own, inherited, queued, table>>
  <2>1. \A v \in Workers : Live(v)' = Live(v) /\ FdOf(v)' = FdOf(v)
    BY <1>1, <1>5 DEF Live, FdOf
  <2>2. \A v \in Workers : own'[v] = None /\ inherited'[v] = {}
    BY <1>0, <1>5 DEF ThreadInv
  <2>3. ASSUME ~raced
        PROVE  /\ \A v \in Workers : Live(v) => FdOf(v) \in Fds /\ table[FdOf(v)] \notin Unserved'
               /\ \A u, v \in Workers : Live(u) /\ Live(v) /\ FdOf(u) = FdOf(v) => u = v
               /\ \A f \in Fds : table[f] \notin Unserved' => \E v \in Workers : Live(v) /\ FdOf(v) = f
    <3>1. /\ table[cfd] \notin Unserved
          /\ \A v \in Workers : Live(v) => /\ FdOf(v) \in Fds /\ table[FdOf(v)] \notin Unserved
                                           /\ FdOf(v) # cfd
          /\ \A u, v \in Workers : Live(u) /\ Live(v) /\ FdOf(u) = FdOf(v) => u = v
          /\ \A f \in Fds : table[f] \notin Unserved =>
                f = cfd \/ \E v \in Workers : Live(v) /\ FdOf(v) = f
      BY <1>0, <1>1, <1>5, <2>3 DEF ThreadInv
    <3>2. Unserved' = Unserved \cup {table[cfd]} /\ table[cfd] # None
      BY <1>5, <3>1 DEF Unserved
    <3>3. \A f \in Fds : table[f] = table[cfd] => f = cfd
      BY <1>0, <1>1, <3>2 DEF TableInv
    <3> QED
      BY <1>1, <3>1, <3>2, <3>3
  <2> QED
    BY <1>1, <1>5, <2>1, <2>2, <2>3 DEF ForkInv, ThreadInv
<1>6. CASE kind = "thread" /\ Dies /\ UNCHANGED <<fd, own, stranded>>
  <2>1. \A v \in Workers : ~(Live(v)') /\ wpc'[v] # "start"
    BY <1>6 DEF Dies, Live
  <2> QED
    BY <1>1, <1>6, <2>1, ServerEndKeepsPlaces DEF Dies
<1> QED
  BY <1>0, <1>2, <1>3, <1>4, <1>5, <1>6, StartGives

LEMMA ParentCloseKeepsPlaces ==
    ASSUME EchoInv, ParentClose
    PROVE  ForkInv' /\ ThreadInv'
<1>0. TypeOK /\ TableInv /\ ForkInv /\ ThreadInv
  BY DEF EchoInv, BaseInv
<1>1. /\ mpc = "close" /\ mpc' = "accept" /\ table' = [table EXCEPT ![cfd] = None]
      /\ UNCHANGED <<kind, queued, cfd, raced, stranded, clientVars, streams, workerVars>>
  BY DEF ParentClose
<1>2. kind = "fork"
  BY <1>0, <1>1 DEF ThreadInv
<1>3. \A f \in Fds : table'[f] = None
  BY <1>0, <1>1, <1>2 DEF ForkInv, TypeOK
<1>4. Accepted' = Accepted /\ \A w \in Workers : Live(w)' = Live(w)
  BY <1>1 DEF Accepted, clientVars, Live, workerVars
<1>5. \A w \in Workers :
         /\ wpc'[w] # "start"
         /\ wpc'[w] = "none" <=> own'[w] = None
         /\ own'[w] # None => own'[w] \in Accepted'
         /\ inherited'[w] = IF Live(w)' THEN {own'[w]} ELSE {}
  BY <1>0, <1>1, <1>2, <1>4 DEF ForkInv, workerVars
<1>6. \A v, w \in Workers : own'[v] = own'[w] /\ own'[v] # None => v = w
  BY <1>0, <1>1, <1>2 DEF ForkInv, workerVars
<1> QED
  BY <1>0, <1>1, <1>2, <1>3, <1>5, <1>6 DEF ForkInv, ThreadInv

(* A child ends; the descriptors of the others are not touched.            *)
LEMMA ChildEndKeepsPlaces ==
    ASSUME EchoInv, NEW w \in Workers, kind = "fork", Live(w),
           wpc' = [wpc EXCEPT ![w] = "ended"],
           inherited' = [inherited EXCEPT ![w] = {}],
           UNCHANGED <<kind, queued, mpc, table, cfd, raced, stranded, own, clientVars>>
    PROVE  ForkInv' /\ ThreadInv'
<1>0. TypeOK /\ ForkInv
  BY DEF EchoInv, BaseInv
<1>1. Accepted' = Accepted
  BY DEF Accepted, clientVars
<1>2. /\ wpc'[w] = "ended" /\ inherited'[w] = {} /\ ~(Live(w)') /\ wpc[w] # "none"
      /\ \A v \in Workers \ {w} : /\ wpc'[v] = wpc[v] /\ inherited'[v] = inherited[v]
                                  /\ Live(v)' = Live(v)
  BY <1>0 DEF TypeOK, Live
<1>3. ASSUME NEW v \in Workers
      PROVE  /\ wpc'[v] # "start"
             /\ wpc'[v] = "none" <=> own'[v] = None
             /\ own'[v] # None => own'[v] \in Accepted'
             /\ inherited'[v] = IF Live(v)' THEN {own'[v]} ELSE {}
             /\ mpc' = "start" => own'[v] # table'[cfd']
  <2>1. CASE v = w
    BY <1>0, <1>1, <1>2, <2>1 DEF ForkInv
  <2>2. CASE v # w
    BY <1>0, <1>1, <1>2, <2>2 DEF ForkInv
  <2> QED
    BY <2>1, <2>2
<1>4. ForkInv'
  BY <1>0, <1>3 DEF ForkInv
<1> QED
  BY <1>4 DEF ThreadInv

LEMMA SigpipeKeepsPlaces ==
    ASSUME EchoInv, NEW w \in Workers, Sigpipe(w)
    PROVE  ForkInv' /\ ThreadInv'
<1>1. CASE kind = "fork"
  <2>1. /\ wpc' = [wpc EXCEPT ![w] = "ended"]
        /\ inherited' = [inherited EXCEPT ![w] = {}]
        /\ UNCHANGED <<kind, queued, mpc, table, cfd, raced, stranded, own, clientVars>>
        /\ Live(w)
    BY <1>1 DEF Sigpipe, Live
  <2> QED
    BY <1>1, <2>1, ChildEndKeepsPlaces
<1>2. CASE kind # "fork"
  <2>1. /\ wpc' = [v \in Workers |-> "ended"] /\ EndMain
        /\ UNCHANGED <<kind, cfd, raced, stranded, own, inherited>>
    BY <1>2 DEF Sigpipe, Dies
  <2>2. \A v \in Workers : ~(Live(v)') /\ wpc'[v] # "start"
    BY <2>1 DEF Live
  <2> QED
    BY <1>2, <2>1, <2>2, ServerEndKeepsPlaces
<1> QED
  BY <1>1, <1>2

LEMMA CloseKeepsPlaces ==
    ASSUME EchoInv, NEW w \in Workers, Close(w)
    PROVE  ForkInv' /\ ThreadInv'
<1>0. TypeOK /\ ThreadInv
  BY DEF EchoInv, BaseInv
<1>1. /\ wpc[w] = "close" /\ wpc' = [wpc EXCEPT ![w] = "ended"]
      /\ UNCHANGED <<kind, cfd, raced, stranded, fd, own, buf, clientVars, streams>>
      /\ Live(w)
  BY DEF Close, Live
<1>2. /\ wpc'[w] = "ended" /\ ~(Live(w)')
      /\ \A v \in Workers \ {w} : /\ wpc'[v] = wpc[v] /\ Live(v)' = Live(v)
                                  /\ FdOf(v)' = FdOf(v)
  BY <1>0, <1>1 DEF TypeOK, Live, FdOf
<1>3. CASE kind = "single" /\ EndMain /\ UNCHANGED inherited
  <2>1. \A v \in Workers : ~(Live(v)') /\ wpc'[v] # "start"
    BY <1>0, <1>1, <1>2, <1>3 DEF ThreadInv
  <2> QED
    BY <1>1, <1>3, <2>1, ServerEndKeepsPlaces
<1>4. CASE kind = "fork" /\ inherited' = [inherited EXCEPT ![w] = {}]
           /\ UNCHANGED <<queued, mpc, table>>
  BY <1>1, <1>4, ChildEndKeepsPlaces
<1>5. CASE kind = "thread" /\ table' = [table EXCEPT ![fd[w]] = None]
           /\ UNCHANGED <<queued, mpc, inherited>>
  <2>1. /\ \A v \in Workers : own'[v] = None /\ inherited'[v] = {}
        /\ mpc' # "close" /\ mpc' # "serving"
        /\ mpc' = "gone" => \A v \in Workers : ~(Live(v)')
        /\ mpc' = "gone" => \A f \in Fds : table'[f] = None
    BY <1>0, <1>1, <1>2, <1>5 DEF ThreadInv
  <2>2. ASSUME ~raced
        PROVE  /\ mpc' = "start" => /\ table'[cfd'] \notin Unserved'
                                    /\ \A v \in Workers : wpc'[v] # "start"
               /\ \A v \in Workers : Live(v)' => /\ FdOf(v)' \in Fds
                                                 /\ table'[FdOf(v)'] \notin Unserved'
                                                 /\ mpc' = "start" => FdOf(v)' # cfd'
               /\ \A u, v \in Workers : Live(u)' /\ Live(v)' /\ FdOf(u)' = FdOf(v)' => u = v
               /\ \A f \in Fds : table'[f] \notin Unserved' =>
                     (mpc' = "start" /\ f = cfd') \/ \E v \in Workers : Live(v)' /\ FdOf(v)' = f
    <3>1. /\ mpc = "start" => /\ table[cfd] \notin Unserved
                              /\ \A v \in Workers : wpc[v] # "start"
          /\ \A v \in Workers : Live(v) => /\ FdOf(v) \in Fds
                                           /\ table[FdOf(v)] \notin Unserved
                                           /\ mpc = "start" => FdOf(v) # cfd
          /\ \A u, v \in Workers : Live(u) /\ Live(v) /\ FdOf(u) = FdOf(v) => u = v
          /\ \A f \in Fds : table[f] \notin Unserved =>
                (mpc = "start" /\ f = cfd) \/ \E v \in Workers : Live(v) /\ FdOf(v) = f
      BY <1>0, <1>5, <2>2 DEF ThreadInv
    <3>8. Unserved' = Unserved /\ None \in Unserved
      BY <1>1 DEF Unserved
    <3>2. FdOf(w) = fd[w] /\ fd[w] \in Fds
      BY <1>1, <3>1 DEF FdOf
    <3>3. table'[fd[w]] = None /\ \A f \in Fds \ {fd[w]} : table'[f] = table[f]
      BY <1>0, <1>5, <3>2 DEF TypeOK
    <3>4. mpc' = "start" => /\ table'[cfd'] \notin Unserved'
                            /\ \A v \in Workers : wpc'[v] # "start"
      <4>1. mpc = "start" => cfd \in Fds /\ cfd # fd[w]
        BY <1>1, <3>1, <3>2 DEF EchoInv, BaseInv, TableInv
      <4> QED
        BY <1>1, <1>2, <1>5, <3>1, <3>3, <3>8, <4>1
    <3>5. ASSUME NEW v \in Workers, Live(v)'
          PROVE  /\ v # w /\ FdOf(v)' \in Fds /\ table'[FdOf(v)'] \notin Unserved'
                 /\ mpc' = "start" => FdOf(v)' # cfd'
      <4>1. v # w
        BY <1>2, <3>5
      <4>2. Live(v) /\ FdOf(v)' = FdOf(v)
        BY <1>2, <3>5, <4>1
      <4>3. FdOf(v) # fd[w]
        BY <1>1, <3>1, <3>2, <4>1, <4>2
      <4> QED
        BY <1>1, <1>5, <3>1, <3>3, <3>8, <4>1, <4>2, <4>3
    <3>6. \A u, v \in Workers : Live(u)' /\ Live(v)' /\ FdOf(u)' = FdOf(v)' => u = v
      BY <1>2, <3>1, <3>5
    <3>7. \A f \in Fds : table'[f] \notin Unserved' =>
             (mpc' = "start" /\ f = cfd') \/ \E v \in Workers : Live(v)' /\ FdOf(v)' = f
      BY <1>1, <1>2, <1>5, <3>1, <3>2, <3>3, <3>8
    <3> QED
      BY <3>4, <3>5, <3>6, <3>7
  <2> QED
    BY <1>1, <1>5, <2>1, <2>2 DEF ForkInv, ThreadInv
<1> QED
  BY <1>3, <1>4, <1>5 DEF Close

LEMMA EchoInvInit == Init => EchoInv
<1> SUFFICES ASSUME Init PROVE ForkInv /\ ThreadInv
  BY BaseInvInit DEF EchoInv
<1>1. \A w \in Workers : /\ ~Live(w) /\ wpc[w] = "none" /\ own[w] = None
                         /\ inherited[w] = {}
  BY DEF Init, Live
<1>2. \A f \in Fds : table[f] = None
  BY DEF Init
<1> QED
  BY <1>1, <1>2 DEF Init, ForkInv, ThreadInv, Unserved

LEMMA EchoInvStep == EchoInv /\ [Next]_vars => EchoInv'
<1> SUFFICES ASSUME EchoInv, [Next]_vars PROVE ForkInv' /\ ThreadInv'
  BY BaseInvStep DEF EchoInv
<1>1. CASE UNCHANGED vars
  <2>1. Accepted' = Accepted /\ \A w \in Workers : Live(w)' = Live(w) /\ FdOf(w)' = FdOf(w)
    BY <1>1 DEF vars, clientVars, mainVars, workerVars, Accepted, Live, FdOf
  <2> QED
    BY <1>1, <2>1, SamePlaces DEF EchoInv, vars, mainVars, workerVars
<1>2. ASSUME NEW w \in Workers, Worker(w) PROVE ForkInv' /\ ThreadInv'
  BY <1>2, LoopKeepsPlaces, SigpipeKeepsPlaces, CloseKeepsPlaces DEF Worker
<1> QED
  BY <1>1, <1>2, ClientKeepsPlaces, AcceptKeepsPlaces, StartKeepsPlaces,
     ParentCloseKeepsPlaces DEF Next, Main

LEMMA EchoInvariant == Spec => []EchoInv
BY EchoInvInit, EchoInvStep, PTL DEF Spec

(* The forking server's parent has no connection open when it calls accept *)
(* again, and each child has its own and no other, however many there are. *)
THEOREM ChildrenKeepNoCopies == Spec => []NoStrayCopies
<1>1. EchoInv => NoStrayCopies
  <2> SUFFICES ASSUME EchoInv, kind = "fork" PROVE NoStrayCopies
    BY DEF NoStrayCopies
  <2>1. mpc \in {"accept", "gone"} => Entries = {}
    BY DEF EchoInv, ForkInv, Entries
  <2>2. \A w \in Workers : Live(w) => inherited[w] = {own[w]}
    BY DEF EchoInv, ForkInv
  <2> QED
    BY <2>1, <2>2 DEF NoStrayCopies
<1> QED
  BY <1>1, EchoInvariant, PTL

(* Who serves a connection: nobody twice, nobody before a worker has been  *)
(* started for it, and somebody as long as it is open.                     *)
LEMMA WhoServes ==
    ASSUME EchoInv, ~raced, NEW c \in Clients
    PROVE  /\ \A v, w \in Workers :
                 Live(v) /\ Target(v) = c /\ Live(w) /\ Target(w) = c => v = w
           /\ mpc = "start" /\ table[cfd] = c =>
                 \A w \in Workers : ~(Live(w) /\ Target(w) = c)
           /\ c \in stranded => \A w \in Workers : ~(Live(w) /\ Target(w) = c)
           /\ Reachable(c) /\ c \notin queued \cup stranded
              /\ ~(mpc \in {"start", "close"} /\ table[cfd] = c)
                 => \E w \in Workers : Live(w) /\ Target(w) = c
<1>0. TypeOK /\ TableInv /\ ForkInv /\ ThreadInv /\ c # None
  BY EchoAssumption DEF EchoInv, BaseInv
<1>1. CASE kind = "fork"
  <2>1. \A w \in Workers : Target(w) = own[w]
    BY <1>0, <1>1 DEF ForkInv, Target, Conn
  <2>2. \A v, w \in Workers : own[v] = c /\ own[w] = c => v = w
    BY <1>0, <1>1 DEF ForkInv
  <2>3. mpc = "start" /\ table[cfd] = c => \A w \in Workers : own[w] # c
    BY <1>0, <1>1 DEF ForkInv
  <2>4. ASSUME Reachable(c), c \notin queued \cup stranded,
               ~(mpc \in {"start", "close"} /\ table[cfd] = c)
        PROVE  \E w \in Workers : Live(w) /\ own[w] = c
    <3>1. c \notin Entries
      <4>1. ASSUME NEW f \in Fds, table[f] = c PROVE FALSE
        <5>1. mpc \in {"start", "close"}
          BY <1>0, <1>1, <4>1 DEF ForkInv, TypeOK
        <5>2. f = cfd
          BY <1>0, <1>1, <4>1, <5>1 DEF ForkInv
        <5> QED
          BY <2>4, <4>1, <5>1, <5>2
      <4> QED
        BY <4>1 DEF Entries
    <3>2. PICK w \in Workers : c \in inherited[w]
      BY <2>4, <3>1 DEF Reachable
    <3>3. Live(w) /\ own[w] = c
      BY <1>0, <1>1, <3>2 DEF ForkInv
    <3> QED
      BY <3>3
  <2>5. stranded = {}
    BY <1>0, <1>1 DEF ForkInv
  <2> QED
    BY <2>1, <2>2, <2>3, <2>4, <2>5
<1>2. CASE kind # "fork"
  <2>1. /\ mpc = "start" => table[cfd] \notin Unserved
        /\ \A w \in Workers : Live(w) => /\ FdOf(w) \in Fds /\ table[FdOf(w)] \notin Unserved
                                         /\ mpc = "start" => FdOf(w) # cfd
        /\ \A v, w \in Workers : Live(v) /\ Live(w) /\ FdOf(v) = FdOf(w) => v = w
        /\ \A f \in Fds : table[f] \notin Unserved =>
              (mpc = "start" /\ f = cfd) \/ \E w \in Workers : Live(w) /\ FdOf(w) = f
    BY <1>0, <1>2 DEF ThreadInv
  <2>2. \A w \in Workers : Live(w) => Target(w) = table[FdOf(w)]
    BY <1>2, <2>1, Sizes DEF Target, Conn, FdOf
  <2>3. \A f, g \in Fds : table[f] = c /\ table[g] = c => f = g
    BY <1>0 DEF TableInv
  <2>4. \A v, w \in Workers :
           Live(v) /\ Target(v) = c /\ Live(w) /\ Target(w) = c => v = w
    BY <2>1, <2>2, <2>3
  <2>5. mpc = "start" /\ table[cfd] = c => \A w \in Workers : ~(Live(w) /\ Target(w) = c)
    <3>1. mpc = "start" => cfd \in Fds
      BY <1>0 DEF TableInv
    <3> QED
      BY <2>1, <2>2, <2>3, <3>1
  <2>6. ASSUME Reachable(c), c \notin queued \cup stranded,
               ~(mpc \in {"start", "close"} /\ table[cfd] = c)
        PROVE  \E w \in Workers : Live(w) /\ Target(w) = c
    <3>1. \A w \in Workers : inherited[w] = {}
      BY <1>0, <1>2 DEF ThreadInv
    <3>2. PICK f \in Fds : table[f] = c
      BY <2>6, <3>1 DEF Reachable, Entries
    <3>3. PICK w \in Workers : Live(w) /\ FdOf(w) = f
      BY <1>0, <2>1, <2>6, <3>2 DEF Unserved
    <3> QED
      BY <2>2, <3>2, <3>3
  <2>7. c \in stranded => \A w \in Workers : ~(Live(w) /\ Target(w) = c)
    BY <2>1, <2>2 DEF Unserved
  <2> QED
    BY <2>4, <2>5, <2>6, <2>7
<1> QED
  BY <1>1, <1>2

(* As long as no thread has been overtaken, an open connection has one     *)
(* worker, and no two workers share one, for any number of clients that    *)
(* come and go in any order (accept and close of the servers).             *)
THEOREM OneWorkerEach == Spec => []WorkersOK
<1>1. EchoInv => WorkersOK
  <2> SUFFICES ASSUME EchoInv PROVE OneWorker
    BY DEF WorkersOK, EchoInv, BaseInv
  <2> SUFFICES ASSUME ~raced, NEW c \in Clients
               PROVE  LET serving == {w \in Workers : Live(w) /\ Target(w) = c}
                      IN  IF c \in stranded \/ (mpc = "start" /\ table[cfd] = c) THEN serving = {}
                          ELSE IF mpc = "close" /\ table[cfd] = c
                               THEN Cardinality(serving) <= 1
                          ELSE Reachable(c) /\ c \notin queued
                               => Cardinality(serving) = 1
    BY DEF OneWorker
  <2> DEFINE S == {w \in Workers : Live(w) /\ Target(w) = c}
  <2>1. \A v, w \in S : v = w
    BY WhoServes
  <2>2. c \in stranded \/ (mpc = "start" /\ table[cfd] = c) => S = {}
    BY WhoServes
  <2>3. Reachable(c) /\ c \notin queued \cup stranded
        /\ ~(mpc \in {"start", "close"} /\ table[cfd] = c) => S # {}
    BY WhoServes
  <2> HIDE DEF S
  <2>4. S # {} => Cardinality(S) = 1
    <3> SUFFICES ASSUME S # {} PROVE Cardinality(S) = 1
      OBVIOUS
    <3>1. PICK w \in S : S = {w}
      BY <2>1
    <3> QED
      BY <3>1, FS_Singleton
  <2>5. S = {} => Cardinality(S) = 0
    BY FS_EmptySet
  <2>6. mpc = "close" /\ table[cfd] = c => Cardinality(S) <= 1
    <3>1. Cardinality(S) = 0 \/ Cardinality(S) = 1
      BY <2>4, <2>5, Zenon
    <3> QED
      BY <3>1, SMT
  <2> QED
    BY <2>2, <2>3, <2>4, <2>6 DEF S
<1> QED
  BY <1>1, EchoInvariant, PTL
-----------------------------------------------------------------------------
(* The bytes.  A worker that holds some serves a connection accept has     *)
(* returned, and it is the only one that does.                             *)
Holds(w, c) == Conn(w) = c /\ wpc[w] = "write"

LEMMA ConnAccepted ==
    ASSUME EchoInv, NEW w \in Workers, Conn(w) # None
    PROVE  Conn(w) \in Accepted
<1>0. TypeOK /\ TableInv /\ ForkInv
  BY DEF EchoInv, BaseInv
<1>1. CASE kind = "fork"
  BY <1>0, <1>1 DEF ForkInv, Conn
<1>2. CASE kind # "fork"
  <2>1. fd[w] \in Fds /\ Conn(w) = table[fd[w]]
    BY <1>0, <1>2 DEF TypeOK, Conn
  <2>2. Conn(w) \in Entries
    BY <2>1 DEF Entries
  <2> QED
    BY <1>0, <2>2 DEF TableInv
<1> QED
  BY <1>1, <1>2

LEMMA OneHolder ==
    ASSUME EchoInv, ~raced, NEW c \in Clients, NEW v \in Workers, NEW w \in Workers,
           Conn(v) = c, wpc[v] \in {"read", "write"},
           Conn(w) = c, wpc[w] \in {"read", "write"}
    PROVE  v = w
<1>1. Live(v) /\ Target(v) = c /\ Live(w) /\ Target(w) = c
  BY DEF Live, Target
<1> QED
  BY <1>1, WhoServes

LEMMA HoldingNone ==
    ASSUME NEW c \in Clients, \A w \in Workers : ~Holds(w, c)
    PROVE  Holding(c) = <<>>
<1>1. {w \in Workers : Conn(w) = c /\ wpc[w] = "write"} = {}
  BY DEF Holds
<1> QED
  BY <1>1 DEF Holding

LEMMA HoldingNext ==
    ASSUME NEW c \in Clients, \A w \in Workers : ~(Holds(w, c)')
    PROVE  Holding(c)' = <<>>
<1>1. {w \in Workers : Conn(w)' = c /\ wpc'[w] = "write"} = {}
  BY DEF Holds
<1> QED
  BY <1>1 DEF Holding

LEMMA HoldingOf ==
    ASSUME NEW c \in Clients, NEW w \in Workers, Holds(w, c),
           \A v \in Workers : Holds(v, c) => v = w
    PROVE  Holding(c) = buf[w]
<1>1. {v \in Workers : Conn(v) = c /\ wpc[v] = "write"} = {w}
  BY DEF Holds
<1> QED
  BY <1>1 DEF Holding

LEMMA HoldingOfNext ==
    ASSUME NEW c \in Clients, NEW w \in Workers, Holds(w, c)',
           \A v \in Workers : Holds(v, c)' => v = w
    PROVE  Holding(c)' = buf'[w]
<1>1. {v \in Workers : Conn(v)' = c /\ wpc'[v] = "write"} = {w}
  BY DEF Holds
<1> QED
  BY <1>1 DEF Holding

LEMMA SameHolding ==
    ASSUME NEW c \in Clients, \A w \in Workers : Holds(w, c)' <=> Holds(w, c),
           \A w \in Workers : Holds(w, c) => buf'[w] = buf[w]
    PROVE  Holding(c)' = Holding(c)
<1> DEFINE H == {w \in Workers : Conn(w) = c /\ wpc[w] = "write"}
<1>1. {w \in Workers : Conn(w)' = c /\ wpc'[w] = "write"} = H
  BY DEF Holds
<1>2. H # {} => buf'[CHOOSE w \in H : TRUE] = buf[CHOOSE w \in H : TRUE]
  <2>1. \A w \in H : buf'[w] = buf[w]
    BY DEF Holds
  <2> HIDE DEF H
  <2> QED
    BY <2>1
<1> QED
  BY <1>1, <1>2 DEF Holding

LEMMA HoldingType ==
    ASSUME EchoInv, NEW c \in Clients
    PROVE  Holding(c) \in Seq(1 .. MaxBytes)
<1> DEFINE H == {w \in Workers : Conn(w) = c /\ wpc[w] = "write"}
<1>1. H # {} => (CHOOSE w \in H : TRUE) \in Workers
  OBVIOUS
<1>2. Holding(c) = IF H = {} THEN <<>> ELSE buf[CHOOSE w \in H : TRUE]
  BY DEF Holding
<1>3. buf \in [Workers -> Seq(1 .. MaxBytes)]
  BY DEF EchoInv, BaseInv, TypeOK
<1> HIDE DEF H
<1> QED
  BY <1>1, <1>2, <1>3, EmptySeq

(* The bytes of one client, which EchoInOrder puts together.               *)
Bytes(c) == got[c] \o toClient[c] \o Holding(c) \o toServer[c]
InOrder(c) ==
    ~raced /\ cpc[c] \in {"input", "reply"} /\ Reachable(c)
        => Bytes(c) = [k \in 1 .. sent[c] |-> k]

LEMMA OrderIsAll == EchoInOrder <=> \A c \in Clients : InOrder(c)
BY DEF EchoInOrder, InOrder, Bytes

(* A step that leaves a client, what is under way and the worker that      *)
(* holds its bytes alone.                                                  *)
LEMMA SameOrder ==
    ASSUME NEW c \in Clients, InOrder(c), raced => raced', Reachable(c)' => Reachable(c),
           cpc'[c] = cpc[c], sent'[c] = sent[c], got'[c] = got[c],
           toClient'[c] = toClient[c], toServer'[c] = toServer[c],
           ~raced' /\ cpc[c] \in {"input", "reply"} /\ Reachable(c)' =>
               /\ \A w \in Workers : Holds(w, c)' <=> Holds(w, c)
               /\ \A w \in Workers : Holds(w, c) => buf'[w] = buf[w]
    PROVE  InOrder(c)'
<1> SUFFICES ASSUME ~raced', cpc'[c] \in {"input", "reply"}, Reachable(c)'
             PROVE  Bytes(c)' = [k \in 1 .. sent'[c] |-> k]
  BY DEF InOrder
<1>1. Bytes(c) = [k \in 1 .. sent[c] |-> k]
  BY DEF InOrder
<1>2. Holding(c)' = Holding(c)
  BY SameHolding
<1>3. Bytes(c)' = Bytes(c)
  BY <1>2 DEF Bytes
<1> QED
  BY <1>1, <1>3

OrderInv == FreshInv /\ \A c \in Clients : InOrder(c)

LEMMA CountedOn ==
    ASSUME NEW s \in Nat, NEW n \in Nat
    PROVE  [k \in 1 .. s |-> k] \o [k \in 1 .. n |-> s + k] = [k \in 1 .. s + n |-> k]
<1> DEFINE a == [k \in 1 .. s |-> k]
           b == [k \in 1 .. n |-> s + k]
           ab == [k \in 1 .. s + n |-> k]
<1>1. a \in Seq(Nat) /\ b \in Seq(Nat) /\ ab \in Seq(Nat)
  <2>1. /\ \A k \in 1 .. s : k \in Nat
        /\ \A k \in 1 .. n : s + k \in Nat
        /\ \A k \in 1 .. s + n : k \in Nat
        /\ s + n \in Nat
    BY SMT
  <2> QED
    BY <2>1, IsASeq
<1>2. Len(a) = s /\ Len(b) = n /\ Len(ab) = s + n
  BY <1>1, LenProperties, SMT
<1>3. /\ a \o b \in Seq(Nat) /\ Len(a \o b) = s + n
      /\ \A i \in 1 .. s + n : (a \o b)[i] = IF i <= s THEN a[i] ELSE b[i - s]
  BY <1>1, <1>2, ConcatProperties
<1>4. \A i \in 1 .. s + n : (a \o b)[i] = ab[i]
  <2> SUFFICES ASSUME NEW i \in 1 .. s + n PROVE (a \o b)[i] = ab[i]
    OBVIOUS
  <2>1. CASE i <= s
    <3>1. i \in 1 .. s
      BY <2>1, SMT
    <3> QED
      BY <1>3, <2>1, <3>1
  <2>2. CASE ~(i <= s)
    <3>1. i - s \in 1 .. n /\ s + (i - s) = i
      BY <2>2, SMT
    <3> QED
      BY <1>3, <2>2, <3>1
  <2> QED
    BY <2>1, <2>2
<1> HIDE DEF a, b, ab
<1>5. a \o b = ab
  BY <1>1, <1>2, <1>3, <1>4, SeqEqual
<1> QED
  BY <1>5 DEF a, b, ab

(* What each step of a stream does to the bytes of its client.             *)
ByteSeqs == Seq(1 .. MaxBytes)

LEMMA ByteLaws ==
    /\ \A s, t, u \in ByteSeqs : (s \o t) \o u = s \o (t \o u)
    /\ \A s, t \in ByteSeqs : s \o t \in ByteSeqs
    /\ \A s \in ByteSeqs : s \o <<>> = s
<1>1. \A s, t, u \in ByteSeqs : (s \o t) \o u = s \o (t \o u)
  BY ConcatAssociative DEF ByteSeqs
<1>2. \A s, t \in ByteSeqs : s \o t \in ByteSeqs
  BY ConcatProperties DEF ByteSeqs
<1>3. \A s \in ByteSeqs : s \o <<>> = s
  BY ConcatEmptySeq DEF ByteSeqs
<1> QED
  BY <1>1, <1>2, <1>3

LEMMA MoveJoined ==
    \A g, a, b \in ByteSeqs : (g \o a) \o b = g \o (a \o b)
BY ByteLaws, Zenon

LEMMA MoveWritten ==
    \A g, t, h \in ByteSeqs : g \o (t \o h) \o <<>> = g \o t \o h
<1> TAKE g, t, h \in ByteSeqs
<1>1. g \o (t \o h) = g \o t \o h
  BY ByteLaws, ZenonT(40)
<1>2. g \o t \o h \in ByteSeqs
  BY ByteLaws, Zenon
<1>3. \A s \in ByteSeqs : s \o <<>> = s
  BY ByteLaws, Zenon
<1> QED
  BY <1>1, <1>2, <1>3, Zenon

LEMMA StreamsOf ==
    ASSUME EchoInv, NEW c \in Clients
    PROVE  /\ got[c] \in Seq(1 .. MaxBytes) /\ toClient[c] \in Seq(1 .. MaxBytes)
           /\ toServer[c] \in Seq(1 .. MaxBytes) /\ Holding(c) \in Seq(1 .. MaxBytes)
           /\ sent[c] \in 0 .. MaxBytes
           /\ cpc[c] \in {"start", "input", "reply", "done", "killed"}
BY HoldingType DEF EchoInv, BaseInv, StreamTypes, TypeOK

(* Steps of a client leave who holds what as it is.                        *)
LEMMA SameHolders ==
    ASSUME UNCHANGED <<kind, table, workerVars>>
    PROVE  /\ \A w \in Workers, c \in Clients : Holds(w, c)' <=> Holds(w, c)
           /\ buf' = buf
           /\ \A c \in Clients : Holding(c)' = Holding(c)
<1>1. \A w \in Workers : Conn(w)' = Conn(w) /\ wpc'[w] = wpc[w]
  BY DEF Conn, workerVars
<1>2. buf' = buf
  BY DEF workerVars
<1>3. \A w \in Workers, c \in Clients : Holds(w, c)' <=> Holds(w, c)
  BY <1>1 DEF Holds
<1> QED
  BY <1>2, <1>3, SameHolding

LEMMA ConnectKeepsOrder ==
    ASSUME EchoInv, OrderInv, NEW c \in Clients, Connect(c)
    PROVE  OrderInv'
<1>1. /\ UNCHANGED <<sent, got, streams, kind, mpc, cfd, table, raced, stranded, workerVars>>
      /\ cpc[c] = "start" /\ queued' \subseteq queued \cup {c}
      /\ \E p \in {"input", "done"} : cpc' = [cpc EXCEPT ![c] = p]
  BY DEF Connect
<1>2. cpc'[c] \in {"input", "done"} /\ \A d \in Clients \ {c} : cpc'[d] = cpc[d]
  BY <1>1, SMT DEF EchoInv, BaseInv, TypeOK
<1>3. FreshInv'
  BY <1>1, <1>2 DEF OrderInv, FreshInv, streams
<1>4. InOrder(c)'
  <2>1. sent[c] = 0 /\ toServer[c] = <<>> /\ toClient[c] = <<>> /\ got[c] = <<>>
    BY <1>1 DEF OrderInv, FreshInv
  <2>2. \A w \in Workers : ~Holds(w, c)
    BY <1>1, ConnAccepted, EchoAssumption DEF Holds, Accepted
  <2>3. Holding(c)' = <<>>
    BY <1>1, <2>2, SameHolders, HoldingNone
  <2>4. Bytes(c)' = <<>>
    BY <1>1, <2>1, <2>3, ConcatEmptySeq, EmptySeq DEF Bytes, streams
  <2>5. [k \in 1 .. sent'[c] |-> k] = <<>>
    BY <1>1, <2>1, SMT
  <2> QED
    BY <2>4, <2>5 DEF InOrder
<1>5. ASSUME NEW d \in Clients \ {c} PROVE InOrder(d)'
  <2>1. Reachable(d)' => Reachable(d)
    BY <1>1 DEF Reachable, Entries, workerVars
  <2>2. InOrder(d)
    BY DEF OrderInv
  <2> QED
    BY <1>1, <1>2, <2>1, <2>2, SameOrder, SameHolders DEF streams
<1> QED
  BY <1>3, <1>4, <1>5 DEF OrderInv

LEMMA InputKeepsOrder ==
    ASSUME EchoInv, OrderInv, NEW c \in Clients, Input(c)
    PROVE  OrderInv'
<1>1. cpc[c] = "input" /\ UNCHANGED <<got, toClient, mainVars, workerVars>>
  BY DEF Input
<1>2. /\ cpc'[c] \in {"reply", "done"}
      /\ \A d \in Clients \ {c} : /\ cpc'[d] = cpc[d] /\ sent'[d] = sent[d]
                                  /\ toServer'[d] = toServer[d]
  BY DEF Input, EchoInv, BaseInv, TypeOK, StreamTypes
<1>3. \A d \in Clients : Reachable(d)' <=> Reachable(d)
  BY <1>1 DEF Reachable, Entries, mainVars, workerVars
<1>4. UNCHANGED <<kind, table, workerVars, raced>>
  BY <1>1 DEF mainVars
<1>5. FreshInv'
  BY <1>1, <1>2 DEF OrderInv, FreshInv
<1>6. ASSUME NEW d \in Clients \ {c} PROVE InOrder(d)'
  <2>1. InOrder(d)
    BY DEF OrderInv
  <2> QED
    BY <1>1, <1>2, <1>3, <1>4, <2>1, SameOrder, SameHolders
<1>7. InOrder(c)'
  <2>1. ASSUME NEW n \in 0 .. MaxBytes - sent[c],
               sent' = [sent EXCEPT ![c] = @ + n],
               toServer' = [toServer EXCEPT ![c] = @ \o [k \in 1 .. n |-> sent[c] + k]],
               cpc' = [cpc EXCEPT ![c] = "reply"],
               ~raced, Reachable(c)
        PROVE  Bytes(c)' = [k \in 1 .. sent'[c] |-> k]
    <3> DEFINE new == [k \in 1 .. n |-> sent[c] + k]
    <3>1. /\ sent[c] \in Nat /\ n \in Nat /\ sent'[c] = sent[c] + n
          /\ \A k \in 1 .. n : sent[c] + k \in 1 .. MaxBytes
      <4>1. sent \in [Clients -> 0 .. MaxBytes]
        BY DEF EchoInv, BaseInv, TypeOK
      <4> QED
        BY <2>1, <4>1, EchoAssumption, SMT
    <3>2. new \in Seq(1 .. MaxBytes)
      BY <3>1, IsASeq
    <3>3. toServer'[c] = toServer[c] \o new
      BY <2>1 DEF EchoInv, BaseInv, StreamTypes
    <3>4. Bytes(c) = [k \in 1 .. sent[c] |-> k]
      BY <1>1, <2>1 DEF OrderInv, InOrder
    <3>5. Bytes(c)' = got[c] \o toClient[c] \o Holding(c) \o (toServer[c] \o new)
      BY <1>1, <1>4, <3>3, SameHolders DEF Bytes
    <3> HIDE DEF new
    <3>6. got[c] \o toClient[c] \o Holding(c) \o (toServer[c] \o new)
              = (got[c] \o toClient[c] \o Holding(c) \o toServer[c]) \o new
      <4>1. /\ got[c] \in ByteSeqs /\ toClient[c] \in ByteSeqs /\ Holding(c) \in ByteSeqs
            /\ toServer[c] \in ByteSeqs /\ new \in ByteSeqs
        BY <3>2, StreamsOf DEF ByteSeqs
      <4> DEFINE a == got[c] \o toClient[c] \o Holding(c)
      <4>2. a \in ByteSeqs
        BY <4>1, ByteLaws, Zenon
      <4> HIDE DEF a
      <4>3. (a \o toServer[c]) \o new = a \o (toServer[c] \o new)
        BY <4>1, <4>2, MoveJoined, Zenon
      <4> QED
        BY <4>3, Zenon DEF a
    <3>7. Bytes(c)' = Bytes(c) \o new
      BY <3>5, <3>6 DEF Bytes
    <3> QED
      BY <3>1, <3>4, <3>7, CountedOn DEF new
  <2>2. CASE cpc' = [cpc EXCEPT ![c] = "done"]
    <3>1. cpc'[c] = "done"
      BY <2>2 DEF EchoInv, BaseInv, TypeOK
    <3> QED
      BY <3>1 DEF InOrder
  <2>3. CASE ~(cpc' = [cpc EXCEPT ![c] = "done"])
    <3>1. PICK n \in 0 .. MaxBytes - sent[c] :
             /\ sent' = [sent EXCEPT ![c] = @ + n]
             /\ toServer' = [toServer EXCEPT ![c] = @ \o [k \in 1 .. n |-> sent[c] + k]]
             /\ cpc' = [cpc EXCEPT ![c] = "reply"]
      BY <2>3 DEF Input
    <3>2. ~raced /\ Reachable(c) => Bytes(c)' = [k \in 1 .. sent'[c] |-> k]
      BY <2>1, <3>1
    <3> QED
      BY <1>3, <1>4, <3>2 DEF InOrder
  <2> QED
    BY <2>2, <2>3
<1> QED
  BY <1>5, <1>6, <1>7 DEF OrderInv

LEMMA ReplyKeepsOrder ==
    ASSUME EchoInv, OrderInv, NEW c \in Clients, Reply(c)
    PROVE  OrderInv'
<1>1. cpc[c] = "reply" /\ UNCHANGED <<sent, toServer, mainVars, workerVars>>
  BY DEF Reply
<1>2. /\ cpc'[c] \in {"input", "done"}
      /\ \A d \in Clients \ {c} : /\ cpc'[d] = cpc[d] /\ got'[d] = got[d]
                                  /\ toClient'[d] = toClient[d]
  BY DEF Reply, EchoInv, BaseInv, TypeOK, StreamTypes
<1>3. \A d \in Clients : Reachable(d)' <=> Reachable(d)
  BY <1>1 DEF Reachable, Entries, mainVars, workerVars
<1>4. UNCHANGED <<kind, table, workerVars, raced>>
  BY <1>1 DEF mainVars
<1>5. FreshInv'
  BY <1>1, <1>2 DEF OrderInv, FreshInv
<1>6. ASSUME NEW d \in Clients \ {c} PROVE InOrder(d)'
  <2>1. InOrder(d)
    BY DEF OrderInv
  <2> QED
    BY <1>1, <1>2, <1>3, <1>4, <2>1, SameOrder, SameHolders
<1>7. InOrder(c)'
  <2>1. CASE cpc' = [cpc EXCEPT ![c] = "done"]
    <3>1. cpc'[c] = "done"
      BY <2>1 DEF EchoInv, BaseInv, TypeOK
    <3> QED
      BY <3>1 DEF InOrder
  <2>2. CASE ~(cpc' = [cpc EXCEPT ![c] = "done"])
    <3>1. PICK k \in 1 .. Len(toClient[c]) :
             /\ got' = [got EXCEPT ![c] = @ \o SubSeq(toClient[c], 1, k)]
             /\ toClient' = [toClient EXCEPT ![c] = SubSeq(@, k + 1, Len(@))]
      BY <2>2 DEF Reply
    <3>2. /\ got'[c] = got[c] \o SubSeq(toClient[c], 1, k)
          /\ toClient'[c] = SubSeq(toClient[c], k + 1, Len(toClient[c]))
      BY <3>1 DEF EchoInv, BaseInv, StreamTypes
    <3>3. Bytes(c)' = Bytes(c)
      <4>1. Bytes(c)' = (got[c] \o SubSeq(toClient[c], 1, k))
                            \o SubSeq(toClient[c], k + 1, Len(toClient[c]))
                            \o Holding(c) \o toServer[c]
        BY <1>1, <1>4, <3>2, SameHolders DEF Bytes
      <4>2. (got[c] \o SubSeq(toClient[c], 1, k))
                \o SubSeq(toClient[c], k + 1, Len(toClient[c]))
                \o Holding(c) \o toServer[c]
                = got[c] \o toClient[c] \o Holding(c) \o toServer[c]
        <5> DEFINE a == SubSeq(toClient[c], 1, k)
                   b == SubSeq(toClient[c], k + 1, Len(toClient[c]))
        <5>1. /\ got[c] \in ByteSeqs /\ a \in ByteSeqs /\ b \in ByteSeqs
              /\ a \o b = toClient[c]
          BY StreamsOf, CutType DEF ByteSeqs
        <5> HIDE DEF a, b
        <5>2. (got[c] \o a) \o b = got[c] \o (a \o b)
          BY <5>1, MoveJoined, Zenon
        <5>3. (got[c] \o a) \o b = got[c] \o toClient[c]
          BY <5>1, <5>2, Zenon
        <5> QED
          BY <5>3, Zenon DEF a, b
      <4> QED
        BY <4>1, <4>2 DEF Bytes
    <3> QED
      BY <1>1, <1>3, <1>4, <3>3 DEF OrderInv, InOrder
  <2> QED
    BY <2>1, <2>2
<1> QED
  BY <1>5, <1>6, <1>7 DEF OrderInv

LEMMA KillKeepsOrder ==
    ASSUME EchoInv, OrderInv, NEW c \in Clients, Kill(c)
    PROVE  OrderInv'
<1>1. cpc[c] # "start" /\ UNCHANGED <<sent, got, streams, mainVars, workerVars>>
  BY DEF Kill
<1>2. cpc'[c] = "killed" /\ \A d \in Clients \ {c} : cpc'[d] = cpc[d]
  BY DEF Kill, EchoInv, BaseInv, TypeOK
<1>3. \A d \in Clients : Reachable(d)' <=> Reachable(d)
  BY <1>1 DEF Reachable, Entries, mainVars, workerVars
<1>4. FreshInv'
  BY <1>1, <1>2 DEF OrderInv, FreshInv, streams
<1>5. ASSUME NEW d \in Clients \ {c} PROVE InOrder(d)'
  <2>1. InOrder(d) /\ UNCHANGED <<kind, table, workerVars, raced>>
    BY <1>1 DEF OrderInv, mainVars
  <2> QED
    BY <1>1, <1>2, <1>3, <2>1, SameOrder, SameHolders DEF streams
<1>6. InOrder(c)'
  BY <1>2 DEF InOrder
<1> QED
  BY <1>4, <1>5, <1>6 DEF OrderInv

(* Steps of the server that move no bytes.                                 *)
LEMMA QuietStep ==
    ASSUME OrderInv, UNCHANGED <<clientVars, streams, buf>>, raced => raced',
           \A c \in Clients : Reachable(c)' => Reachable(c),
           \A c \in Clients : ~raced' /\ cpc[c] \in {"input", "reply"} /\ Reachable(c)' =>
               \A w \in Workers : Holds(w, c)' <=> Holds(w, c)
    PROVE  OrderInv'
<1>1. FreshInv'
  BY DEF OrderInv, FreshInv, clientVars, streams
<1>2. ASSUME NEW c \in Clients PROVE InOrder(c)'
  <2>1. InOrder(c)
    BY DEF OrderInv
  <2>2. /\ cpc'[c] = cpc[c] /\ sent'[c] = sent[c] /\ got'[c] = got[c]
        /\ toClient'[c] = toClient[c] /\ toServer'[c] = toServer[c]
        /\ buf' = buf
    BY DEF clientVars, streams
  <2> QED
    BY <2>1, <2>2, SameOrder
<1> QED
  BY <1>1, <1>2 DEF OrderInv

LEMMA AcceptKeepsOrder ==
    ASSUME EchoInv, OrderInv, NEW d \in Clients, Accept(d)
    PROVE  OrderInv'
<1>1. /\ UNCHANGED <<kind, clientVars, streams, workerVars>>
      /\ d \in queued /\ queued' = queued \ {d}
      /\ table' = [table EXCEPT ![cfd'] = d] /\ (raced => raced')
  BY DEF Accept
<1>2. cfd' \in Fds /\ table[cfd'] = None
  BY AcceptGives DEF EchoInv
<1>3. \A f \in Fds : table'[f] = IF f = cfd' THEN d ELSE table[f]
  <2>1. table \in [Fds -> Clients \cup {None}]
    BY DEF EchoInv, BaseInv, TypeOK
  <2>2. table' = [table EXCEPT ![cfd'] = d]
    BY <1>1, Zenon
  <2> QED
    BY <1>2, <2>1, <2>2
<1>4. \A c \in Clients : Reachable(c)' => Reachable(c)
  BY <1>1, <1>3 DEF Reachable, Entries, workerVars
<1>5. ASSUME ~raced', NEW w \in Workers, NEW c \in Clients
      PROVE  Holds(w, c)' <=> Holds(w, c)
  <2>1. wpc'[w] = wpc[w]
    BY <1>1 DEF workerVars
  <2>2. ASSUME wpc[w] = "write" PROVE Conn(w)' = Conn(w)
    <3>1. ASSUME kind # "fork" PROVE fd[w] \in Fds /\ table[fd[w]] # None
      <4>1. ~raced
        BY <1>1, <1>5, Zenon
      <4> QED
        BY <2>2, <3>1, <4>1 DEF EchoInv, ThreadInv, Live, FdOf, Unserved
    <3> QED
      BY <1>1, <1>2, <1>3, <3>1 DEF Conn, workerVars
  <2> QED
    BY <2>1, <2>2 DEF Holds
<1>6. UNCHANGED <<clientVars, streams, buf>> /\ (raced => raced')
  <2>1. UNCHANGED <<clientVars, streams, buf>>
    BY <1>1 DEF workerVars
  <2>2. raced => raced'
    BY <1>1, Zenon
  <2> QED
    BY <2>1, <2>2, Zenon
<1> QED
  BY <1>4, <1>5, <1>6, QuietStep, Zenon

(* The server ends, and nobody is connected any more.                      *)
LEMMA ServerEndKeepsOrder ==
    ASSUME EchoInv, OrderInv, kind # "fork", EndMain,
           UNCHANGED <<raced, inherited, buf, clientVars, streams>>
    PROVE  OrderInv'
<1>1. \A w \in Workers : inherited'[w] = {}
  BY DEF EchoInv, ThreadInv
<1>2. \A c \in Clients : ~(Reachable(c)')
  BY <1>1, EchoAssumption DEF Reachable, Entries, EndMain
<1> QED
  BY <1>2, QuietStep

LEMMA StartKeepsOrder ==
    ASSUME EchoInv, OrderInv, Start
    PROVE  OrderInv'
<1>1. mpc = "start" /\ UNCHANGED <<kind, cfd, raced, clientVars, streams, buf>> /\ cfd \in Fds
  BY DEF Start, EchoInv, BaseInv, TableInv
<1>2. CASE kind = "fork" /\ EndMain /\ UNCHANGED <<wpc, fd, own, inherited>>
  <2>1. \A c \in Clients : Reachable(c)' => Reachable(c)
    BY <1>2, EchoAssumption DEF Reachable, Entries, EndMain
  <2>2. \A c \in Clients, w \in Workers : Holds(w, c)' <=> Holds(w, c)
    BY <1>1, <1>2 DEF Holds, Conn
  <2> QED
    BY <1>1, <2>1, <2>2, QuietStep
<1>3. ASSUME NEW w \in Workers, wpc[w] = "none", UNCHANGED <<queued, table, fd>>,
             kind = "fork", wpc' = [wpc EXCEPT ![w] = "read"],
             own' = [own EXCEPT ![w] = table[cfd]],
             inherited' = [inherited EXCEPT ![w] = Entries]
      PROVE  OrderInv'
  <2>1. /\ wpc'[w] = "read" /\ inherited'[w] = Entries
        /\ \A v \in Workers \ {w} : /\ wpc'[v] = wpc[v] /\ own'[v] = own[v]
                                    /\ inherited'[v] = inherited[v]
    BY <1>3 DEF EchoInv, BaseInv, TypeOK
  <2>2. \A c \in Clients : Reachable(c)' => Reachable(c)
    BY <1>3, <2>1 DEF Reachable, Entries
  <2>3. \A c \in Clients, v \in Workers : Holds(v, c)' <=> Holds(v, c)
    BY <1>1, <1>3, <2>1 DEF Holds, Conn
  <2> QED
    BY <1>1, <2>2, <2>3, QuietStep
<1>4. ASSUME NEW w \in Workers, wpc[w] = "none", UNCHANGED <<queued, table, own, inherited>>,
             NEW p \in {"read", "start"}, wpc' = [wpc EXCEPT ![w] = p],
             fd' = [fd EXCEPT ![w] = cfd] \/ fd' = fd
      PROVE  OrderInv'
  <2>1. /\ wpc'[w] = p
        /\ \A v \in Workers \ {w} : wpc'[v] = wpc[v] /\ fd'[v] = fd[v]
    BY <1>4 DEF EchoInv, BaseInv, TypeOK
  <2>2. \A c \in Clients : Reachable(c)' => Reachable(c)
    BY <1>4 DEF Reachable, Entries
  <2>3. \A c \in Clients, v \in Workers : Holds(v, c)' <=> Holds(v, c)
    <3>1. \A c \in Clients : ~Holds(w, c) /\ ~(Holds(w, c)')
      BY <1>4, <2>1 DEF Holds
    <3>2. \A v \in Workers \ {w} : Conn(v)' = Conn(v)
      BY <1>1, <1>4, <2>1 DEF Conn
    <3> QED
      BY <2>1, <3>1, <3>2 DEF Holds
  <2> QED
    BY <1>1, <2>2, <2>3, QuietStep
<1>5. CASE UNCHANGED <<wpc, fd, own, inherited, queued, table>>
  <2>1. \A c \in Clients : Reachable(c)' => Reachable(c)
    BY <1>5 DEF Reachable, Entries
  <2>2. \A c \in Clients, w \in Workers : Holds(w, c)' <=> Holds(w, c)
    BY <1>1, <1>5 DEF Holds, Conn
  <2> QED
    BY <1>1, <2>1, <2>2, QuietStep
<1>6. CASE kind = "thread" /\ Dies
  BY <1>1, <1>6, ServerEndKeepsOrder DEF Dies
<1> QED
  BY <1>2, <1>3, <1>4, <1>5, <1>6, StartGives DEF EchoInv

LEMMA ParentCloseKeepsOrder ==
    ASSUME EchoInv, OrderInv, ParentClose
    PROVE  OrderInv'
<1>1. /\ mpc = "close" /\ table' = [table EXCEPT ![cfd] = None]
      /\ UNCHANGED <<kind, queued, cfd, raced, clientVars, streams, workerVars>>
  BY DEF ParentClose
<1>2. kind = "fork"
  BY <1>1 DEF EchoInv, ThreadInv
<1>3. \A f \in Fds : table'[f] = table[f] \/ table'[f] = None
  BY <1>1 DEF EchoInv, BaseInv, TypeOK
<1>4. \A c \in Clients : Reachable(c)' => Reachable(c)
  BY <1>1, <1>3 DEF Reachable, Entries, workerVars
<1>5. \A c \in Clients, w \in Workers : Holds(w, c)' <=> Holds(w, c)
  BY <1>1, <1>2 DEF Holds, Conn, workerVars
<1>6. buf' = buf
  BY <1>1 DEF workerVars
<1> QED
  BY <1>1, <1>4, <1>5, <1>6, QuietStep

LEMMA CopyKeepsOrder ==
    ASSUME EchoInv, OrderInv, NEW w \in Workers, CopyArgument(w)
    PROVE  OrderInv'
<1>1. /\ wpc[w] = "start" /\ UNCHANGED <<own, inherited, buf, clientVars, streams, mainVars>>
      /\ wpc'[w] = "read" /\ \A v \in Workers \ {w} : wpc'[v] = wpc[v] /\ fd'[v] = fd[v]
  BY DEF CopyArgument, EchoInv, BaseInv, TypeOK
<1>2. \A c \in Clients : Reachable(c)' => Reachable(c)
  BY <1>1 DEF Reachable, Entries, mainVars
<1>3. \A c \in Clients, v \in Workers : Holds(v, c)' <=> Holds(v, c)
  <2>1. \A c \in Clients : ~Holds(w, c) /\ ~(Holds(w, c)')
    BY <1>1 DEF Holds
  <2>2. \A v \in Workers \ {w} : Conn(v)' = Conn(v)
    BY <1>1 DEF Conn, mainVars
  <2> QED
    BY <1>1, <2>1, <2>2 DEF Holds
<1>4. raced' = raced
  BY <1>1 DEF mainVars
<1> QED
  BY <1>1, <1>2, <1>3, <1>4, QuietStep

(* A child that ends, serving nobody that still talks.                     *)
LEMMA ChildEndKeepsOrder ==
    ASSUME EchoInv, OrderInv, NEW w \in Workers, kind = "fork",
           wpc[w] = "write" => Conn(w) \notin Talking,
           wpc' = [wpc EXCEPT ![w] = "ended"],
           inherited' = [inherited EXCEPT ![w] = {}],
           UNCHANGED <<kind, queued, table, raced, own, buf, clientVars, streams>>
    PROVE  OrderInv'
<1>1. /\ wpc'[w] = "ended"
      /\ \A v \in Workers \ {w} : wpc'[v] = wpc[v]
      /\ \A v \in Workers : inherited'[v] \subseteq inherited[v]
  BY DEF EchoInv, BaseInv, TypeOK
<1>2. \A c \in Clients : Reachable(c)' => Reachable(c)
  BY <1>1 DEF Reachable, Entries
<1>3. \A v \in Workers : Conn(v)' = Conn(v)
  BY DEF Conn
<1>4. ASSUME NEW c \in Clients, cpc[c] \in {"input", "reply"}
      PROVE  \A v \in Workers : Holds(v, c)' <=> Holds(v, c)
  <2>1. c \in Talking
    BY <1>4 DEF Talking
  <2>2. ~Holds(w, c) /\ ~(Holds(w, c)')
    BY <1>1, <2>1 DEF Holds
  <2> QED
    BY <1>1, <1>3, <2>2 DEF Holds
<1> QED
  BY <1>2, <1>4, QuietStep

LEMMA SigpipeKeepsOrder ==
    ASSUME EchoInv, OrderInv, NEW w \in Workers, Sigpipe(w)
    PROVE  OrderInv'
<1>1. CASE kind = "fork"
  <2>1. /\ Conn(w) \notin Talking /\ wpc' = [wpc EXCEPT ![w] = "ended"]
        /\ inherited' = [inherited EXCEPT ![w] = {}]
        /\ UNCHANGED <<kind, queued, table, raced, own, buf, clientVars, streams>>
    BY <1>1 DEF Sigpipe
  <2> QED
    BY <1>1, <2>1, ChildEndKeepsOrder
<1>2. CASE kind # "fork"
  <2>1. EndMain /\ UNCHANGED <<raced, inherited, buf, clientVars, streams>>
    BY <1>2 DEF Sigpipe, Dies
  <2> QED
    BY <1>2, <2>1, ServerEndKeepsOrder
<1> QED
  BY <1>1, <1>2

LEMMA CloseKeepsOrder ==
    ASSUME EchoInv, OrderInv, NEW w \in Workers, Close(w)
    PROVE  OrderInv'
<1>1. /\ wpc[w] = "close" /\ wpc' = [wpc EXCEPT ![w] = "ended"]
      /\ UNCHANGED <<kind, cfd, raced, fd, own, buf, clientVars, streams>>
  BY DEF Close
<1>2. CASE kind = "single" /\ EndMain /\ UNCHANGED inherited
  BY <1>1, <1>2, ServerEndKeepsOrder
<1>3. CASE kind = "fork" /\ inherited' = [inherited EXCEPT ![w] = {}]
           /\ UNCHANGED <<queued, mpc, table>>
  BY <1>1, <1>3, ChildEndKeepsOrder
<1>4. CASE kind = "thread" /\ table' = [table EXCEPT ![fd[w]] = None]
           /\ UNCHANGED <<queued, mpc, inherited>>
  <2>1. \A f \in Fds : table'[f] = IF f = fd[w] THEN None ELSE table[f]
    BY <1>4 DEF EchoInv, BaseInv, TypeOK
  <2>2. \A c \in Clients : Reachable(c)' => Reachable(c)
    BY <1>4, <2>1 DEF Reachable, Entries
  <2>3. wpc'[w] = "ended" /\ \A v \in Workers \ {w} : wpc'[v] = wpc[v]
    BY <1>1 DEF EchoInv, BaseInv, TypeOK
  <2>4. ASSUME ~raced, NEW c \in Clients, NEW v \in Workers
        PROVE  Holds(v, c)' <=> Holds(v, c)
    <3>1. CASE v = w
      BY <1>1, <2>3, <3>1 DEF Holds
    <3>2. CASE v # w
      <4>1. ASSUME wpc[v] = "write" PROVE Conn(v)' = Conn(v)
        <5>1. fd[v] \in Fds /\ fd[v] # fd[w]
          BY <1>1, <1>4, <2>4, <3>2, <4>1 DEF EchoInv, ThreadInv, Live, FdOf
        <5> QED
          BY <1>1, <1>4, <2>1, <5>1 DEF Conn
      <4> QED
        BY <2>3, <3>2, <4>1 DEF Holds
    <3> QED
      BY <3>1, <3>2
  <2> QED
    BY <1>1, <2>2, <2>4, QuietStep
<1> QED
  BY <1>2, <1>3, <1>4 DEF Close

LEMMA ReadKeepsOrder ==
    ASSUME EchoInv, OrderInv, NEW w \in Workers, Read(w)
    PROVE  OrderInv'
<1>1. wpc[w] = "read" /\ UNCHANGED <<fd, own, inherited, toClient, clientVars, mainVars>>
  BY DEF Read
<1>2. /\ \A v \in Workers : Conn(v)' = Conn(v)
      /\ \A c \in Clients : Reachable(c)' <=> Reachable(c)
      /\ raced' = raced
  BY <1>1 DEF Conn, Reachable, Entries, mainVars
<1>3. CASE wpc' = [wpc EXCEPT ![w] = "close"] /\ UNCHANGED <<buf, toServer>>
  <2>1. wpc'[w] = "close" /\ \A v \in Workers \ {w} : wpc'[v] = wpc[v]
    BY <1>3 DEF EchoInv, BaseInv, TypeOK
  <2>2. \A c \in Clients, v \in Workers : Holds(v, c)' <=> Holds(v, c)
    BY <1>1, <1>2, <2>1 DEF Holds
  <2>3. UNCHANGED <<clientVars, streams, buf>>
    BY <1>1, <1>3 DEF streams
  <2> QED
    BY <1>2, <2>2, <2>3, QuietStep
<1>4. ASSUME NEW c \in Clients, Conn(w) = c, NEW k \in 1 .. Len(toServer[c]),
             buf' = [buf EXCEPT ![w] = SubSeq(toServer[c], 1, k)],
             toServer' = [toServer EXCEPT ![c] = SubSeq(@, k + 1, Len(@))],
             wpc' = [wpc EXCEPT ![w] = "write"]
      PROVE  OrderInv'
  <2>1. /\ wpc'[w] = "write" /\ buf'[w] = SubSeq(toServer[c], 1, k)
        /\ toServer'[c] = SubSeq(toServer[c], k + 1, Len(toServer[c]))
        /\ \A v \in Workers \ {w} : wpc'[v] = wpc[v] /\ buf'[v] = buf[v]
        /\ \A d \in Clients \ {c} : toServer'[d] = toServer[d]
    BY <1>4 DEF EchoInv, BaseInv, TypeOK, StreamTypes
  <2>2. c \in Accepted
    BY <1>4, ConnAccepted, EchoAssumption
  <2>3. FreshInv'
    BY <1>1, <2>1, <2>2 DEF OrderInv, FreshInv, Accepted, clientVars
  <2>4. ASSUME NEW d \in Clients \ {c} PROVE InOrder(d)'
    <3>1. \A v \in Workers : Holds(v, d)' <=> Holds(v, d)
      BY <1>2, <1>4, <2>1 DEF Holds
    <3>2. \A v \in Workers : Holds(v, d) => buf'[v] = buf[v]
      BY <1>1, <2>1 DEF Holds
    <3>3. InOrder(d)
      BY DEF OrderInv
    <3>4. /\ cpc'[d] = cpc[d] /\ sent'[d] = sent[d] /\ got'[d] = got[d]
          /\ toClient'[d] = toClient[d] /\ toServer'[d] = toServer[d]
      BY <1>1, <2>1 DEF clientVars
    <3> QED
      BY <1>2, <3>1, <3>2, <3>3, <3>4, SameOrder
  <2>5. InOrder(c)'
    <3>1. SUFFICES ASSUME ~raced, cpc[c] \in {"input", "reply"}, Reachable(c)
          PROVE  Bytes(c)' = [j \in 1 .. sent[c] |-> j]
      BY <1>1, <1>2 DEF InOrder, clientVars
    <3>2. \A v \in Workers : ~Holds(v, c)
      BY <1>1, <1>4, <3>1, OneHolder DEF Holds
    <3>3. Holding(c) = <<>>
      BY <3>2, HoldingNone
    <3>4. Holding(c)' = SubSeq(toServer[c], 1, k)
      <4>1. Holds(w, c)'
        BY <1>2, <1>4, <2>1 DEF Holds
      <4>2. \A v \in Workers : Holds(v, c)' => v = w
        BY <1>2, <2>1, <3>2 DEF Holds
      <4> QED
        BY <2>1, <4>1, <4>2, HoldingOfNext
    <3> DEFINE a == SubSeq(toServer[c], 1, k)
               b == SubSeq(toServer[c], k + 1, Len(toServer[c]))
    <3>5. /\ got[c] \in ByteSeqs /\ toClient[c] \in ByteSeqs
          /\ a \in ByteSeqs /\ b \in ByteSeqs /\ a \o b = toServer[c]
      BY StreamsOf, CutType DEF ByteSeqs
    <3>6. Bytes(c)' = got[c] \o toClient[c] \o a \o b
      BY <1>1, <2>1, <3>4 DEF Bytes, clientVars
    <3>7. Bytes(c) = got[c] \o toClient[c] \o <<>> \o (a \o b)
      BY <3>3, <3>5 DEF Bytes
    <3>8. Bytes(c) = [j \in 1 .. sent[c] |-> j]
      BY <3>1 DEF OrderInv, InOrder
    <3> HIDE DEF a, b
    <3>9. got[c] \o toClient[c] \o a \o b = got[c] \o toClient[c] \o <<>> \o (a \o b)
      <4> DEFINE u == got[c] \o toClient[c]
      <4>1. u \in ByteSeqs
        BY <3>5, ByteLaws, Zenon
      <4> HIDE DEF u
      <4>2. (u \o a) \o b = u \o (a \o b)
        BY <3>5, <4>1, MoveJoined, Zenon
      <4>3. u \o <<>> = u
        BY <4>1, ByteLaws, Zenon
      <4> QED
        BY <4>2, <4>3, Zenon DEF u
    <3> QED
      BY <3>6, <3>7, <3>8, <3>9, Zenon
  <2> QED
    BY <2>3, <2>4, <2>5 DEF OrderInv
<1>5. Conn(w) # None => Conn(w) \in Clients
  BY ConnAccepted DEF Accepted
<1> QED
  BY <1>3, <1>4, <1>5 DEF Read

LEMMA WriteKeepsOrder ==
    ASSUME EchoInv, OrderInv, NEW w \in Workers, Write(w)
    PROVE  OrderInv'
<1>1. /\ wpc[w] = "write"
      /\ UNCHANGED <<fd, own, inherited, toServer, clientVars, mainVars>>
      /\ buf' = [buf EXCEPT ![w] = <<>>] /\ wpc' = [wpc EXCEPT ![w] = "read"]
      /\ toClient' = IF Conn(w) \notin Talking THEN toClient
                     ELSE [toClient EXCEPT ![Conn(w)] = @ \o buf[w]]
  BY DEF Write
<1>2. /\ \A v \in Workers : Conn(v)' = Conn(v)
      /\ \A c \in Clients : Reachable(c)' <=> Reachable(c)
      /\ raced' = raced
  BY <1>1 DEF Conn, Reachable, Entries, mainVars
<1>3. /\ wpc'[w] = "read"
      /\ \A v \in Workers \ {w} : wpc'[v] = wpc[v] /\ buf'[v] = buf[v]
  BY <1>1 DEF EchoInv, BaseInv, TypeOK
<1>4. \A d \in Clients :
         toClient'[d] = IF d = Conn(w) /\ d \in Talking THEN toClient[d] \o buf[w]
                        ELSE toClient[d]
  <2>1. toClient \in [Clients -> Seq(1 .. MaxBytes)]
    BY DEF EchoInv, BaseInv, StreamTypes
  <2> QED
    BY <1>1, <2>1
<1>5. FreshInv'
  <2>1. \A d \in Clients : cpc[d] = "start" => d # Conn(w)
    BY ConnAccepted, EchoAssumption DEF Accepted
  <2> QED
    BY <1>1, <1>4, <2>1 DEF OrderInv, FreshInv, clientVars
<1>6. ASSUME NEW d \in Clients, d # Conn(w) PROVE InOrder(d)'
  <2>1. \A v \in Workers : Holds(v, d)' <=> Holds(v, d)
    BY <1>2, <1>3, <1>6 DEF Holds
  <2>2. \A v \in Workers : Holds(v, d) => buf'[v] = buf[v]
    BY <1>3, <1>6 DEF Holds
  <2>3. InOrder(d)
    BY DEF OrderInv
  <2>4. /\ cpc'[d] = cpc[d] /\ sent'[d] = sent[d] /\ got'[d] = got[d]
        /\ toClient'[d] = toClient[d] /\ toServer'[d] = toServer[d]
    BY <1>1, <1>4, <1>6 DEF clientVars
  <2> QED
    BY <1>2, <2>1, <2>2, <2>3, <2>4, SameOrder
<1>7. ASSUME NEW c \in Clients, c = Conn(w) PROVE InOrder(c)'
  <2>1. SUFFICES ASSUME ~raced, cpc[c] \in {"input", "reply"}, Reachable(c)
        PROVE  Bytes(c)' = [j \in 1 .. sent[c] |-> j]
    BY <1>1, <1>2 DEF InOrder, clientVars
  <2>2. Holds(w, c) /\ \A v \in Workers : Holds(v, c) => v = w
    BY <1>1, <1>7, <2>1, OneHolder DEF Holds
  <2>3. Holding(c) = buf[w]
    BY <2>2, HoldingOf
  <2>4. Holding(c)' = <<>>
    <3>1. \A v \in Workers : ~(Holds(v, c)')
      BY <1>2, <1>3, <2>2 DEF Holds
    <3> QED
      BY <3>1, HoldingNext
  <2>5. toClient'[c] = toClient[c] \o Holding(c)
    BY <1>4, <1>7, <2>1, <2>3 DEF Talking
  <2>6. got[c] \in ByteSeqs /\ toClient[c] \in ByteSeqs /\ Holding(c) \in ByteSeqs
    BY StreamsOf DEF ByteSeqs
  <2>7. Bytes(c)' = got[c] \o (toClient[c] \o Holding(c)) \o <<>> \o toServer[c]
    BY <1>1, <2>4, <2>5 DEF Bytes, clientVars
  <2>8. got[c] \o (toClient[c] \o Holding(c)) \o <<>> = got[c] \o toClient[c] \o Holding(c)
    BY <2>6, MoveWritten, Zenon
  <2>9. Bytes(c)' = Bytes(c)
    BY <2>7, <2>8, Zenon DEF Bytes
  <2> QED
    BY <2>1, <2>9 DEF OrderInv, InOrder
<1> QED
  BY <1>5, <1>6, <1>7 DEF OrderInv

LEMMA OrderInit == Init => OrderInv
BY DEF Init, OrderInv, FreshInv, InOrder

LEMMA OrderStep == EchoInv /\ OrderInv /\ [Next]_vars => OrderInv'
<1> SUFFICES ASSUME EchoInv, OrderInv, [Next]_vars PROVE OrderInv'
  OBVIOUS
<1>1. CASE UNCHANGED vars
  <2>1. UNCHANGED <<clientVars, streams, kind, table, workerVars, queued, buf>> /\ raced' = raced
    BY <1>1 DEF vars, mainVars, workerVars
  <2>2. \A c \in Clients : Reachable(c)' <=> Reachable(c)
    BY <2>1 DEF Reachable, Entries, workerVars
  <2>3. \A w \in Workers, c \in Clients : Holds(w, c)' <=> Holds(w, c)
    BY <2>1, SameHolders
  <2> QED
    BY <2>1, <2>2, <2>3, QuietStep
<1>2. ASSUME NEW c \in Clients, Client(c) PROVE OrderInv'
  BY <1>2, ConnectKeepsOrder, InputKeepsOrder, ReplyKeepsOrder, KillKeepsOrder DEF Client
<1>3. CASE Main
  BY <1>3, StartKeepsOrder, ParentCloseKeepsOrder, AcceptKeepsOrder DEF Main
<1>4. ASSUME NEW w \in Workers, Worker(w) PROVE OrderInv'
  BY <1>4, CopyKeepsOrder, ReadKeepsOrder, WriteKeepsOrder, SigpipeKeepsOrder,
     CloseKeepsOrder DEF Worker
<1> QED
  BY <1>1, <1>2, <1>3, <1>4 DEF Next

(* As long as no thread has been overtaken, what a client has got, what is *)
(* under way and what its worker holds are together what it has sent, byte *)
(* for byte: read, write and the reuse of descriptors mix nothing up.      *)
THEOREM BytesInOrder == Spec => []EchoInOrder
<1>1. OrderInv => EchoInOrder
  BY OrderIsAll DEF OrderInv
<1> QED
  BY <1>1, OrderInit, OrderStep, EchoInvariant, PTL DEF Spec
=============================================================================
