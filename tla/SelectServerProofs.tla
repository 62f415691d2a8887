------------------------- MODULE SelectServerProofs -------------------------
(***************************************************************************)
(* What is proved of SelectServer, for any number of connections: its      *)
(* descriptor sets, and that a round serves all that select has reported.  *)
(***************************************************************************)
EXTENDS SelectServer, FiniteSetTheorems, WellFoundedInduction, TLAPS

(* Exactly the open connections have a descriptor, behind the listening    *)
(* socket's.                                                               *)
OpenInv ==
    \A c \in Conns : /\ fdOf[c] # None <=> client[c] = "open"
                     /\ fdOf[c] # None => fdOf[c] > lfd

(* What select has reported and the server has not served yet lies ahead   *)
(* of i, among the open descriptors, and nready counts it.                 *)
Pending == tempfds \ served
RoundInv ==
    /\ served \subseteq tempfds
    /\ pc = "select" => served = tempfds
    /\ pc = "accept" => /\ served = {} /\ lfd \in tempfds /\ i = lfd + 1
                        /\ tempfds \subseteq readfds
    /\ pc = "scan" => /\ \A f \in Pending : f \in readfds /\ i <= f
                      /\ \A f \in served : f < i
                      /\ lfd < i
    /\ pc \in {"accept", "scan"} => nready = Cardinality(Pending) /\ nready > 0

SelectInv == TypeOK /\ FdSets /\ OpenInv /\ RoundInv
-----------------------------------------------------------------------------
LEMMA LeastNumber ==
    ASSUME NEW T \in SUBSET Nat, T # {}
    PROVE  \E m \in T : \A n \in T : m <= n
<1> DEFINE R == OpToRel(<, Nat)
<1>1. IsWellFoundedOn(R, Nat)
  BY NatLessThanWellFounded, Zenon
<1>2. \A a, b \in Nat : a < b => <<a, b>> \in R
  BY DEF OpToRel
<1> HIDE DEF R
<1>3. PICK m \in T : \A n \in T : ~ (<<n, m>> \in R)
  BY <1>1, WFMin
<1>4. ASSUME NEW n \in T PROVE m <= n
  <2>1. ~ (n < m) /\ m \in Nat /\ n \in Nat
    BY <1>2, <1>3, Zenon
  <2> QED
    BY <2>1, SMT
<1> QED
  BY <1>4

LEMMA FdsFinite ==
    /\ IsFiniteSet(Fds) /\ Fds \subseteq Nat
    /\ Cardinality(Fds) > Cardinality(Conns) /\ Cardinality(Conns) \in Nat
    /\ lfd \in Fds /\ None \notin Fds
<1>1. Cardinality(Conns) \in Nat
  BY SelectAssumption, FS_CardinalityType
<1>2. /\ IsFiniteSet(lfd .. MaxFd)
      /\ Cardinality(lfd .. MaxFd) = IF lfd > MaxFd THEN 0 ELSE MaxFd - lfd + 1
  BY SelectAssumption, FS_Interval, SMT DEF lfd
<1>3. Cardinality(Fds) = MaxFd - lfd + 1
  BY <1>1, <1>2, SelectAssumption, SMT DEF Fds, lfd
<1> QED
  BY <1>1, <1>2, <1>3, SelectAssumption, SMT DEF Fds, lfd, None

LEMMA CountFds ==
    ASSUME NEW S \in SUBSET Fds
    PROVE  IsFiniteSet(S) /\ Cardinality(S) \in Nat
           /\ (Cardinality(S) = 0 <=> S = {})
BY FdsFinite, FS_Subset, FS_CardinalityType, FS_EmptySet

(* A connection that is not open leaves a descriptor for it.               *)
LEMMA FreeFd ==
    ASSUME TypeOK, NEW c \in Conns, fdOf[c] = None
    PROVE  Fds \ (OpenFds \cup {lfd}) # {}
<1> DEFINE S == {d \in Conns : fdOf[d] # None}
           g == [d \in S |-> fdOf[d]]
<1>1. IsFiniteSet(S) /\ Cardinality(S) <= Cardinality(Conns) - 1 /\ Cardinality(S) \in Nat
  <2>1. S \in SUBSET (Conns \ {c})
    OBVIOUS
  <2>2. /\ IsFiniteSet(Conns \ {c})
        /\ Cardinality(Conns \ {c}) = Cardinality(Conns) - 1
    BY SelectAssumption, FS_RemoveElement
  <2> HIDE DEF S
  <2> QED
    BY <2>1, <2>2, FS_Subset, FS_CardinalityType
<1>2. g \in Surjection(S, OpenFds)
  BY DEF Surjection, OpenFds
<1>3. IsFiniteSet(OpenFds) /\ Cardinality(OpenFds) <= Cardinality(S) /\ Cardinality(OpenFds) \in Nat
  <2> HIDE DEF S, g
  <2> QED
    BY <1>1, <1>2, FS_Surjection, FS_CardinalityType
<1>4. /\ IsFiniteSet(OpenFds \cup {lfd})
      /\ Cardinality(OpenFds \cup {lfd}) <= Cardinality(OpenFds) + 1
      /\ Cardinality(OpenFds \cup {lfd}) \in Nat
  <2>1. /\ IsFiniteSet(OpenFds \cup {lfd})
        /\ \/ Cardinality(OpenFds \cup {lfd}) = Cardinality(OpenFds)
           \/ Cardinality(OpenFds \cup {lfd}) = Cardinality(OpenFds) + 1
    BY <1>3, FS_AddElement
  <2> QED
    BY <1>3, <2>1, SMT
<1>5. Cardinality(OpenFds \cup {lfd}) < Cardinality(Fds)
  <2> HIDE DEF S, g
  <2> QED
    BY <1>1, <1>3, <1>4, FdsFinite, FS_CardinalityType, SMT
<1>6. Fds \subseteq OpenFds \cup {lfd} => Cardinality(Fds) <= Cardinality(OpenFds \cup {lfd})
  BY <1>4, FS_Subset
<1> QED
  BY <1>4, <1>5, <1>6, FdsFinite, FS_CardinalityType, SMT

(* accept gives the connection a descriptor nobody has.                    *)
LEMMA AcceptGivesFree ==
    ASSUME SelectInv, NEW c \in Conns, client[c] = "queued"
    PROVE  LET f == CHOOSE f \in Fds \ (OpenFds \cup {lfd}) :
                       \A g \in Fds \ (OpenFds \cup {lfd}) : f <= g
           IN  f \in Fds /\ f \notin OpenFds /\ f > lfd /\ f # None
<1> DEFINE T == Fds \ (OpenFds \cup {lfd})
<1>1. T # {} /\ T \subseteq Nat
  BY FreeFd, FdsFinite DEF SelectInv, OpenInv
<1>2. \E f \in T : \A g \in T : f <= g
  <2> HIDE DEF T
  <2> QED
    BY <1>1, LeastNumber
<1>3. \A f \in T : f > lfd
  BY SelectAssumption, SMT DEF Fds, lfd
<1> QED
  BY <1>2, <1>3, FdsFinite DEF lfd, None
-----------------------------------------------------------------------------
LEMMA SelectInvInit == Init => SelectInv
<1> SUFFICES ASSUME Init PROVE SelectInv
  OBVIOUS
<1>1. /\ \A c \in Conns : client[c] = "none" /\ fdOf[c] = None
      /\ OpenFds = {} /\ Pending = {}
  BY DEF Init, OpenFds, Pending
<1>2. /\ client \in [Conns -> {"none", "queued", "open", "closed"}]
      /\ sent \in [Conns -> Nat] /\ inbox \in [Conns -> Nat]
      /\ shut \in [Conns -> BOOLEAN]
      /\ fdOf \in [Conns -> Fds \cup {None}]
  BY DEF Init
<1>3. TypeOK
  BY <1>2, FdsFinite DEF Init, TypeOK
<1>4. FdSets
  BY <1>1, SMT DEF Init, FdSets, lfd
<1>5. OpenInv /\ RoundInv
  BY <1>1, SMT DEF Init, OpenInv, RoundInv
<1> QED
  BY <1>3, <1>4, <1>5 DEF SelectInv

(* The clients' steps leave the server and the descriptors alone.          *)
LEMMA ClientKeeps ==
    ASSUME SelectInv, NEW c \in Conns, Connect(c) \/ Send(c) \/ Shut(c)
    PROVE  SelectInv'
<1>0. TypeOK /\ FdSets /\ OpenInv /\ RoundInv
  BY DEF SelectInv
<1>1. UNCHANGED <<fdOf, serverVars, pc>>
  BY DEF Connect, Send, Shut
<1>2. TypeOK'
  <2>1. client' \in [Conns -> {"none", "queued", "open", "closed"}]
    BY <1>0, SMT DEF Connect, Send, Shut, TypeOK
  <2>2. shut' \in [Conns -> BOOLEAN]
    BY <1>0, Zenon DEF Connect, Send, Shut, TypeOK
  <2>3. sent' \in [Conns -> Nat] /\ inbox' \in [Conns -> Nat]
    BY <1>0, SMT DEF Connect, Send, Shut, TypeOK
  <2> QED
    BY <1>0, <1>1, <2>1, <2>2, <2>3 DEF TypeOK, serverVars
<1>3. FdSets' /\ RoundInv'
  BY <1>0, <1>1 DEF FdSets, RoundInv, serverVars, OpenFds, Pending
<1>4. OpenInv'
  <2>1. \A d \in Conns : client'[d] = "open" <=> client[d] = "open"
    BY <1>0, SMT DEF Connect, Send, Shut, TypeOK
  <2> QED
    BY <1>0, <1>1, <2>1 DEF OpenInv
<1> QED
  BY <1>2, <1>3, <1>4 DEF SelectInv

LEMMA SelectKeeps ==
    ASSUME SelectInv, Select
    PROVE  SelectInv'
<1>0. TypeOK /\ FdSets /\ OpenInv /\ RoundInv
  BY DEF SelectInv
<1>1. /\ tempfds' \subseteq readfds /\ tempfds' # {} /\ tempfds' \subseteq Fds
      /\ nready' = Cardinality(tempfds') /\ served' = {} /\ i' = lfd + 1
      /\ pc' = IF lfd \in tempfds' THEN "accept" ELSE "scan"
      /\ UNCHANGED <<clientVars, readfds, maxfd, cfd>>
  BY <1>0 DEF Select, TypeOK
<1>2. nready' \in Nat /\ nready' > 0
  <2>1. Cardinality(tempfds') \in Nat /\ Cardinality(tempfds') # 0
    BY <1>1, CountFds
  <2> QED
    BY <1>1, <2>1, SMT
<1>3. TypeOK'
  BY <1>0, <1>1, <1>2, SMT DEF TypeOK, clientVars, lfd
<1>4. FdSets' /\ OpenInv'
  BY <1>0, <1>1 DEF FdSets, OpenInv, OpenFds, clientVars
<1>5. RoundInv'
  <2>1. Pending' = tempfds'
    BY <1>1 DEF Pending
  <2>2. CASE lfd \in tempfds'
    BY <1>1, <1>2, <2>1, <2>2, SMT DEF RoundInv
  <2>3. CASE lfd \notin tempfds'
    <3>1. \A f \in tempfds' : i' <= f
      BY <1>1, <2>3, SelectAssumption, SMT DEF Fds, lfd
    <3>2. lfd < i'
      BY <1>1, SMT DEF lfd
    <3> QED
      BY <1>1, <1>2, <2>1, <2>3, <3>1, <3>2 DEF RoundInv
  <2> QED
    BY <2>2, <2>3
<1> QED
  BY <1>3, <1>4, <1>5 DEF SelectInv

LEMMA AcceptKeeps ==
    ASSUME SelectInv, Accept
    PROVE  SelectInv'
<1>0. TypeOK /\ FdSets /\ OpenInv /\ RoundInv
  BY DEF SelectInv
<1>1. PICK c \in Conns : /\ client[c] = "queued"
                         /\ client' = [client EXCEPT ![c] = "open"]
                         /\ cfd' = CHOOSE f \in Fds \ (OpenFds \cup {lfd}) :
                                      \A g \in Fds \ (OpenFds \cup {lfd}) : f <= g
                         /\ fdOf' = [fdOf EXCEPT ![c] = cfd']
  BY DEF Accept
<1>2. cfd' \in Fds /\ cfd' \notin OpenFds /\ cfd' > lfd /\ cfd' # None
  BY <1>1, AcceptGivesFree
<1>3. /\ fdOf'[c] = cfd' /\ \A d \in Conns \ {c} : fdOf'[d] = fdOf[d]
      /\ client'[c] = "open" /\ \A d \in Conns \ {c} : client'[d] = client[d]
      /\ fdOf[c] = None
  BY <1>0, <1>1 DEF TypeOK, OpenInv
<1>4. nready = Cardinality(tempfds) /\ nready > 0 /\ nready \in Nat
      /\ tempfds \subseteq Fds /\ lfd \in tempfds /\ served = {} /\ i = lfd + 1
      /\ tempfds \subseteq readfds /\ pc = "accept"
  <2>1. pc = "accept"
    BY DEF Accept
  <2>2. Pending = tempfds
    BY <1>0, <2>1 DEF RoundInv, Pending
  <2> QED
    BY <1>0, <2>1, <2>2 DEF RoundInv, TypeOK
<1>5. /\ Pending' = tempfds \ {lfd} /\ Pending' \subseteq Fds
      /\ Cardinality(Pending') = nready'
      /\ nready' \in Nat
  <2>1. Pending' = tempfds \ {lfd} /\ nready' = nready - 1
    BY DEF Accept, Pending
  <2>2. Cardinality(tempfds \ {lfd}) = Cardinality(tempfds) - 1
    BY <1>4, CountFds, FS_RemoveElement
  <2> QED
    BY <1>4, <2>1, <2>2, SMT
<1>6. TypeOK'
  <2>1. /\ client' \in [Conns -> {"none", "queued", "open", "closed"}]
        /\ fdOf' \in [Conns -> Fds \cup {None}]
    BY <1>0, <1>1, <1>2, SMT DEF TypeOK
  <2>2. /\ readfds' \subseteq Fds /\ maxfd' \in Fds /\ served' \subseteq Fds
        /\ pc' \in {"select", "scan"}
    BY <1>0, <1>2, FdsFinite DEF Accept, TypeOK
  <2> QED
    BY <1>0, <1>2, <1>5, <2>1, <2>2 DEF Accept, TypeOK
<1>7. FdSets'
  <2>1. OpenFds' = OpenFds \cup {cfd'}
    BY <1>2, <1>3 DEF OpenFds
  <2>2. readfds' = {lfd} \cup OpenFds'
    BY <1>0, <2>1 DEF Accept, FdSets
  <2>3. \A f \in readfds' : f <= maxfd'
    BY <1>0, <1>2, SelectAssumption, SMT DEF Accept, FdSets, TypeOK, Fds, lfd
  <2>4. \A d \in Conns \ {c} : fdOf[d] # cfd'
    BY <1>2 DEF OpenFds
  <2>5. \A d, e \in Conns : fdOf'[d] = fdOf'[e] /\ fdOf'[d] # None => d = e
    BY <1>0, <1>3, <2>4 DEF FdSets
  <2> QED
    BY <2>2, <2>3, <2>5 DEF FdSets
<1>8. OpenInv'
  BY <1>0, <1>2, <1>3 DEF OpenInv
<1>9. RoundInv'
  <2>1. served' = {lfd} /\ tempfds' = tempfds /\ i' = i /\ nready' = nready - 1
        /\ pc' = (IF nready = 1 THEN "select" ELSE "scan")
        /\ readfds \subseteq readfds'
    BY DEF Accept
  <2>2. CASE nready = 1
    <3>1. Pending' = {}
      <4>1. Cardinality(Pending') = 0
        BY <1>5, <2>1, <2>2, SMT
      <4> QED
        BY <1>5, <4>1, CountFds
    <3>2. served' = tempfds'
      BY <1>4, <1>5, <2>1, <3>1
    <3> QED
      BY <2>1, <2>2, <3>2 DEF RoundInv
  <2>3. CASE nready # 1
    <3>1. nready' > 0 /\ nready' = Cardinality(Pending')
      BY <1>4, <1>5, <2>1, <2>3, SMT
    <3>2. \A f \in Pending' : f \in readfds' /\ i' <= f
      <4>1. \A f \in Fds : f # lfd => lfd + 1 <= f
        BY SelectAssumption, SMT DEF Fds, lfd
      <4> QED
        BY <1>4, <1>5, <2>1, <4>1
    <3>3. lfd < i' /\ \A f \in served' : f < i'
      BY <1>4, <2>1, SMT DEF lfd
    <3>4. served' \subseteq tempfds' /\ pc' = "scan"
      BY <1>4, <2>1, <2>3
    <3> QED
      BY <3>1, <3>2, <3>3, <3>4 DEF RoundInv
  <2> QED
    BY <2>2, <2>3
<1> QED
  BY <1>6, <1>7, <1>8, <1>9 DEF SelectInv

(* While the server scans there is a descriptor left to serve, so the scan *)
(* never runs past maxfd.                                                  *)
LEMMA SkipKeeps ==
    ASSUME SelectInv, Skip
    PROVE  SelectInv'
<1>0. TypeOK /\ FdSets /\ OpenInv /\ RoundInv
  BY DEF SelectInv
<1>1. pc = "scan" /\ UNCHANGED <<clientVars, readfds, tempfds, nready, maxfd, cfd, served>>
      /\ i' = i + 1
  BY DEF Skip
<1>2. Pending \subseteq Fds /\ Pending # {} /\ Pending' = Pending
  <2>1. Pending \subseteq Fds
    BY <1>0 DEF TypeOK, Pending
  <2>2. Cardinality(Pending) # 0
    BY <1>0, <1>1, SMT DEF RoundInv, TypeOK
  <2> QED
    BY <1>1, <2>1, <2>2, CountFds DEF Pending
<1>3. /\ \A f \in Pending : f \in Nat /\ i <= f /\ f <= maxfd
      /\ i \in Nat /\ maxfd \in Nat
  <2>1. \A f \in Pending : f \in readfds /\ i <= f
    BY <1>0, <1>1 DEF RoundInv
  <2> QED
    BY <1>0, <1>2, <2>1, FdsFinite DEF FdSets, TypeOK
<1>4. ~(i > maxfd)
  BY <1>2, <1>3, SMT
<1>5. i \notin tempfds /\ pc' = "scan"
  BY <1>4 DEF Skip
<1>6. TypeOK'
  BY <1>0, <1>1, <1>5, SMT DEF TypeOK, clientVars
<1>7. FdSets' /\ OpenInv'
  BY <1>0, <1>1 DEF FdSets, OpenInv, OpenFds, clientVars
<1>8. RoundInv'
  <2>1. \A f \in Pending : f \in readfds /\ i + 1 <= f
    <3>1. \A f \in Pending : f # i /\ f \in readfds /\ i <= f
      BY <1>0, <1>1, <1>5 DEF RoundInv, Pending
    <3> QED
      BY <1>3, <3>1, SMT
  <2>2. lfd < i + 1 /\ \A f \in served : f < i + 1
    <3>1. served \subseteq Nat /\ lfd < i /\ \A f \in served : f < i
      BY <1>0, <1>1, FdsFinite DEF RoundInv, TypeOK
    <3> QED
      BY <1>3, <3>1, SMT DEF lfd
  <2>3. served' \subseteq tempfds' /\ nready' = Cardinality(Pending') /\ nready' > 0
    BY <1>0, <1>1, <1>2 DEF RoundInv
  <2> QED
    BY <1>1, <1>2, <1>5, <2>1, <2>2, <2>3 DEF RoundInv
<1> QED
  BY <1>6, <1>7, <1>8 DEF SelectInv

(* Serving descriptor i takes it off what is left of the round.            *)
LEMMA DoneWithKeepsRound ==
    ASSUME SelectInv, pc = "scan", i \in tempfds, DoneWith,
           tempfds' = tempfds, readfds' \in {readfds, readfds \ {i}}
    PROVE  RoundInv' /\ nready' \in Nat /\ served' \subseteq Fds /\ i' \in Nat
           /\ pc' \in {"select", "scan"}
<1>0. TypeOK /\ RoundInv
  BY DEF SelectInv
<1>1. /\ i \in Nat /\ nready \in Nat /\ nready > 0 /\ lfd < i
      /\ nready = Cardinality(Pending) /\ Pending \subseteq Fds
      /\ \A f \in Pending : f \in readfds /\ i <= f
      /\ served \subseteq Fds /\ served \subseteq tempfds /\ \A f \in served : f < i
      /\ tempfds \subseteq Fds
  BY <1>0 DEF TypeOK, RoundInv, Pending
<1>2. i \in Pending
  BY <1>1, SMT DEF Pending
<1>3. /\ nready' = nready - 1 /\ served' = served \cup {i} /\ i' = i + 1
      /\ pc' = (IF nready = 1 THEN "select" ELSE "scan")
      /\ Pending' = Pending \ {i} /\ Pending' \subseteq Fds
  BY <1>1 DEF DoneWith, Pending
<1>4. Cardinality(Pending') = nready' /\ nready' \in Nat
  <2>1. Cardinality(Pending \ {i}) = Cardinality(Pending) - 1
    BY <1>1, <1>2, CountFds, FS_RemoveElement
  <2> QED
    BY <1>1, <1>3, <2>1, SMT
<1>5. served' \subseteq tempfds' /\ served' \subseteq Fds /\ i' \in Nat
  BY <1>1, <1>3, SMT
<1>6. CASE nready = 1
  <2>1. Pending' = {}
    <3>1. Cardinality(Pending') = 0
      BY <1>3, <1>4, <1>6, SMT
    <3> QED
      BY <1>3, <3>1, CountFds
  <2>2. served' = tempfds'
    BY <1>5, <2>1 DEF Pending
  <2> QED
    BY <1>3, <1>4, <1>5, <1>6, <2>2 DEF RoundInv
<1>7. CASE nready # 1
  <2>1. nready' > 0
    BY <1>1, <1>3, <1>7, SMT
  <2>2. \A f \in Pending' : f \in readfds' /\ i' <= f
    <3>1. \A f \in Pending' : f \in Nat /\ f # i /\ f \in readfds /\ i <= f
      BY <1>1, <1>3, FdsFinite
    <3> QED
      BY <1>1, <1>3, <3>1, SMT
  <2>3. lfd < i' /\ \A f \in served' : f < i'
    <3>1. served \subseteq Nat
      BY <1>1, FdsFinite
    <3> QED
      BY <1>1, <1>3, <3>1, SMT DEF lfd
  <2> QED
    BY <1>3, <1>4, <1>5, <1>7, <2>1, <2>2, <2>3 DEF RoundInv
<1> QED
  BY <1>3, <1>4, <1>5, <1>6, <1>7

LEMMA ServeKeeps ==
    ASSUME SelectInv, NEW c \in Conns, Serve(c)
    PROVE  SelectInv'
<1>0. TypeOK /\ FdSets /\ OpenInv /\ RoundInv
  BY DEF SelectInv
<1>1. /\ pc = "scan" /\ i \in tempfds
      /\ UNCHANGED <<client, sent, shut, fdOf, readfds, tempfds, maxfd, cfd>>
      /\ inbox' \in [Conns -> Nat]
  BY <1>0, SMT DEF Serve, TypeOK
<1>2. FdSets' /\ OpenInv'
  BY <1>0, <1>1 DEF FdSets, OpenInv, OpenFds
<1>3. CASE DoneWith
  <2>1. RoundInv' /\ nready' \in Nat /\ served' \subseteq Fds /\ i' \in Nat
        /\ pc' \in {"select", "scan"}
    BY <1>1, <1>3, DoneWithKeepsRound
  <2>2. TypeOK'
    BY <1>0, <1>1, <2>1 DEF TypeOK
  <2> QED
    BY <1>2, <2>1, <2>2 DEF SelectInv
<1>4. CASE pc' = "dead" /\ UNCHANGED <<nready, served, i>>
  <2>1. TypeOK'
    BY <1>0, <1>1, <1>4 DEF TypeOK
  <2>2. RoundInv'
    BY <1>0, <1>1, <1>4 DEF RoundInv
  <2> QED
    BY <1>2, <2>1, <2>2 DEF SelectInv
<1> QED
  BY <1>3, <1>4 DEF Serve

LEMMA HangUpKeeps ==
    ASSUME SelectInv, NEW c \in Conns, HangUp(c)
    PROVE  SelectInv'
<1>0. TypeOK /\ FdSets /\ OpenInv /\ RoundInv
  BY DEF SelectInv
<1>1. /\ pc = "scan" /\ i \in tempfds /\ fdOf[c] = i /\ DoneWith
      /\ readfds' = readfds \ {i}
      /\ UNCHANGED <<sent, inbox, shut, tempfds, maxfd, cfd>>
      /\ client' = [client EXCEPT ![c] = "closed"]
      /\ fdOf' = [fdOf EXCEPT ![c] = None]
  BY DEF HangUp
<1>2. RoundInv' /\ nready' \in Nat /\ served' \subseteq Fds /\ i' \in Nat
      /\ pc' \in {"select", "scan"}
  BY <1>1, DoneWithKeepsRound
<1>3. TypeOK'
  <2>1. /\ client' \in [Conns -> {"none", "queued", "open", "closed"}]
        /\ fdOf' \in [Conns -> Fds \cup {None}]
    BY <1>0, <1>1, SMT DEF TypeOK
  <2> QED
    BY <1>0, <1>1, <1>2, <2>1 DEF TypeOK
<1>4. /\ fdOf'[c] = None /\ \A d \in Conns \ {c} : fdOf'[d] = fdOf[d]
      /\ client'[c] = "closed" /\ \A d \in Conns \ {c} : client'[d] = client[d]
  BY <1>0, <1>1 DEF TypeOK
<1>5. i # None /\ i # lfd
  <2>1. i \in Fds
    BY <1>0, <1>1 DEF TypeOK
  <2>2. i # None
    BY <2>1, FdsFinite
  <2>3. i > lfd
    BY <1>0, <1>1, <2>2 DEF OpenInv
  <2> QED
    BY <2>2, <2>3, SMT DEF lfd
<1>6. FdSets'
  <2>1. \A d \in Conns \ {c} : fdOf[d] # i
    BY <1>0, <1>1, <1>5 DEF FdSets
  <2>2. OpenFds' = OpenFds \ {i}
    BY <1>1, <1>4, <2>1 DEF OpenFds
  <2>3. readfds' = {lfd} \cup OpenFds'
    BY <1>0, <1>1, <1>5, <2>2 DEF FdSets
  <2>4. \A f \in readfds' : f <= maxfd'
    BY <1>0, <1>1 DEF FdSets
  <2>5. \A d, e \in Conns : fdOf'[d] = fdOf'[e] /\ fdOf'[d] # None => d = e
    BY <1>0, <1>4 DEF FdSets
  <2> QED
    BY <2>3, <2>4, <2>5 DEF FdSets
<1>7. OpenInv'
  BY <1>0, <1>4 DEF OpenInv
<1> QED
  BY <1>2, <1>3, <1>6, <1>7 DEF SelectInv

LEMMA SelectInvStep == SelectInv /\ [Next]_vars => SelectInv'
<1> SUFFICES ASSUME SelectInv, [Next]_vars PROVE SelectInv'
  OBVIOUS
<1>1. CASE UNCHANGED vars
  BY <1>1 DEF vars, clientVars, serverVars, SelectInv, TypeOK, FdSets, OpenInv,
     RoundInv, OpenFds, Pending
<1> QED
  BY <1>1, ClientKeeps, SelectKeeps, AcceptKeeps, SkipKeeps, ServeKeeps, HangUpKeeps
     DEF Next, Server

LEMMA SelectInvariant == Spec => []SelectInv
BY SelectInvInit, SelectInvStep, PTL DEF Spec

(* select watches the listening socket and the open connections, and all   *)
(* lie below maxfd, for any number of connections and in any order.        *)
THEOREM SetsCorrect == Spec => []SetsOK
<1>1. SelectInv => SetsOK
  BY DEF SelectInv, SetsOK
<1> QED
  BY <1>1, SelectInvariant, PTL

(* A round ends when, and not before, each descriptor that select reported *)
(* has been served; the scan never passes one by.                          *)
THEOREM RoundsComplete == Spec => []RoundComplete
<1>1. SelectInv => RoundComplete
  BY DEF SelectInv, RoundInv, RoundComplete, Pending
<1> QED
  BY <1>1, SelectInvariant, PTL
=============================================================================
