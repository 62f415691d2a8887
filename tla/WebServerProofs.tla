-------------------------- MODULE WebServerProofs ---------------------------
(***************************************************************************)
(* What is proved of WebServer, for any number of connections and any      *)
(* sizes of the buffers: nothing is left in the buffer all connections     *)
(* share when a callback returns, and each request that is answered is one *)
(* piece of what its own client has sent.                                  *)
(***************************************************************************)
EXTENDS WebServer, SequenceTheorems, WellFoundedInduction, TLAPS

(* How much of the input of the running callback's connection lies before  *)
(* the line that is being read.                                            *)
Pos == taken[cb.conn] - Len(read_buf) - Len(line)

Phases == {"idle", "first", "drain", "answer"}

(* Nothing is read ahead outside the two loops of Readline, and nothing    *)
(* ever by the echo server.                                                *)
CbInv ==
    /\ cb \in [conn : Conns \cup {None}, phase : Phases]
    /\ cb.phase = "idle" => cb = Idle
    /\ cb.phase # "idle" => cb.conn \in Conns
    /\ cb.phase \in {"drain", "answer"} => kind = "web"
    /\ cb.phase \in {"idle", "answer"} \/ kind = "echo" => read_buf = <<>> /\ line = <<>>

SizeInv ==
    /\ taken \in [Conns -> Nat]
    /\ \A c \in Conns : Len(stream[c]) <= MaxSend
    /\ Len(line) < MaxLine - 1

(* What has been read is the line so far, in which there is no newline,    *)
(* and after it what has been read ahead.                                  *)
LineInv == cb.phase # "idle" =>
    /\ Pos >= 0
    /\ \A j \in 1 .. Len(line) : /\ line[j] = [conn |-> cb.conn, k |-> Pos + j]
                                 /\ ~Newline(line[j])
    /\ \A j \in 1 .. Len(read_buf) :
          read_buf[j] = [conn |-> cb.conn, k |-> Pos + Len(line) + j]

(* The request is a piece of the input before it.                          *)
RequestInv == cb.phase \in {"drain", "answer"} =>
    /\ request # <<>>
    /\ \A j \in 1 .. Len(request) :
          /\ request[j] = [conn |-> cb.conn, k |-> request[1].k + j - 1]
          /\ Newline(request[j]) => j = Len(request)
    /\ request[Len(request)].k <= Pos

(* How far the requests answered before reach.                             *)
Limit(c) ==
    IF cb.phase = "idle" \/ c # cb.conn THEN taken[c]
    ELSE IF cb.phase = "first" THEN Pos ELSE request[1].k - 1

LimitInv == \A c \in Conns : \A a \in 1 .. Len(answers[c]) :
    answers[c][a][Len(answers[c][a])].k <= Limit(c)

ReadInv == CbInv /\ SizeInv /\ LineInv /\ RequestInv
WebInv == TypeOK /\ ReadInv /\ RequestIntact /\ LimitInv
-----------------------------------------------------------------------------
LEMMA LeastNumber ==
    ASSUME NEW T \in SUBSET Nat, T # {}
    PROVE  \E m \in T : \A n \in T : m <= n
<1> DEFINE R == OpToRel(<, Nat)
<1>1. IsWellFoundedOn(R, Nat)
  BY NatLessThanWellFounded, Zenon
<1>2. \A a, b \in Nat : a < b => <<a, b>> \in R
  BY DEF OpToRel
<1> HIDE DEF R
<1>3. PICK m \in T : \A n \in T : ~ (<<n, m>> \in R)
  BY <1>1, WFMin
<1>4. ASSUME NEW n \in T PROVE m <= n
  <2>1. ~ (n < m) /\ m \in Nat /\ n \in Nat
    BY <1>2, <1>3, Zenon
  <2> QED
    BY <2>1, SMT
<1> QED
  BY <1>4

(* The places of the characters, as numbers.                               *)
LEMMA Places ==
    ASSUME WebInv
    PROVE  /\ \A c \in Conns : taken[c] \in Nat /\ Len(stream[c]) \in Nat
                               /\ taken[c] <= Len(stream[c]) /\ Len(stream[c]) <= MaxSend
           /\ Len(line) \in Nat /\ Len(read_buf) \in Nat
           /\ cb.conn \in Conns => Pos \in Int /\ Pos <= taken[cb.conn]
                                   /\ Pos + Len(line) + Len(read_buf) = taken[cb.conn]
           /\ cb.phase \in {"drain", "answer"} =>
                 /\ Len(request) \in Nat \ {0}
                 /\ request[1].k \in Nat \ {0}
                 /\ request[1].k + Len(request) - 1 <= Pos
<1>1. /\ \A c \in Conns : taken[c] \in Nat /\ Len(stream[c]) \in Nat
                          /\ taken[c] <= Len(stream[c]) /\ Len(stream[c]) <= MaxSend
      /\ Len(line) \in Nat /\ Len(read_buf) \in Nat
  BY DEF WebInv, ReadInv, TypeOK, SizeInv
<1>2. cb.conn \in Conns => Pos \in Int /\ Pos <= taken[cb.conn]
                           /\ Pos + Len(line) + Len(read_buf) = taken[cb.conn]
  BY <1>1, SMT DEF Pos
<1>3. ASSUME cb.phase \in {"drain", "answer"}
      PROVE  /\ Len(request) \in Nat \ {0}
             /\ request[1].k \in Nat \ {0}
             /\ request[1].k + Len(request) - 1 <= Pos
  <2>1. request \in Seq(Chars) /\ request # <<>>
    BY <1>3 DEF WebInv, ReadInv, TypeOK, RequestInv
  <2>2. Len(request) \in Nat \ {0} /\ 1 \in 1 .. Len(request) /\ Len(request) \in 1 .. Len(request)
    BY <2>1
  <2>3. request[1] \in Chars
    BY <2>1, <2>2
  <2>4. request[Len(request)].k = request[1].k + Len(request) - 1
    <3>1. \A j \in 1 .. Len(request) :
             request[j] = [conn |-> cb.conn, k |-> request[1].k + j - 1]
      BY <1>3 DEF WebInv, ReadInv, RequestInv
    <3>2. request[Len(request)]
              = [conn |-> cb.conn, k |-> request[1].k + Len(request) - 1]
      BY <2>2, <3>1, Zenon
    <3> QED
      BY <3>2
  <2>5. request[Len(request)].k <= Pos
    BY <1>3 DEF WebInv, ReadInv, RequestInv
  <2> QED
    BY <2>2, <2>3, <2>4, <2>5, WebAssumption DEF Chars
<1> QED
  BY <1>1, <1>2, <1>3

LEMMA LimitType ==
    ASSUME WebInv, NEW c \in Conns
    PROVE  Limit(c) \in Int /\ Limit(c) <= taken[c]
<1>1. cb.phase \in Phases
  BY DEF WebInv, ReadInv, CbInv
<1> QED
  BY <1>1, Places, SMTT(30) DEF Limit, Phases

(* RequestIntact, one answer at a time.                                    *)
Intact(c, a) ==
    /\ answers[c][a] # <<>>
    /\ \A j \in 1 .. Len(answers[c][a]) :
          /\ answers[c][a][j] = [conn |-> c, k |-> answers[c][a][1].k + j - 1]
          /\ kind = "web" /\ Newline(answers[c][a][j]) => j = Len(answers[c][a])
    /\ a > 1 => answers[c][a][1].k > answers[c][a - 1][Len(answers[c][a - 1])].k

LEMMA IntactAll == RequestIntact <=> \A c \in Conns : \A a \in 1 .. Len(answers[c]) : Intact(c, a)
BY Zenon DEF RequestIntact, Intact

LEMMA IntactNext ==
    ASSUME \A c \in Conns : \A a \in 1 .. Len(answers'[c]) : Intact(c, a)'
    PROVE  RequestIntact'
BY Zenon DEF RequestIntact, Intact

(* What makes the a-th answer to c a piece t of the input, after a step.   *)
LEMMA IntactThen ==
    ASSUME NEW c, NEW a, NEW t, t = answers'[c][a],
           t # <<>>,
           \A j \in 1 .. Len(t) :
              /\ t[j] = [conn |-> c, k |-> t[1].k + j - 1]
              /\ kind' = "web" /\ stream'[t[j].conn][t[j].k] => j = Len(t),
           a > 1 => t[1].k > answers'[c][a - 1][Len(answers'[c][a - 1])].k
    PROVE  Intact(c, a)'
BY Zenon DEF Intact, Newline

LEMMA LastOfAnswer ==
    ASSUME WebInv, NEW c \in Conns, NEW a \in 1 .. Len(answers[c])
    PROVE  LET req == answers[c][a]
           IN  /\ Len(req) \in Nat \ {0} /\ req[1].k \in Nat \ {0}
               /\ req[Len(req)].k = req[1].k + Len(req) - 1
               /\ req[1].k + Len(req) - 1 <= Limit(c)
<1> DEFINE req == answers[c][a]
<1>1. req \in Seq(Chars) /\ req # <<>>
  <2>1. answers \in [Conns -> Seq(Seq(Chars))]
    BY DEF WebInv, TypeOK
  <2>2. req # <<>>
    BY IntactAll DEF WebInv, Intact
  <2> QED
    BY <2>1, <2>2
<1>2. Len(req) \in Nat \ {0} /\ 1 \in 1 .. Len(req) /\ Len(req) \in 1 .. Len(req)
  BY <1>1
<1>3. req[1] \in Chars
  BY <1>1, <1>2
<1>4. req[Len(req)] = [conn |-> c, k |-> req[1].k + Len(req) - 1]
  BY <1>2, IntactAll DEF WebInv, Intact
<1>5. req[Len(req)].k <= Limit(c)
  BY DEF WebInv, LimitInv
<1> QED
  BY <1>2, <1>3, <1>4, <1>5, WebAssumption DEF Chars

(* Steps that answer nothing and do not go back.                           *)
LEMMA SameAnswers ==
    ASSUME WebInv, answers' = answers, kind' = kind, stream' = stream,
           \A c \in Conns : Limit(c)' \in Int /\ Limit(c) <= Limit(c)'
    PROVE  RequestIntact' /\ LimitInv'
<1>1. RequestIntact'
  <2>1. ASSUME NEW c \in Conns, NEW a \in 1 .. Len(answers[c]) PROVE Intact(c, a)'
    BY IntactAll DEF WebInv, Intact, Newline
  <2> QED
    BY <2>1, IntactNext
<1>2. ASSUME NEW c \in Conns, NEW a \in 1 .. Len(answers[c])
      PROVE  answers[c][a][Len(answers[c][a])].k <= Limit(c)'
  <2>1. answers[c][a][Len(answers[c][a])].k \in Int
    <3> DEFINE req == answers[c][a]
    <3>1. /\ Len(req) \in Nat \ {0} /\ req[1].k \in Nat \ {0}
          /\ req[Len(req)].k = req[1].k + Len(req) - 1
      BY LastOfAnswer
    <3> HIDE DEF req
    <3>2. req[Len(req)].k \in Int
      BY <3>1, SMT
    <3> QED
      BY <3>2 DEF req
  <2>2. answers[c][a][Len(answers[c][a])].k <= Limit(c)
    BY DEF WebInv, LimitInv
  <2> QED
    BY <2>1, <2>2, LimitType, SMT
<1> QED
  BY <1>1, <1>2 DEF LimitInv

(* Steps that leave all that is being read alone.                          *)
LEMMA SameReading ==
    ASSUME WebInv, TypeOK', UNCHANGED <<kind, stream, readVars, cb, request, answers>>
    PROVE  WebInv'
<1>1. Pos' = Pos /\ \A c \in Conns : Limit(c)' = Limit(c)
  BY DEF Pos, Limit, readVars
<1>2. RequestIntact' /\ LimitInv'
  <2>1. \A c \in Conns : Limit(c)' \in Int /\ Limit(c) <= Limit(c)'
    BY <1>1, LimitType
  <2> QED
    BY <2>1, SameAnswers
<1>3. CbInv' /\ SizeInv'
  BY DEF WebInv, ReadInv, CbInv, SizeInv, readVars
<1>4. LineInv' /\ RequestInv'
  BY <1>1 DEF WebInv, ReadInv, LineInv, RequestInv, Newline, readVars
<1> QED
  BY <1>2, <1>3, <1>4 DEF WebInv, ReadInv

LEMMA InitGood == Init => WebInv
<1> SUFFICES ASSUME Init PROVE WebInv
  OBVIOUS
<1>1. cb.phase = "idle" /\ cb = Idle /\ line = <<>> /\ read_buf = <<>> /\ request = <<>>
  BY DEF Init, Idle
<1>2. TypeOK
  <2>1. /\ stream \in [Conns -> Seq(BOOLEAN)] /\ answers \in [Conns -> Seq(Seq(Chars))]
        /\ line \in Seq(Chars) /\ read_buf \in Seq(Chars) /\ request \in Seq(Chars)
        /\ Len(line) = 0 /\ \A c \in Conns : Len(stream[c]) = 0
    BY <1>1, EmptySeq DEF Init
  <2>2. \A c \in Conns : taken[c] \in 0 .. Len(stream[c])
    BY <2>1 DEF Init
  <2>3. fdOf \in [Conns -> Fds \cup {None}] /\ regs \in [Fds -> Nat] /\ watched \subseteq Fds
    BY DEF Init
  <2>4. /\ client \in [Conns -> {"none", "queued", "open", "closed"}]
        /\ shut \in [Conns -> BOOLEAN] /\ kind \in Kinds /\ up \in BOOLEAN
    BY DEF Init
  <2>5. Len(line) < MaxLine /\ Len(read_buf) < BufSize /\ Len(request) < MaxLine
    BY <1>1, <2>1, WebAssumption
  <2> QED
    BY <1>1, <2>1, <2>2, <2>3, <2>4, <2>5 DEF TypeOK, Idle
<1>3. CbInv
  BY <1>1 DEF CbInv, Idle, Phases
<1>4. SizeInv
  BY <1>1, EmptySeq, WebAssumption DEF Init, SizeInv
<1>5. LineInv /\ RequestInv
  BY <1>1 DEF LineInv, RequestInv
<1>6. RequestIntact /\ LimitInv
  BY EmptySeq DEF Init, RequestIntact, LimitInv
<1> QED
  BY <1>2, <1>3, <1>4, <1>5, <1>6 DEF WebInv, ReadInv
-----------------------------------------------------------------------------
(* The clients' steps, and those of the server that read nothing.          *)
LEMMA ConnectKeeps ==
    ASSUME WebInv, NEW c \in Conns, Connect(c)
    PROVE  WebInv'
<1>1. /\ UNCHANGED <<kindVars, clientVars, fdOf, regs, watched, readVars, cb, request, answers>>
      /\ client' = [client EXCEPT ![c] = "queued"]
  BY DEF Connect
<1>2. client' \in [Conns -> {"none", "queued", "open", "closed"}]
  BY <1>1 DEF WebInv, TypeOK
<1>3. TypeOK'
  BY <1>1, <1>2 DEF WebInv, TypeOK, kindVars, clientVars, readVars
<1> QED
  BY <1>1, <1>3, SameReading DEF kindVars, clientVars

LEMMA ShutKeeps ==
    ASSUME WebInv, NEW c \in Conns, Shut(c)
    PROVE  WebInv'
<1>1. /\ UNCHANGED <<kindVars, stream, eventVars, readVars, cb, request, answers>>
      /\ shut' = [shut EXCEPT ![c] = TRUE]
  BY DEF Shut
<1>2. shut' \in [Conns -> BOOLEAN]
  BY <1>1 DEF WebInv, TypeOK
<1>3. TypeOK'
  BY <1>1, <1>2 DEF WebInv, TypeOK, kindVars, eventVars, readVars
<1> QED
  BY <1>1, <1>3, SameReading DEF kindVars

LEMMA AcceptKeeps ==
    ASSUME WebInv, NEW c \in Conns, Accept(c)
    PROVE  WebInv'
<1> DEFINE fd == CHOOSE f \in FreeFds : \A g \in FreeFds : f <= g
<1>1. /\ FreeFds # {} /\ client' = [client EXCEPT ![c] = "open"]
      /\ fdOf' = [fdOf EXCEPT ![c] = fd] /\ regs' = [regs EXCEPT ![fd] = @ + 1]
      /\ watched' = IF regs[fd] = 0 THEN watched \cup {fd} ELSE watched
      /\ UNCHANGED <<kindVars, clientVars, readVars, cb, request, answers>>
  BY DEF Accept
<1>2. FreeFds \in SUBSET Nat /\ FreeFds \subseteq Fds
  BY WebAssumption DEF FreeFds, Fds
<1>3. fd \in Fds
  <2>1. \E f \in FreeFds : \A g \in FreeFds : f <= g
    BY <1>1, <1>2, LeastNumber
  <2> QED
    BY <1>2, <2>1
<1> HIDE DEF fd
<1>4. /\ client' \in [Conns -> {"none", "queued", "open", "closed"}]
      /\ fdOf' \in [Conns -> Fds \cup {None}]
      /\ regs' \in [Fds -> Nat] /\ watched' \subseteq Fds
  BY <1>1, <1>3 DEF WebInv, TypeOK
<1>5. TypeOK'
  BY <1>1, <1>4 DEF WebInv, TypeOK, kindVars, clientVars, readVars
<1> QED
  BY <1>1, <1>5, SameReading DEF kindVars, clientVars

LEMMA DispatchKeeps ==
    ASSUME WebInv, NEW c \in Conns, Dispatch(c)
    PROVE  WebInv'
<1>1. /\ cb = Idle /\ cb' = [conn |-> c, phase |-> "first"]
      /\ UNCHANGED <<kindVars, clientVars, eventVars, readVars, request, answers>>
  BY DEF Dispatch
<1>2. cb.phase = "idle" /\ line = <<>> /\ read_buf = <<>>
  BY <1>1 DEF WebInv, ReadInv, CbInv, Idle
<1>3. TypeOK'
  BY <1>1 DEF WebInv, TypeOK, kindVars, clientVars, eventVars, readVars
<1>4. CbInv' /\ SizeInv' /\ RequestInv'
  BY <1>1, <1>2 DEF WebInv, ReadInv, CbInv, SizeInv, RequestInv, clientVars, readVars, kindVars, Phases
<1>5. Pos' = taken[c] /\ taken[c] \in Nat
  <2>1. Len(line) = 0 /\ Len(read_buf) = 0
    BY <1>2, EmptySeq
  <2>2. Pos' = taken[c] - Len(read_buf) - Len(line)
    BY <1>1 DEF Pos, readVars
  <2> QED
    BY <2>1, <2>2, Places, SMT
<1>6. LineInv'
  <2>1. line' = <<>> /\ read_buf' = <<>> /\ Len(line') = 0 /\ Len(read_buf') = 0
    BY <1>1, <1>2, EmptySeq DEF readVars
  <2> QED
    BY <1>5, <2>1 DEF LineInv
<1>7. \A d \in Conns : Limit(d)' = taken[d] /\ Limit(d) = taken[d]
  BY <1>1, <1>2, <1>5 DEF Limit, readVars
<1>8. RequestIntact' /\ LimitInv'
  <2>1. \A d \in Conns : Limit(d)' \in Int /\ Limit(d) <= Limit(d)'
    BY <1>7, LimitType
  <2> QED
    BY <1>1, <2>1, SameAnswers DEF kindVars, clientVars
<1> QED
  BY <1>3, <1>4, <1>6, <1>8 DEF WebInv, ReadInv

(* What a client sends comes after all that has been read.                 *)
LEMMA SendKeeps ==
    ASSUME WebInv, NEW c \in Conns, Send(c)
    PROVE  WebInv'
<1>1. PICK nl \in BOOLEAN : stream' = [stream EXCEPT ![c] = Append(@, nl)]
  BY DEF Send
<1>2. /\ Len(stream[c]) < MaxSend
      /\ UNCHANGED <<kindVars, shut, eventVars, readVars, cb, request, answers>>
  BY DEF Send
<1>3. stream \in [Conns -> Seq(BOOLEAN)]
  BY DEF WebInv, TypeOK
<1>4. /\ stream'[c] \in Seq(BOOLEAN) /\ Len(stream'[c]) = Len(stream[c]) + 1
      /\ \A i \in 1 .. Len(stream[c]) : stream'[c][i] = stream[c][i]
      /\ \A d \in Conns \ {c} : stream'[d] = stream[d]
      /\ stream' \in [Conns -> Seq(BOOLEAN)]
  <2>1. /\ Append(stream[c], nl) \in Seq(BOOLEAN)
        /\ Len(Append(stream[c], nl)) = Len(stream[c]) + 1
        /\ \A i \in 1 .. Len(stream[c]) : Append(stream[c], nl)[i] = stream[c][i]
    BY <1>3, AppendProperties
  <2> QED
    BY <1>1, <1>3, <2>1
<1>5. /\ \A d \in Conns : taken[d] \in 0 .. Len(stream'[d]) /\ Len(stream'[d]) <= MaxSend
      /\ \A d \in Conns : \A i \in 1 .. taken[d] : stream'[d][i] = stream[d][i]
  <2> SUFFICES ASSUME NEW d \in Conns
               PROVE  /\ taken[d] \in 0 .. Len(stream'[d]) /\ Len(stream'[d]) <= MaxSend
                      /\ \A i \in 1 .. taken[d] : stream'[d][i] = stream[d][i]
    OBVIOUS
  <2>1. /\ taken[d] \in Nat /\ Len(stream[d]) \in Nat /\ taken[d] <= Len(stream[d])
        /\ Len(stream[d]) <= MaxSend
    BY Places
  <2>2. CASE d = c
    <3>1. \A i \in 1 .. taken[c] : i \in 1 .. Len(stream[c])
      BY <2>1, <2>2, SMT
    <3>2. taken[c] \in 0 .. Len(stream[c]) + 1 /\ Len(stream[c]) + 1 <= MaxSend
      BY <1>2, <2>1, <2>2, WebAssumption, SMT
    <3>3. taken[c] \in 0 .. Len(stream'[c]) /\ Len(stream'[c]) <= MaxSend
      <4>1. Len(stream'[c]) = Len(stream[c]) + 1
        BY <1>4
      <4> QED
        BY <3>2, <4>1, Zenon
    <3> QED
      BY <1>4, <2>2, <3>1, <3>3, Zenon
  <2>3. CASE d # c
    BY <1>4, <2>1, <2>3
  <2> QED
    BY <2>2, <2>3
<1>6. TypeOK'
  BY <1>2, <1>4, <1>5 DEF WebInv, TypeOK, kindVars, eventVars, readVars
<1>7. CbInv' /\ SizeInv'
  BY <1>2, <1>5 DEF WebInv, ReadInv, CbInv, SizeInv, kindVars, readVars
<1>8. Pos' = Pos /\ \A d \in Conns : Limit(d)' = Limit(d)
  BY <1>2 DEF Pos, Limit, readVars
\* A character read already is what it was.
<1> DEFINE NewlineNow(ch) == stream'[ch.conn][ch.k]
<1>9. \A d \in Conns : \A i \in 1 .. taken[d] :
         NewlineNow([conn |-> d, k |-> i]) = Newline([conn |-> d, k |-> i])
  BY <1>5 DEF Newline
<1> HIDE DEF NewlineNow
<1>10. LineInv'
  <2> SUFFICES ASSUME cb.phase # "idle"
      PROVE  /\ Pos >= 0
             /\ \A j \in 1 .. Len(line) : /\ line[j] = [conn |-> cb.conn, k |-> Pos + j]
                                          /\ ~NewlineNow(line[j])
             /\ \A j \in 1 .. Len(read_buf) :
                   read_buf[j] = [conn |-> cb.conn, k |-> Pos + Len(line) + j]
    BY <1>2, <1>8 DEF LineInv, readVars, Newline, NewlineNow
  <2>1. /\ Pos >= 0
        /\ \A j \in 1 .. Len(line) : /\ line[j] = [conn |-> cb.conn, k |-> Pos + j]
                                     /\ ~Newline(line[j])
        /\ \A j \in 1 .. Len(read_buf) :
              read_buf[j] = [conn |-> cb.conn, k |-> Pos + Len(line) + j]
    BY DEF WebInv, ReadInv, LineInv
  <2>2. cb.conn \in Conns
    BY DEF WebInv, ReadInv, CbInv
  <2>3. \A j \in 1 .. Len(line) : Pos + j \in 1 .. taken[cb.conn]
    BY <2>1, <2>2, Places, SMT
  <2>4. \A j \in 1 .. Len(line) : ~NewlineNow(line[j])
    <3> TAKE j \in 1 .. Len(line)
    <3>1. NewlineNow([conn |-> cb.conn, k |-> Pos + j]) = Newline([conn |-> cb.conn, k |-> Pos + j])
      BY <1>9, <2>2, <2>3, Zenon
    <3> QED
      BY <2>1, <3>1, Zenon
  <2> QED
    BY <2>1, <2>4, Zenon
<1>11. RequestInv'
  <2> SUFFICES ASSUME cb.phase \in {"drain", "answer"}
      PROVE  /\ request # <<>>
             /\ \A j \in 1 .. Len(request) :
                   /\ request[j] = [conn |-> cb.conn, k |-> request[1].k + j - 1]
                   /\ NewlineNow(request[j]) => j = Len(request)
             /\ request[Len(request)].k <= Pos
    BY <1>2, <1>8 DEF RequestInv, Newline, NewlineNow
  <2>1. /\ request # <<>>
        /\ \A j \in 1 .. Len(request) :
              /\ request[j] = [conn |-> cb.conn, k |-> request[1].k + j - 1]
              /\ Newline(request[j]) => j = Len(request)
        /\ request[Len(request)].k <= Pos
    BY DEF WebInv, ReadInv, RequestInv
  <2>2. cb.conn \in Conns
    BY DEF WebInv, ReadInv, CbInv
  <2>3. \A j \in 1 .. Len(request) : request[1].k + j - 1 \in 1 .. taken[cb.conn]
    BY <2>2, Places, SMTT(30)
  <2>4. \A j \in 1 .. Len(request) : NewlineNow(request[j]) = Newline(request[j])
    <3> TAKE j \in 1 .. Len(request)
    <3>1. NewlineNow([conn |-> cb.conn, k |-> request[1].k + j - 1])
              = Newline([conn |-> cb.conn, k |-> request[1].k + j - 1])
      BY <1>9, <2>2, <2>3, Zenon
    <3> QED
      BY <2>1, <3>1, Zenon
  <2> QED
    BY <2>1, <2>4, Zenon
<1>12. RequestIntact'
  <2> SUFFICES ASSUME NEW d \in Conns, NEW a \in 1 .. Len(answers[d]) PROVE Intact(d, a)'
    BY <1>2, IntactNext
  <2> DEFINE req == answers[d][a]
  <2>1. Intact(d, a)
    BY IntactAll DEF WebInv
  <2>2. \A j \in 1 .. Len(req) : req[1].k + j - 1 \in 1 .. taken[d]
    <3>1. /\ Len(req) \in Nat \ {0} /\ req[1].k \in Nat \ {0}
          /\ req[1].k + Len(req) - 1 <= Limit(d)
      BY LastOfAnswer
    <3> HIDE DEF req
    <3>2. Limit(d) \in Int /\ Limit(d) <= taken[d] /\ taken[d] \in Nat
      BY LimitType, Places
    <3> QED
      BY <3>1, <3>2, SMT
  <2>3. \A j \in 1 .. Len(req) : NewlineNow(req[j]) = Newline(req[j])
    <3> TAKE j \in 1 .. Len(req)
    <3>1. NewlineNow([conn |-> d, k |-> req[1].k + j - 1])
              = Newline([conn |-> d, k |-> req[1].k + j - 1])
      BY <1>9, <2>2, Zenon
    <3>2. req[j] = [conn |-> d, k |-> req[1].k + j - 1]
      BY <2>1, Zenon DEF Intact
    <3> QED
      BY <3>1, <3>2, Zenon
  <2> QED
    BY <1>2, <2>1, <2>3 DEF Intact, kindVars, Newline, NewlineNow
<1>13. LimitInv'
  BY <1>2, <1>8 DEF WebInv, LimitInv
<1> QED
  BY <1>6, <1>7, <1>10, <1>11, <1>12, <1>13 DEF WebInv, ReadInv
-----------------------------------------------------------------------------
(* Readline.  What a call of my_read leaves behind: n more characters of   *)
(* the line are taken, the others are in the buffer.                       *)
Taken(n) ==
    /\ taken' \in [Conns -> Nat]
    /\ \A c \in Conns : taken[c] <= taken'[c] /\ taken'[c] <= Len(stream[c])
    /\ \A c \in Conns \ {cb.conn} : taken'[c] = taken[c]
    /\ read_buf' \in Seq(Chars) /\ Len(read_buf') < BufSize
    /\ taken'[cb.conn] - Len(read_buf') = Pos + n
    /\ \A j \in 1 .. Len(read_buf') : read_buf'[j] = [conn |-> cb.conn, k |-> Pos + n + j]

Reading == kind = "web" /\ cb.phase \in {"first", "drain"} /\ UNCHANGED <<kindVars, clientVars, answers>>

(* A line s that may be the end of one.                                    *)
ALine(s) ==
    /\ s \in Seq(Chars) /\ s # <<>> /\ Len(s) < MaxLine
    /\ \A j \in 1 .. Len(s) : /\ s[j] = [conn |-> cb.conn, k |-> Pos + j]
                              /\ Newline(s[j]) => j = Len(s)

LEMMA ReadingIn ==
    ASSUME WebInv, Reading
    PROVE  cb.conn \in Conns /\ cb \in [conn : Conns, phase : Phases] /\ Pos \in Nat
<1>1. cb.phase # "idle" /\ cb \in [conn : Conns \cup {None}, phase : Phases] /\ cb.conn \in Conns
  BY DEF Reading, WebInv, ReadInv, CbInv
<1>2. Pos >= 0 /\ Pos \in Int
  BY <1>1, Places DEF WebInv, ReadInv, LineInv
<1> QED
  BY <1>1, <1>2

(* The line ends: a request, or one more to throw away.                    *)
LEMMA LineEnds ==
    ASSUME WebInv, Reading, NEW s, ALine(s), Taken(Len(s)), GotLine(s)
    PROVE  WebInv'
<1>1. /\ request' = IF cb.phase = "first" THEN s ELSE request
      /\ cb' = [cb EXCEPT !.phase = "drain"] /\ line' = <<>>
      /\ UNCHANGED eventVars
      /\ UNCHANGED <<kindVars, clientVars, answers>>
  BY DEF GotLine, Reading
<1>2. /\ cb.conn \in Conns /\ cb'.conn = cb.conn /\ cb'.phase = "drain"
      /\ cb' \in [conn : Conns, phase : Phases] /\ Pos \in Nat
  BY <1>1, ReadingIn DEF Phases
<1>3. Len(s) \in Nat \ {0} /\ s \in Seq(Chars) /\ 1 \in 1 .. Len(s) /\ Len(s) \in 1 .. Len(s)
  BY DEF ALine
<1>4. Len(line') = 0 /\ line' \in Seq(Chars)
  BY <1>1, EmptySeq
<1>5. Pos' = Pos + Len(s)
  <2>1. Pos' = taken'[cb.conn] - Len(read_buf') - 0
    BY <1>2, <1>4 DEF Pos
  <2>2. taken'[cb.conn] - Len(read_buf') = Pos + Len(s)
    BY DEF Taken
  <2> QED
    BY <1>2, <1>3, <2>1, <2>2, SMT
<1>6. TypeOK'
  <2>1. \A c \in Conns : taken'[c] \in 0 .. Len(stream[c])
    BY Places DEF Taken
  <2>2. request' \in Seq(Chars) /\ Len(request') < MaxLine
    BY <1>1 DEF WebInv, TypeOK, ALine
  <2>3. Len(line') < MaxLine
    BY <1>4, WebAssumption
  <2>4. read_buf' \in Seq(Chars) /\ Len(read_buf') < BufSize
    BY DEF Taken
  <2> QED
    BY <1>1, <1>2, <1>4, <2>1, <2>2, <2>3, <2>4
    DEF WebInv, TypeOK, kindVars, clientVars, eventVars, Phases
<1>7. CbInv' /\ SizeInv'
  <2>1. CbInv'
    BY <1>1, <1>2 DEF Reading, CbInv, kindVars
  <2>2. SizeInv'
    BY <1>1, <1>4, WebAssumption DEF Taken, WebInv, ReadInv, SizeInv, clientVars
  <2> QED
    BY <2>1, <2>2
<1>8. LineInv'
  <2>1. Pos' >= 0
    BY <1>2, <1>3, <1>5, SMT
  <2>2. \A j \in 1 .. Len(read_buf') :
           read_buf'[j] = [conn |-> cb'.conn, k |-> Pos' + Len(line') + j]
    <3> TAKE j \in 1 .. Len(read_buf')
    <3>1. read_buf'[j] = [conn |-> cb.conn, k |-> Pos + Len(s) + j]
      BY DEF Taken
    <3>2. j \in Int
      OBVIOUS
    <3>3. Pos' + Len(line') + j = Pos + Len(s) + j
      BY <1>2, <1>3, <1>4, <1>5, <3>2, SMT
    <3> QED
      BY <1>2, <3>1, <3>3, Zenon
  <2> QED
    BY <1>4, <2>1, <2>2 DEF LineInv
<1>9. CASE cb.phase = "first"
  <2>1. request' = s
    BY <1>1, <1>9
  <2>2. s[1].k = Pos + 1 /\ s[Len(s)].k = Pos + Len(s)
    <3>1. \A j \in 1 .. Len(s) : s[j] = [conn |-> cb.conn, k |-> Pos + j]
      BY DEF ALine
    <3>2. /\ s[1] = [conn |-> cb.conn, k |-> Pos + 1]
          /\ s[Len(s)] = [conn |-> cb.conn, k |-> Pos + Len(s)]
      BY <1>3, <3>1, Zenon
    <3> QED
      BY <3>2
  <2>3. RequestInv'
    <3>1. ASSUME NEW j \in 1 .. Len(s)
          PROVE  s[j] = [conn |-> cb.conn, k |-> s[1].k + j - 1]
      <4>1. s[j] = [conn |-> cb.conn, k |-> Pos + j]
        BY DEF ALine
      <4>2. s[1].k + j - 1 = Pos + j
        BY <1>2, <2>2, SMT
      <4> QED
        BY <4>1, <4>2, Zenon
    <3>2. \A j \in 1 .. Len(s) : stream[s[j].conn][s[j].k] => j = Len(s)
      BY DEF ALine, Newline
    <3>3. s[Len(s)].k <= Pos'
      BY <1>2, <1>3, <1>5, <2>2, SMT
    <3>4. s # <<>>
      BY DEF ALine
    <3> QED
      BY <1>1, <1>2, <2>1, <3>1, <3>2, <3>3, <3>4 DEF RequestInv, Newline, clientVars
  <2>4. ASSUME NEW c \in Conns PROVE Limit(c)' \in Int /\ Limit(c) <= Limit(c)'
    <3>1. CASE c = cb.conn
      <4>1. Limit(c) = Pos /\ Limit(c)' = s[1].k - 1
        BY <1>2, <1>9, <2>1, <3>1 DEF Limit
      <4> QED
        BY <1>2, <2>2, <4>1, SMT
    <3>2. CASE c # cb.conn
      <4>1. Limit(c) = taken[c] /\ Limit(c)' = taken[c]
        BY <1>2, <3>2 DEF Limit, Taken
      <4> QED
        BY <4>1, Places
    <3> QED
      BY <3>1, <3>2
  <2>5. RequestIntact' /\ LimitInv'
    BY <1>1, <2>4, SameAnswers DEF kindVars, clientVars
  <2> QED
    BY <1>6, <1>7, <1>8, <2>3, <2>5 DEF WebInv, ReadInv
<1>10. CASE cb.phase # "first"
  <2>1. request' = request /\ cb.phase = "drain"
    BY <1>1, <1>10 DEF Reading
  <2>2. RequestInv'
    <3>1. /\ request # <<>>
          /\ \A j \in 1 .. Len(request) :
                /\ request[j] = [conn |-> cb.conn, k |-> request[1].k + j - 1]
                /\ stream[request[j].conn][request[j].k] => j = Len(request)
      BY <2>1 DEF WebInv, ReadInv, RequestInv, Newline
    <3>2. request[Len(request)].k <= Pos'
      <4>1. request[Len(request)].k = request[1].k + Len(request) - 1
        <5>1. Len(request) \in 1 .. Len(request)
          BY <2>1, Places
        <5>2. request[Len(request)] = [conn |-> cb.conn, k |-> request[1].k + Len(request) - 1]
          BY <3>1, <5>1, Zenon
        <5> QED
          BY <5>2
      <4> QED
        BY <1>2, <1>3, <1>5, <2>1, <4>1, Places, SMT
    <3> QED
      BY <1>1, <1>2, <2>1, <3>1, <3>2 DEF RequestInv, Newline, clientVars
  <2>3. ASSUME NEW c \in Conns PROVE Limit(c)' \in Int /\ Limit(c) <= Limit(c)'
    <3>1. CASE c = cb.conn
      <4>1. Limit(c) = request[1].k - 1 /\ Limit(c)' = request[1].k - 1
        BY <1>2, <2>1, <3>1 DEF Limit
      <4> QED
        BY <2>1, <4>1, Places, SMT
    <3>2. CASE c # cb.conn
      <4>1. Limit(c) = taken[c] /\ Limit(c)' = taken[c]
        BY <1>2, <3>2 DEF Limit, Taken
      <4> QED
        BY <4>1, Places
    <3> QED
      BY <3>1, <3>2
  <2>4. RequestIntact' /\ LimitInv'
    BY <1>1, <2>3, SameAnswers DEF kindVars, clientVars
  <2> QED
    BY <1>6, <1>7, <1>8, <2>2, <2>4 DEF WebInv, ReadInv
<1> QED
  BY <1>9, <1>10

(* A character goes into the line.                                         *)
LEMMA CharStored ==
    ASSUME WebInv, Reading, NEW ch \in Chars,
           ch = [conn |-> cb.conn, k |-> Pos + (Len(line) + 1)],
           Taken(Len(line) + 1), Store(ch)
    PROVE  WebInv'
<1> DEFINE s == Append(line, ch)
<1>1. /\ line \in Seq(Chars) /\ Len(line) \in Nat /\ Len(line) < MaxLine - 1
      /\ \A j \in 1 .. Len(line) : /\ line[j] = [conn |-> cb.conn, k |-> Pos + j]
                                   /\ ~Newline(line[j])
  BY DEF Reading, WebInv, ReadInv, TypeOK, SizeInv, LineInv
<1>2. /\ s \in Seq(Chars) /\ Len(s) = Len(line) + 1 /\ s # <<>>
      /\ \A j \in 1 .. Len(line) : s[j] = line[j]
      /\ s[Len(line) + 1] = ch
  BY <1>1, AppendProperties
<1>3. \/ /\ Newline(ch) \/ Len(s) = MaxLine - 1
         /\ GotLine(s)
      \/ /\ ~(Newline(ch) \/ Len(s) = MaxLine - 1)
         /\ line' = s /\ UNCHANGED <<cb, request, eventVars>>
  BY DEF Store
<1> HIDE DEF s
<1>4. ASSUME NEW j \in 1 .. Len(s)
      PROVE  /\ s[j] = [conn |-> cb.conn, k |-> Pos + j]
             /\ Newline(s[j]) => j = Len(s) /\ Newline(ch)
  <2>1. CASE j \in 1 .. Len(line)
    BY <1>1, <1>2, <2>1, Zenon
  <2>2. CASE j \notin 1 .. Len(line)
    <3>1. j = Len(line) + 1
      BY <1>1, <1>2, <2>2, SMT
    <3> QED
      BY <1>2, <3>1, Zenon
  <2> QED
    BY <2>1, <2>2
<1>5. Len(s) < MaxLine
  BY <1>1, <1>2, WebAssumption, SMT
<1>6. CASE GotLine(s)
  <2>1. ALine(s)
    BY <1>2, <1>4, <1>5 DEF ALine
  <2>2. Taken(Len(s))
    BY <1>2
  <2> QED
    BY <1>6, <2>1, <2>2, LineEnds
<1>7. CASE /\ ~(Newline(ch) \/ Len(s) = MaxLine - 1)
           /\ line' = s /\ UNCHANGED <<cb, request, eventVars>>
  <2>0. cb.conn \in Conns /\ cb \in [conn : Conns, phase : Phases] /\ Pos \in Nat
        /\ cb.phase \in {"first", "drain"} /\ UNCHANGED <<kindVars, clientVars, answers>>
    BY ReadingIn DEF Reading
  <2>1. Pos' = Pos
    <3>1. Pos' = taken'[cb.conn] - Len(read_buf') - Len(s)
      BY <1>7 DEF Pos
    <3>2. taken'[cb.conn] - Len(read_buf') = Pos + (Len(line) + 1)
      BY DEF Taken
    <3> QED
      BY <1>1, <1>2, <2>0, <3>1, <3>2, SMT
  <2>2. TypeOK'
    <3>1. \A c \in Conns : taken'[c] \in 0 .. Len(stream[c])
      BY Places DEF Taken
    <3>2. read_buf' \in Seq(Chars) /\ Len(read_buf') < BufSize
      BY DEF Taken
    <3> QED
      BY <1>2, <1>5, <1>7, <2>0, <3>1, <3>2
      DEF WebInv, TypeOK, kindVars, clientVars, eventVars
  <2>3. CbInv'
    BY <1>7, <2>0 DEF Reading, CbInv, kindVars, Phases
  <2>4. SizeInv'
    <3>1. Len(s) < MaxLine - 1
      BY <1>1, <1>2, <1>7, WebAssumption, SMT
    <3> QED
      BY <1>7, <2>0, <3>1 DEF Taken, WebInv, ReadInv, SizeInv, clientVars
  <2>5. LineInv'
    <3>1. \A j \in 1 .. Len(s) : s[j] = [conn |-> cb.conn, k |-> Pos + j]
                                 /\ ~stream[s[j].conn][s[j].k]
      BY <1>4, <1>7 DEF Newline
    <3>2. \A j \in 1 .. Len(read_buf') :
             read_buf'[j] = [conn |-> cb.conn, k |-> Pos + Len(s) + j]
      BY <1>2 DEF Taken
    <3>3. Pos >= 0
      BY <2>0
    <3>4. stream' = stream /\ cb' = cb
      BY <1>7, <2>0 DEF clientVars
    <3> QED
      BY <1>7, <2>1, <3>1, <3>2, <3>3, <3>4 DEF LineInv, Newline
  <2>6. RequestInv'
    BY <1>7, <2>0, <2>1 DEF WebInv, ReadInv, RequestInv, Newline, clientVars
  <2>7. ASSUME NEW c \in Conns PROVE Limit(c)' = Limit(c)
    BY <1>7, <2>0, <2>1 DEF Limit, Taken
  <2>8. RequestIntact' /\ LimitInv'
    <3>1. \A c \in Conns : Limit(c)' \in Int /\ Limit(c) <= Limit(c)'
      BY <2>7, LimitType
    <3> QED
      BY <2>0, <3>1, SameAnswers DEF kindVars, clientVars
  <2> QED
    BY <2>2, <2>3, <2>4, <2>5, <2>6, <2>8 DEF WebInv, ReadInv
<1> QED
  BY <1>3, <1>6, <1>7

(* Readline fails: the connection is closed, or the request answered.      *)
LEMMA NothingGot ==
    ASSUME WebInv, Reading, read_buf = <<>>, UNCHANGED <<taken, read_buf>>, GotNothing
    PROVE  WebInv'
<1>0. cb.conn \in Conns /\ cb \in [conn : Conns, phase : Phases] /\ Pos \in Nat
      /\ cb.phase \in {"first", "drain"} /\ kind = "web"
      /\ UNCHANGED <<kindVars, clientVars, answers>>
  BY ReadingIn DEF Reading
<1>1. line' = <<>> /\ request' = request /\ Len(line') = 0 /\ Len(read_buf') = 0
  BY EmptySeq DEF GotNothing
<1>2. \/ cb.phase = "first" /\ Close(cb.conn) /\ cb' = Idle
      \/ cb.phase = "drain" /\ cb' = [cb EXCEPT !.phase = "answer"] /\ UNCHANGED eventVars
  BY <1>0 DEF GotNothing
<1>3. /\ client' \in [Conns -> {"none", "queued", "open", "closed"}]
      /\ fdOf' \in [Conns -> Fds \cup {None}] /\ regs' \in [Fds -> Nat] /\ watched' \subseteq Fds
  <2>1. CASE Close(cb.conn)
    BY <2>1 DEF Close, WebInv, TypeOK
  <2>2. CASE UNCHANGED eventVars
    BY <2>2 DEF eventVars, WebInv, TypeOK
  <2> QED
    BY <1>2, <2>1, <2>2
<1>4. /\ cb' \in [conn : Conns \cup {None}, phase : Phases]
      /\ cb.phase = "first" => cb' = Idle /\ cb'.phase = "idle"
      /\ cb.phase = "drain" => cb'.phase = "answer" /\ cb'.conn = cb.conn
  BY <1>0, <1>2 DEF Idle, Phases
<1>5. TypeOK'
  <2>1. line' \in Seq(Chars) /\ Len(line') < MaxLine
    BY <1>1, WebAssumption
  <2>2. cb'.conn \in Conns \cup {None} /\ cb'.phase \in {"idle", "first", "drain", "answer"}
    BY <1>4 DEF Phases
  <2> QED
    BY <1>0, <1>1, <1>3, <2>1, <2>2 DEF WebInv, TypeOK, kindVars, clientVars
<1>6. CbInv'
  BY <1>0, <1>1, <1>4 DEF CbInv, kindVars, Phases, WebInv, ReadInv
<1>7. SizeInv'
  BY <1>0, <1>1, WebAssumption DEF WebInv, ReadInv, SizeInv, clientVars
<1>8. Pos <= taken[cb.conn] /\ taken[cb.conn] \in Nat
  BY <1>0, Places
<1>9. cb.phase = "drain" => Pos' = taken[cb.conn]
  <2>1. ASSUME cb.phase = "drain" PROVE Pos' = taken[cb.conn]
    <3>1. Pos' = taken[cb.conn] - Len(read_buf') - Len(line')
      BY <1>4, <2>1 DEF Pos
    <3> QED
      BY <1>1, <1>8, <3>1, SMT
  <2> QED
    BY <2>1
<1>10. LineInv'
  <2>1. CASE cb.phase = "first"
    BY <1>4, <2>1 DEF LineInv
  <2>2. CASE cb.phase = "drain"
    BY <1>1, <1>8, <1>9, <2>2 DEF LineInv
  <2> QED
    BY <1>0, <2>1, <2>2
<1>11. RequestInv'
  <2>1. CASE cb.phase = "first"
    BY <1>4, <2>1 DEF RequestInv
  <2>2. CASE cb.phase = "drain"
    <3>1. /\ request # <<>>
          /\ \A j \in 1 .. Len(request) :
                /\ request[j] = [conn |-> cb.conn, k |-> request[1].k + j - 1]
                /\ stream[request[j].conn][request[j].k] => j = Len(request)
      BY <2>2 DEF WebInv, ReadInv, RequestInv, Newline
    <3>2. request[Len(request)].k <= Pos'
      <4>1. Len(request) \in 1 .. Len(request)
        BY <2>2, Places
      <4>2. request[Len(request)] = [conn |-> cb.conn, k |-> request[1].k + Len(request) - 1]
        BY <3>1, <4>1, Zenon
      <4>3. request[Len(request)].k = request[1].k + Len(request) - 1
        BY <4>2
      <4> QED
        BY <1>0, <1>8, <1>9, <2>2, <4>3, Places, SMT
    <3>3. stream' = stream /\ cb'.conn = cb.conn
      BY <1>0, <1>4, <2>2 DEF clientVars
    <3> QED
      BY <1>1, <3>1, <3>2, <3>3 DEF RequestInv, Newline
  <2> QED
    BY <1>0, <2>1, <2>2
<1>12. ASSUME NEW c \in Conns PROVE Limit(c)' \in Int /\ Limit(c) <= Limit(c)'
  <2>1. CASE cb.phase = "first"
    <3>1. Limit(c)' = taken[c]
      BY <1>4, <2>1 DEF Limit
    <3> QED
      BY <3>1, LimitType, Places
  <2>2. CASE cb.phase = "drain"
    <3>1. Limit(c)' = Limit(c)
      BY <1>1, <1>4, <2>2 DEF Limit
    <3> QED
      BY <3>1, LimitType
  <2> QED
    BY <1>0, <2>1, <2>2
<1>13. RequestIntact' /\ LimitInv'
  BY <1>0, <1>12, SameAnswers DEF kindVars, clientVars
<1> QED
  BY <1>5, <1>6, <1>7, <1>10, <1>11, <1>13 DEF WebInv, ReadInv

(* What read() returns.                                                    *)
LEMMA ChunkRead ==
    ASSUME WebInv, NEW c \in Conns, NEW size \in Nat, size <= Len(stream[c]) - taken[c]
    PROVE  LET chunk == [j \in 1 .. size |-> [conn |-> c, k |-> taken[c] + j]]
           IN  /\ chunk \in Seq(Chars) /\ Len(chunk) = size
               /\ \A j \in 1 .. size : chunk[j] = [conn |-> c, k |-> taken[c] + j]
<1> DEFINE chunk == [j \in 1 .. size |-> [conn |-> c, k |-> taken[c] + j]]
<1>1. ASSUME NEW j \in 1 .. size PROVE [conn |-> c, k |-> taken[c] + j] \in Chars
  <2>1. taken[c] + j \in 1 .. MaxSend
    BY Places, WebAssumption, SMT
  <2> QED
    BY <2>1 DEF Chars
<1>2. chunk \in [1 .. size -> Chars]
  BY <1>1
<1>3. chunk \in Seq(Chars)
  BY <1>2
<1>4. Len(chunk) = size
  BY <1>2, <1>3, LenProperties
<1> QED
  BY <1>3, <1>4

LEMMA ReadCharKeeps ==
    ASSUME WebInv, ReadChar
    PROVE  WebInv'
<1> DEFINE c == cb.conn
           left == Len(stream[c]) - taken[c]
           size == IF left < BufSize THEN left ELSE BufSize
           chunk == [j \in 1 .. size |-> [conn |-> c, k |-> taken[c] + j]]
<1>1. Reading
  BY DEF ReadChar, Reading
<1>2. \/ /\ read_buf # <<>>
         /\ read_buf' = Tail(read_buf)
         /\ Store(Head(read_buf))
         /\ UNCHANGED taken
      \/ /\ read_buf = <<>> /\ size > 0
         /\ taken' = [taken EXCEPT ![c] = @ + size]
         /\ read_buf' = Tail(chunk)
         /\ Store(Head(chunk))
      \/ /\ read_buf = <<>> /\ ~(size > 0)
         /\ UNCHANGED <<taken, read_buf>>
         /\ IF shut[c] /\ line # <<>> THEN GotLine(line) ELSE GotNothing
  BY DEF ReadChar
<1>3. c \in Conns /\ Pos \in Nat /\ cb.phase # "idle"
  BY <1>1, ReadingIn DEF Reading
<1>4. /\ taken[c] \in Nat /\ left \in Nat /\ size \in Nat /\ size <= left /\ size <= BufSize
      /\ Len(line) \in Nat /\ Len(read_buf) \in Nat
      /\ Pos + Len(line) + Len(read_buf) = taken[c]
  BY <1>3, Places, WebAssumption, SMTT(30)
<1>5. taken \in [Conns -> Nat] /\ read_buf \in Seq(Chars) /\ Len(read_buf) < BufSize
      /\ \A d \in Conns : taken[d] <= Len(stream[d]) /\ Len(stream[d]) \in Nat
  BY Places DEF WebInv, ReadInv, SizeInv, TypeOK
<1>6. \A j \in 1 .. Len(read_buf) :
         read_buf[j] = [conn |-> c, k |-> Pos + Len(line) + j]
  BY <1>3 DEF WebInv, ReadInv, LineInv
<1>7. chunk \in Seq(Chars) /\ Len(chunk) = size
      /\ \A j \in 1 .. size : chunk[j] = [conn |-> c, k |-> taken[c] + j]
  <2> HIDE DEF size
  <2>1. size <= Len(stream[c]) - taken[c]
    BY <1>4
  <2> QED
    BY <1>3, <1>4, <2>1, ChunkRead
<1> HIDE DEF chunk, size
<1>8. CASE /\ read_buf # <<>> /\ read_buf' = Tail(read_buf)
           /\ Store(Head(read_buf)) /\ UNCHANGED taken
  <2> DEFINE ch == Head(read_buf)
  <2>1. /\ ch = read_buf[1] /\ Tail(read_buf) \in Seq(Chars) /\ Len(read_buf) \in Nat \ {0}
        /\ Len(Tail(read_buf)) = Len(read_buf) - 1
        /\ \A j \in 1 .. Len(Tail(read_buf)) : Tail(read_buf)[j] = read_buf[j + 1]
    BY <1>5, <1>8, HeadTailProperties
  <2>2. 1 \in 1 .. Len(read_buf) /\ Pos + Len(line) + 1 = Pos + (Len(line) + 1)
    BY <1>3, <1>4, <2>1, SMT
  <2>3. ch = [conn |-> c, k |-> Pos + (Len(line) + 1)] /\ ch \in Chars
    <3>1. ch = [conn |-> c, k |-> Pos + Len(line) + 1]
      BY <1>6, <2>1, <2>2, Zenon
    <3>2. ch \in Chars
      BY <1>5, <2>1, <2>2
    <3> QED
      BY <2>2, <3>1, <3>2, Zenon
  <2>4. Taken(Len(line) + 1)
    <3>1. read_buf' \in Seq(Chars) /\ Len(read_buf') < BufSize /\ Len(read_buf') = Len(read_buf) - 1
      BY <1>4, <1>5, <1>8, <2>1, WebAssumption
    <3>2. taken'[c] - Len(read_buf') = Pos + (Len(line) + 1)
      BY <1>3, <1>4, <1>8, <3>1
    <3>3. ASSUME NEW j \in 1 .. Len(read_buf')
          PROVE  read_buf'[j] = [conn |-> c, k |-> Pos + (Len(line) + 1) + j]
      <4>1. j + 1 \in 1 .. Len(read_buf) /\ Pos + Len(line) + (j + 1) = Pos + (Len(line) + 1) + j
        BY <1>3, <1>4, <3>1, SMTT(30)
      <4>2. read_buf'[j] = read_buf[j + 1]
        BY <1>8, <2>1
      <4> QED
        BY <1>6, <4>1, <4>2, Zenon
    <3> QED
      BY <1>4, <1>5, <1>8, <3>1, <3>2, <3>3 DEF Taken
  <2> QED
    BY <1>1, <1>8, <2>3, <2>4, CharStored
<1>9. CASE /\ read_buf = <<>> /\ size > 0
           /\ taken' = [taken EXCEPT ![c] = @ + size]
           /\ read_buf' = Tail(chunk) /\ Store(Head(chunk))
  <2> DEFINE ch == Head(chunk)
  <2>0. Len(read_buf) = 0 /\ chunk # <<>> /\ Pos + Len(line) = taken[c]
    <3>1. Len(read_buf) = 0
      BY <1>9, EmptySeq
    <3>2. chunk # <<>>
      BY <1>7, <1>9, EmptySeq
    <3> QED
      BY <1>3, <1>4, <3>1, <3>2, SMT
  <2>1. /\ ch = chunk[1] /\ Tail(chunk) \in Seq(Chars)
        /\ Len(Tail(chunk)) = size - 1
        /\ \A j \in 1 .. Len(Tail(chunk)) : Tail(chunk)[j] = chunk[j + 1]
    BY <1>7, <2>0, HeadTailProperties
  <2>2. 1 \in 1 .. size /\ taken[c] + 1 = Pos + (Len(line) + 1)
    BY <1>3, <1>4, <1>9, <2>0, SMT
  <2>3. ch = [conn |-> c, k |-> Pos + (Len(line) + 1)] /\ ch \in Chars
    <3>1. ch = [conn |-> c, k |-> taken[c] + 1]
      BY <1>7, <2>1, <2>2, Zenon
    <3>2. ch \in Chars
      BY <1>7, <2>1, <2>2
    <3> QED
      BY <2>2, <3>1, <3>2, Zenon
  <2>4. Taken(Len(line) + 1)
    <3>1. read_buf' \in Seq(Chars) /\ Len(read_buf') = size - 1
      BY <1>9, <2>1
    <3>2. taken'[c] = taken[c] + size /\ taken' \in [Conns -> Nat]
          /\ \A d \in Conns \ {c} : taken'[d] = taken[d]
      BY <1>3, <1>4, <1>5, <1>9
    <3>3. Len(read_buf') < BufSize /\ taken'[c] - Len(read_buf') = Pos + (Len(line) + 1)
      BY <1>3, <1>4, <2>2, <3>1, <3>2, WebAssumption, SMT
    <3>4. ASSUME NEW j \in 1 .. Len(read_buf')
          PROVE  read_buf'[j] = [conn |-> c, k |-> Pos + (Len(line) + 1) + j]
      <4>0. j \in Int /\ 1 <= j /\ j <= size - 1
        BY <1>4, <3>1
      <4>1. j + 1 \in 1 .. size /\ taken[c] + (j + 1) = Pos + (Len(line) + 1) + j
        <5>1. j + 1 \in 1 .. size
          BY <1>4, <4>0
        <5>2. taken[c] + (j + 1) = (taken[c] + 1) + j
          BY <1>4, <4>0, SMTT(30)
        <5> QED
          BY <2>2, <5>1, <5>2, Zenon
      <4>2. read_buf'[j] = chunk[j + 1]
        BY <1>9, <2>1
      <4> QED
        BY <1>7, <4>1, <4>2, Zenon
    <3>5. \A d \in Conns : taken[d] <= taken'[d] /\ taken'[d] <= Len(stream[d])
      <4>1. taken[c] <= taken'[c] /\ taken'[c] <= Len(stream[c])
        BY <1>3, <1>4, <1>5, <3>2, SMT
      <4>2. \A d \in Conns \ {c} : taken[d] <= taken'[d] /\ taken'[d] <= Len(stream[d])
        BY <1>5, <3>2, SMT
      <4> QED
        BY <4>1, <4>2
    <3> QED
      BY <3>1, <3>2, <3>3, <3>4, <3>5 DEF Taken
  <2> QED
    BY <1>1, <1>9, <2>3, <2>4, CharStored
<1>10. CASE /\ read_buf = <<>> /\ ~(size > 0)
            /\ UNCHANGED <<taken, read_buf>>
            /\ IF shut[c] /\ line # <<>> THEN GotLine(line) ELSE GotNothing
  <2>1. CASE GotNothing
    BY <1>1, <1>10, <2>1, NothingGot
  <2>2. CASE line # <<>> /\ GotLine(line)
    <3>1. ALine(line)
      <4>1. line \in Seq(Chars) /\ Len(line) < MaxLine
        BY DEF WebInv, TypeOK
      <4>2. \A j \in 1 .. Len(line) : /\ line[j] = [conn |-> cb.conn, k |-> Pos + j]
                                      /\ ~Newline(line[j])
        BY <1>3 DEF WebInv, ReadInv, LineInv
      <4> QED
        BY <2>2, <4>1, <4>2 DEF ALine
    <3>2. Taken(Len(line))
      <4>1. Len(read_buf') = 0 /\ read_buf' = <<>> /\ read_buf' \in Seq(Chars)
        BY <1>5, <1>10, EmptySeq
      <4>2. taken'[c] - Len(read_buf') = Pos + Len(line)
        BY <1>3, <1>4, <1>10, <4>1
      <4>3. \A d \in Conns : taken[d] \in Nat
        BY <1>5
      <4> QED
        BY <1>5, <1>10, <4>1, <4>2, <4>3, WebAssumption DEF Taken
    <3> QED
      BY <1>1, <2>2, <3>1, <3>2, LineEnds
  <2> QED
    BY <1>10, <2>1, <2>2
<1> QED
  BY <1>2, <1>8, <1>9, <1>10

(* A request answered, or a piece echoed: s is all there was between the   *)
(* limit before and the limit after.                                       *)
LEMMA OneMoreAnswer ==
    ASSUME WebInv, NEW c \in Conns, NEW s \in Seq(Chars), s # <<>>,
           answers' = [answers EXCEPT ![c] = Append(@, s)],
           kind' = kind, stream' = stream,
           \A j \in 1 .. Len(s) : /\ s[j] = [conn |-> c, k |-> s[1].k + j - 1]
                                  /\ kind = "web" /\ Newline(s[j]) => j = Len(s),
           Limit(c) < s[1].k,
           s[Len(s)].k <= Limit(c)', Limit(c)' \in Int,
           \A d \in Conns \ {c} : Limit(d)' = Limit(d)
    PROVE  RequestIntact' /\ LimitInv'
<1>0. answers \in [Conns -> Seq(Seq(Chars))]
  BY DEF WebInv, TypeOK
<1>1. PICK n \in Nat : n = Len(answers[c]) /\ answers[c] \in Seq(Seq(Chars))
  BY <1>0
<1>m. PICK m \in Nat : m = n + 1 /\ m - 1 = n
  BY <1>1
<1>2. /\ Len(answers'[c]) = n + 1 /\ answers'[c][n + 1] = s
      /\ \A a \in 1 .. n : answers'[c][a] = answers[c][a]
      /\ \A d \in Conns \ {c} : answers'[d] = answers[d]
  <2>1. /\ Len(Append(answers[c], s)) = n + 1 /\ Append(answers[c], s)[n + 1] = s
        /\ \A a \in 1 .. n : Append(answers[c], s)[a] = answers[c][a]
    BY <1>1, AppendProperties
  <2>2. /\ answers'[c] = Append(answers[c], s)
        /\ \A d \in Conns \ {c} : answers'[d] = answers[d]
    BY <1>0
  <2> QED
    BY <2>1, <2>2
<1>3. \A ch : Newline(ch)' <=> stream[ch.conn][ch.k]
  BY DEF Newline
<1>4. ASSUME NEW d \in Conns, NEW a \in 1 .. Len(answers[d]),
             answers'[d][a] = answers[d][a],
             a > 1 => answers'[d][a - 1] = answers[d][a - 1]
      PROVE  /\ Intact(d, a)'
             /\ answers'[d][a][Len(answers'[d][a])].k <= Limit(d)'
  <2>1. Intact(d, a)'
    <3>1. Intact(d, a)
      BY IntactAll DEF WebInv
    <3> QED
      BY <1>4, <3>1 DEF Intact, Newline
  <2>2. Limit(d) <= Limit(d)' /\ Limit(d)' \in Int /\ Limit(d) \in Int
    <3>1. CASE d = c
      <4>1. s[1].k \in Int /\ Len(s) \in Nat \ {0} /\ s[Len(s)] = [conn |-> c, k |-> s[1].k + Len(s) - 1]
        <5>1. Len(s) \in Nat \ {0} /\ 1 \in 1 .. Len(s) /\ Len(s) \in 1 .. Len(s)
          OBVIOUS
        <5>2. s[1] \in Chars
          BY <5>1
        <5>3. s[1].k \in Int
          BY <5>2, WebAssumption DEF Chars
        <5>4. s[Len(s)] = [conn |-> c, k |-> s[1].k + Len(s) - 1]
          BY <5>1, Zenon
        <5> QED
          BY <5>1, <5>3, <5>4
      <4>2. s[Len(s)].k = s[1].k + Len(s) - 1
        BY <4>1
      <4> QED
        BY <3>1, <4>1, <4>2, LimitType, SMT
    <3>2. CASE d # c
      BY <3>2, LimitType
    <3> QED
      BY <3>1, <3>2
  <2>3. answers[d][a][Len(answers[d][a])].k <= Limit(d)
    BY DEF WebInv, LimitInv
  <2>4. answers[d][a][Len(answers[d][a])].k \in Int
    <3> DEFINE req == answers[d][a]
    <3>1. /\ Len(req) \in Nat \ {0} /\ req[1].k \in Nat \ {0}
          /\ req[Len(req)].k = req[1].k + Len(req) - 1
      BY LastOfAnswer
    <3> HIDE DEF req
    <3>2. req[Len(req)].k \in Int
      BY <3>1, SMT
    <3> QED
      BY <3>2 DEF req
  <2>5. answers'[d][a][Len(answers'[d][a])].k <= Limit(d)'
    <3>1. answers[d][a][Len(answers[d][a])].k <= Limit(d)'
      BY <2>2, <2>3, <2>4, SMT
    <3> QED
      BY <1>4, <3>1, Zenon
  <2> QED
    BY <2>1, <2>5
<1>5. /\ Intact(c, m)'
      /\ answers'[c][m][Len(answers'[c][m])].k <= Limit(c)'
  <2>1. m > 1 => s[1].k > answers'[c][n][Len(answers'[c][n])].k
    <3> SUFFICES ASSUME m > 1
                 PROVE  s[1].k > answers'[c][n][Len(answers'[c][n])].k
      OBVIOUS
    <3> DEFINE req == answers[c][n]
    <3>1. n \in 1 .. n /\ answers'[c][n] = req
      BY <1>1, <1>2, <1>m, SMT
    <3>0. n \in 1 .. Len(answers[c])
      BY <1>1, <3>1
    <3>2. /\ req[Len(req)].k = req[1].k + Len(req) - 1
          /\ Len(req) \in Nat \ {0} /\ req[1].k \in Nat \ {0}
          /\ req[1].k + Len(req) - 1 <= Limit(c)
      BY <3>0, LastOfAnswer
    <3> HIDE DEF req
    <3>3. s[1].k \in Int
      <4>1. 1 \in 1 .. Len(s)
        OBVIOUS
      <4>2. s[1] \in Chars
        BY <4>1
      <4> QED
        BY <4>2, WebAssumption DEF Chars
    <3>4. s[1].k > req[Len(req)].k
      BY <3>2, <3>3, LimitType, SMT
    <3> QED
      BY <3>1, <3>4, Zenon
  <2>3. Intact(c, m)'
    <3>1. s # <<>>
      OBVIOUS
    <3>2. ASSUME NEW j \in 1 .. Len(s)
          PROVE  /\ s[j] = [conn |-> c, k |-> s[1].k + j - 1]
                 /\ kind' = "web" /\ stream'[s[j].conn][s[j].k] => j = Len(s)
      BY DEF Newline
    <3>3. m > 1 => s[1].k > answers'[c][m - 1][Len(answers'[c][m - 1])].k
      BY <1>m, <2>1, ZenonT(40)
    <3>4. answers'[c][m] = s
      BY <1>2, <1>m
    <3> QED
      BY <3>1, <3>2, <3>3, <3>4, IntactThen, ZenonT(60)
  <2> QED
    BY <1>2, <1>m, <2>3
<1> DEFINE Good(d, a) ==
       Intact(d, a)' /\ answers'[d][a][Len(answers'[d][a])].k <= Limit(d)'
<1>6. Good(c, m)
  BY <1>5
<1>7. \A d \in Conns : \A a \in 1 .. Len(answers[d]) :
         answers'[d][a] = answers[d][a] /\ (a > 1 => answers'[d][a - 1] = answers[d][a - 1])
            => Good(d, a)
  BY <1>4
<1> HIDE DEF Good
<1>8. ASSUME NEW d \in Conns, NEW a \in 1 .. Len(answers'[d])
      PROVE  Good(d, a)
  <2>1. CASE d = c /\ a = m
    BY <1>6, <2>1, Zenon
  <2>2. CASE d = c /\ a # m
    <3>1. a \in 1 .. n /\ (a > 1 => a - 1 \in 1 .. n)
      BY <1>1, <1>2, <1>m, <2>2
    <3>2. /\ answers'[d][a] = answers[d][a]
          /\ a > 1 => answers'[d][a - 1] = answers[d][a - 1]
      BY <1>2, <2>2, <3>1
    <3>3. a \in 1 .. Len(answers[d])
      BY <1>1, <2>2, <3>1
    <3> QED
      BY <1>7, <3>2, <3>3, Zenon
  <2>3. CASE d # c
    <3>1. answers'[d] = answers[d]
      BY <1>2, <2>3
    <3> QED
      BY <1>7, <3>1, Zenon
  <2> QED
    BY <2>1, <2>2, <2>3
<1>9. RequestIntact'
  BY <1>8, IntactNext, Zenon DEF Good
<1> QED
  BY <1>8, <1>9, Zenon DEF Good, LimitInv
-----------------------------------------------------------------------------
(* The steps that end a callback.                                          *)
LEMMA CallbackEnds ==
    ASSUME WebInv, cb' = Idle, read_buf' = <<>>, line' = <<>>,
           taken' \in [Conns -> Nat], kind' = kind, stream' = stream
    PROVE  /\ CbInv' /\ SizeInv' /\ LineInv' /\ RequestInv'
           /\ \A c \in Conns : Limit(c)' = taken'[c]
<1>1. cb'.phase = "idle" /\ cb' \in [conn : Conns \cup {None}, phase : Phases]
  BY DEF Idle, Phases
<1>2. CbInv'
  BY <1>1 DEF CbInv
<1>3. SizeInv'
  <2>1. Len(line') = 0
    BY EmptySeq
  <2> QED
    BY <2>1, WebAssumption DEF WebInv, ReadInv, SizeInv
<1>4. LineInv' /\ RequestInv'
  BY <1>1 DEF LineInv, RequestInv
<1>5. \A c \in Conns : Limit(c)' = taken'[c]
  BY <1>1 DEF Limit
<1> QED
  BY <1>2, <1>3, <1>4, <1>5

LEMMA AnswerKeeps ==
    ASSUME WebInv, Answer
    PROVE  WebInv'
<1>0. cb.phase = "answer" /\ cb.conn \in Conns
  BY DEF Answer, WebInv, ReadInv, CbInv
<1>c. PICK c \in Conns : c = cb.conn
  BY <1>0
<1>1. /\ cb.phase = "answer"
      /\ answers' = [answers EXCEPT ![c] = Append(@, request)]
      /\ request' = <<>> /\ cb' = Idle
      /\ Close(c) \/ UNCHANGED eventVars
      /\ UNCHANGED <<kindVars, clientVars, readVars>>
  BY <1>c DEF Answer
<1>2. c \in Conns /\ read_buf = <<>> /\ line = <<>> /\ kind = "web"
  BY <1>1 DEF WebInv, ReadInv, CbInv
<1>3. /\ read_buf' = <<>> /\ line' = <<>> /\ taken' = taken /\ taken' \in [Conns -> Nat]
      /\ kind' = kind /\ stream' = stream
  BY <1>1, <1>2 DEF WebInv, ReadInv, SizeInv, readVars, kindVars, clientVars
<1>4. /\ CbInv' /\ SizeInv' /\ LineInv' /\ RequestInv'
      /\ \A d \in Conns : Limit(d)' = taken'[d]
  BY <1>1, <1>3, CallbackEnds
<1>5. /\ request \in Seq(Chars) /\ request # <<>>
      /\ \A j \in 1 .. Len(request) :
            /\ request[j] = [conn |-> c, k |-> request[1].k + j - 1]
            /\ Newline(request[j]) => j = Len(request)
      /\ request[Len(request)].k <= Pos
  BY <1>1, <1>c DEF WebInv, ReadInv, RequestInv, TypeOK
<1>6. answers' \in [Conns -> Seq(Seq(Chars))]
  <2>1. answers \in [Conns -> Seq(Seq(Chars))]
    BY DEF WebInv, TypeOK
  <2>2. Append(answers[c], request) \in Seq(Seq(Chars))
    BY <1>2, <1>5, <2>1, AppendProperties
  <2> QED
    BY <1>1, <2>1, <2>2
<1>7. TypeOK'
  <2>1. /\ client' \in [Conns -> {"none", "queued", "open", "closed"}]
        /\ fdOf' \in [Conns -> Fds \cup {None}] /\ regs' \in [Fds -> Nat] /\ watched' \subseteq Fds
    <3>1. CASE Close(c)
      BY <3>1 DEF Close, WebInv, TypeOK
    <3>2. CASE UNCHANGED eventVars
      BY <3>2 DEF eventVars, WebInv, TypeOK
    <3> QED
      BY <1>1, <3>1, <3>2
  <2>2. request' \in Seq(Chars) /\ Len(request') < MaxLine
    BY <1>1, EmptySeq, WebAssumption
  <2>3. cb'.conn \in Conns \cup {None} /\ cb'.phase \in {"idle", "first", "drain", "answer"}
    BY <1>1 DEF Idle
  <2> QED
    BY <1>1, <1>6, <2>1, <2>2, <2>3 DEF WebInv, TypeOK, kindVars, clientVars, readVars
<1>8. RequestIntact' /\ LimitInv'
  <2>1. Limit(c) = request[1].k - 1
    BY <1>1, <1>c DEF Limit
  <2>2. Limit(c) < request[1].k
    <3>1. request[1].k \in Int
      BY <1>1, Places
    <3> QED
      BY <2>1, <3>1, SMT
  <2>3. request[Len(request)].k <= Limit(c)' /\ Limit(c)' \in Int
    <3>0. request[Len(request)].k \in Int
      <4>1. Len(request) \in Nat \ {0}
        BY <1>1, Places
      <4>2. Len(request) \in 1 .. Len(request)
        BY <4>1
      <4>3. request[Len(request)] \in Chars
        BY <1>5, <4>2
      <4> QED
        BY <4>3, WebAssumption DEF Chars
    <3>1. Limit(c)' = taken[c]
      BY <1>2, <1>3, <1>4
    <3>2. Pos <= taken[c] /\ Pos \in Int /\ taken[c] \in Int
      BY <1>2, <1>c, Places
    <3> QED
      BY <1>5, <3>0, <3>1, <3>2, SMT
  <2>4. ASSUME NEW d \in Conns \ {c} PROVE Limit(d)' = Limit(d)
    <3>1. Limit(d)' = taken[d]
      BY <1>3, <1>4
    <3> QED
      BY <1>c, <3>1 DEF Limit
  <2> QED
    BY <1>1, <1>2, <1>3, <1>5, <2>2, <2>3, <2>4, OneMoreAnswer
<1> QED
  BY <1>4, <1>7, <1>8 DEF WebInv, ReadInv

LEMMA EchoKeeps ==
    ASSUME WebInv, Echo
    PROVE  WebInv'
<1>0. cb.phase = "first" /\ cb.conn \in Conns
  BY DEF Echo, WebInv, ReadInv, CbInv
<1>c. PICK c \in Conns : c = cb.conn
  BY <1>0
<1> DEFINE left == Len(stream[c]) - taken[c]
           size == IF left < MaxLine THEN left ELSE MaxLine
           chunk == [j \in 1 .. size |-> [conn |-> c, k |-> taken[c] + j]]
<1>1. /\ kind = "echo" /\ cb.phase = "first" /\ cb' = Idle
      /\ UNCHANGED <<kind, clientVars, read_buf, line, request>>
  BY DEF Echo
<1>2. \/ /\ size = 0 /\ Close(c) /\ UNCHANGED <<up, taken, answers>>
      \/ /\ size # 0 /\ taken' = [taken EXCEPT ![c] = @ + size] /\ UNCHANGED eventVars
         /\ \/ up' = FALSE /\ UNCHANGED answers
            \/ answers' = [answers EXCEPT ![c] = Append(@, chunk)] /\ UNCHANGED up
  BY <1>c DEF Echo
<1>3. c \in Conns /\ read_buf = <<>> /\ line = <<>> /\ taken \in [Conns -> Nat]
  BY <1>1 DEF WebInv, ReadInv, CbInv, SizeInv
<1>4. /\ taken[c] \in Nat /\ left \in Nat /\ size \in Nat /\ size <= left
      /\ \A d \in Conns : taken[d] \in Nat /\ taken[d] <= Len(stream[d]) /\ Len(stream[d]) \in Nat
  BY <1>3, Places, WebAssumption
<1>5. chunk \in Seq(Chars) /\ Len(chunk) = size
      /\ \A j \in 1 .. size : chunk[j] = [conn |-> c, k |-> taken[c] + j]
  <2> HIDE DEF size
  <2>1. size <= Len(stream[c]) - taken[c]
    BY <1>4
  <2> QED
    BY <1>3, <1>4, <2>1, ChunkRead
<1> HIDE DEF chunk, size
<1>6. Limit(c) = taken[c]
  <2>1. Len(read_buf) = 0 /\ Len(line) = 0
    BY <1>3, EmptySeq
  <2>2. Limit(c) = taken[c] - Len(read_buf) - Len(line)
    BY <1>1, <1>c DEF Limit, Pos
  <2> QED
    BY <1>4, <2>1, <2>2, SMT
<1>7. ASSUME NEW d \in Conns \ {c} PROVE Limit(d) = taken[d]
  BY <1>c, <1>7 DEF Limit
<1>8. /\ taken' \in [Conns -> Nat]
      /\ \A d \in Conns : taken[d] <= taken'[d] /\ taken'[d] \in 0 .. Len(stream[d])
      /\ \A d \in Conns \ {c} : taken'[d] = taken[d]
      /\ size # 0 => taken'[c] = taken[c] + size
  <2>1. CASE size = 0 /\ taken' = taken
    BY <1>3, <1>4, <2>1
  <2>2. CASE size # 0 /\ taken' = [taken EXCEPT ![c] = @ + size]
    <3>1. taken' \in [Conns -> Nat] /\ taken'[c] = taken[c] + size
          /\ \A d \in Conns \ {c} : taken'[d] = taken[d]
      BY <1>3, <1>4, <2>2
    <3>2. taken[c] <= taken'[c] /\ taken'[c] \in 0 .. Len(stream[c])
      BY <1>3, <1>4, <3>1, SMT
    <3>3. \A d \in Conns \ {c} : taken[d] <= taken'[d] /\ taken'[d] \in 0 .. Len(stream[d])
      BY <1>4, <3>1
    <3> QED
      BY <2>2, <3>1, <3>2, <3>3
  <2> QED
    BY <1>2, <2>1, <2>2
<1>9. /\ CbInv' /\ SizeInv' /\ LineInv' /\ RequestInv'
      /\ \A d \in Conns : Limit(d)' = taken'[d]
  <2>1. read_buf' = <<>> /\ line' = <<>> /\ stream' = stream /\ kind' = kind
    BY <1>1, <1>3 DEF clientVars
  <2> QED
    BY <1>1, <1>8, <2>1, CallbackEnds
<1>10. TypeOK'
  <2>1. /\ client' \in [Conns -> {"none", "queued", "open", "closed"}]
        /\ fdOf' \in [Conns -> Fds \cup {None}] /\ regs' \in [Fds -> Nat] /\ watched' \subseteq Fds
    <3>1. CASE Close(c)
      BY <3>1 DEF Close, WebInv, TypeOK
    <3>2. CASE UNCHANGED eventVars
      BY <3>2 DEF eventVars, WebInv, TypeOK
    <3> QED
      BY <1>2, <3>1, <3>2
  <2>2. cb'.conn \in Conns \cup {None} /\ cb'.phase \in {"idle", "first", "drain", "answer"}
    BY <1>1 DEF Idle
  <2>3. answers' \in [Conns -> Seq(Seq(Chars))]
    <3>1. answers \in [Conns -> Seq(Seq(Chars))]
      BY DEF WebInv, TypeOK
    <3>2. Append(answers[c], chunk) \in Seq(Seq(Chars))
      BY <1>3, <1>5, <3>1, AppendProperties
    <3> QED
      BY <1>2, <3>1, <3>2
  <2>4. up' \in BOOLEAN
    BY <1>2 DEF WebInv, TypeOK
  <2> QED
    BY <1>1, <1>8, <2>1, <2>2, <2>3, <2>4 DEF WebInv, TypeOK, clientVars
<1>11. RequestIntact' /\ LimitInv'
  <2>0. kind' = kind /\ stream' = stream
    BY <1>1 DEF clientVars
  <2>1. CASE answers' = answers
    <3>1. ASSUME NEW d \in Conns PROVE Limit(d)' \in Int /\ Limit(d) <= Limit(d)'
      <4>1. Limit(d) = taken[d]
        BY <1>6, <1>7
      <4>2. Limit(d)' = taken'[d] /\ taken'[d] \in Int /\ taken[d] <= taken'[d]
        BY <1>8, <1>9
      <4> QED
        BY <4>1, <4>2
    <3> QED
      BY <2>0, <2>1, <3>1, SameAnswers
  <2>2. CASE size # 0 /\ answers' = [answers EXCEPT ![c] = Append(@, chunk)]
    <3>1. chunk # <<>> /\ 1 \in 1 .. size /\ size \in 1 .. size
      <4>1. chunk # <<>>
        BY <1>5, <2>2, EmptySeq
      <4> QED
        BY <1>4, <2>2, <4>1
    <3>2. chunk[1].k = taken[c] + 1 /\ chunk[size].k = taken[c] + size
      <4>1. /\ chunk[1] = [conn |-> c, k |-> taken[c] + 1]
            /\ chunk[size] = [conn |-> c, k |-> taken[c] + size]
        BY <1>5, <3>1, Zenon
      <4> QED
        BY <4>1
    <3>3. ASSUME NEW j \in 1 .. Len(chunk)
          PROVE  chunk[j] = [conn |-> c, k |-> chunk[1].k + j - 1]
      <4>1. chunk[j] = [conn |-> c, k |-> taken[c] + j]
        BY <1>5
      <4>2. chunk[1].k + j - 1 = taken[c] + j
        BY <1>4, <1>5, <3>2, SMT
      <4> QED
        BY <4>1, <4>2, Zenon
    <3>4. Limit(c) < chunk[1].k
      BY <1>4, <1>6, <3>2, SMT
    <3>5. chunk[Len(chunk)].k <= Limit(c)' /\ Limit(c)' \in Int
      <4>1. Limit(c)' = taken[c] + size
        BY <1>3, <1>8, <1>9, <2>2
      <4>2. chunk[Len(chunk)].k = taken[c] + size
        BY <1>5, <3>2
      <4> QED
        BY <1>4, <4>1, <4>2, SMT
    <3>6. ASSUME NEW d \in Conns \ {c} PROVE Limit(d)' = Limit(d)
      BY <1>7, <1>8, <1>9
    <3>7. \A j \in 1 .. Len(chunk) :
             /\ chunk[j] = [conn |-> c, k |-> chunk[1].k + j - 1]
             /\ kind = "web" /\ Newline(chunk[j]) => j = Len(chunk)
      BY <1>1, <3>3, Zenon
    <3> QED
      BY <1>3, <1>5, <2>0, <2>2, <3>1, <3>4, <3>5, <3>6, <3>7, OneMoreAnswer
  <2> QED
    BY <1>2, <2>1, <2>2
<1> QED
  BY <1>9, <1>10, <1>11 DEF WebInv, ReadInv
-----------------------------------------------------------------------------
LEMMA StepGood == WebInv /\ [Next]_vars => WebInv'
<1> SUFFICES ASSUME WebInv, [Next]_vars PROVE WebInv'
  OBVIOUS
<1>1. CASE ReadChar
  BY <1>1, ReadCharKeeps
<1>2. CASE Answer
  BY <1>2, AnswerKeeps
<1>3. CASE Echo
  BY <1>3, EchoKeeps
<1>4. ASSUME NEW c \in Conns, Accept(c) PROVE WebInv'
  BY <1>4, AcceptKeeps
<1>5. ASSUME NEW c \in Conns, Dispatch(c) PROVE WebInv'
  BY <1>5, DispatchKeeps
<1>6. ASSUME NEW c \in Conns, Connect(c) PROVE WebInv'
  BY <1>6, ConnectKeeps
<1>7. ASSUME NEW c \in Conns, Send(c) PROVE WebInv'
  BY <1>7, SendKeeps
<1>8. ASSUME NEW c \in Conns, Shut(c) PROVE WebInv'
  BY <1>8, ShutKeeps
<1>9. CASE UNCHANGED vars
  <2>1. UNCHANGED <<kindVars, clientVars, eventVars, readVars, cb, request, answers>>
    BY <1>9 DEF vars
  <2>2. TypeOK'
    BY <2>1 DEF WebInv, TypeOK, kindVars, clientVars, eventVars, readVars
  <2> QED
    BY <2>1, <2>2, SameReading DEF kindVars, clientVars
<1> QED
  BY <1>1, <1>2, <1>3, <1>4, <1>5, <1>6, <1>7, <1>8, <1>9 DEF Next, Server

LEMMA WebInvAlways == Spec => []WebInv
BY InitGood, StepGood, PTL DEF Spec

(* Between two callbacks nothing is left in the buffer that all            *)
(* connections share, and what is in it during one came from the           *)
(* connection the callback is for: no input ends up in the request of      *)
(* another client.  None of the buffers is overrun.                        *)
THEOREM BuffersCorrect == Spec => []BuffersOK
<1>1. WebInv => BuffersOK
  <2> SUFFICES ASSUME WebInv PROVE BuffersOK
    OBVIOUS
  <2>1. cb = Idle => read_buf = <<>> /\ line = <<>>
    BY DEF WebInv, ReadInv, CbInv, Idle
  <2>2. ASSUME NEW j \in 1 .. Len(read_buf) PROVE read_buf[j].conn = cb.conn
    <3>1. CASE cb.phase = "idle"
      <4>1. Len(read_buf) = 0
        BY <3>1, EmptySeq DEF WebInv, ReadInv, CbInv
      <4> QED
        BY <4>1
    <3>2. CASE cb.phase # "idle"
      <4>1. read_buf[j] = [conn |-> cb.conn, k |-> Pos + Len(line) + j]
        BY <3>2 DEF WebInv, ReadInv, LineInv
      <4> QED
        BY <4>1
    <3> QED
      BY <3>1, <3>2
  <2> QED
    BY <2>1, <2>2 DEF BuffersOK, BufferClean, WebInv
<1> QED
  BY <1>1, WebInvAlways, PTL

(* Every request that is answered, and every echo, is one piece of what    *)
(* its own client sent, in order and without a gap; no character is in two *)
(* of them, and only the last one of a request is a newline.               *)
THEOREM RequestsIntact == Spec => []RequestIntact
<1>1. WebInv => RequestIntact
  BY DEF WebInv
<1> QED
  BY <1>1, WebInvAlways, PTL
=============================================================================
