----------------------------- MODULE WebServer ------------------------------
(***************************************************************************)
(* The event loop of web/webserver.c: connectCallback accepts connections, *)
(* readMessageCallback reads a request line with Readline of socket/wrap.c,*)
(* throws the rest of the input away and answers.  One thread runs the     *)
(* callbacks; the clients send and close between any two of its calls.     *)
(*                                                                         *)
(* my_read keeps what it has read ahead in static variables which all      *)
(* connections share.  A step of a callback is one call of my_read, hence  *)
(* at most one read().  Sockets are non-blocking: read() without data      *)
(* fails (EAGAIN), and so does Readline in the middle of a line.           *)
(*                                                                         *)
(* A character is its connection and its place in what that client sends;  *)
(* all that matters of it is whether it is a newline.                      *)
(*                                                                         *)
(* The same loop with conncb and readcb of libevent/libevent.c is the      *)
(* echo server testLibeventSocket, which reads once in a callback and does *)
(* not ignore SIGPIPE.  Which of the two runs is chosen at the start.      *)
(***************************************************************************)
EXTENDS Integers, Sequences, FiniteSets

CONSTANTS
    Conns,     \* the connections clients make
    MaxFd,     \* descriptors 1 .. MaxFd are left for connections
    BufSize,   \* size of read_buf, 100 in the code
    MaxLine,   \* size of buff, 1024 in the code
    MaxSend    \* bound: how many characters a client sends

ASSUME WebAssumption ==
    /\ IsFiniteSet(Conns)
    /\ MaxFd \in Nat /\ MaxSend \in Nat
    /\ BufSize \in Nat \ {0} /\ MaxLine \in Nat /\ MaxLine > 1

Fds == 1 .. MaxFd
None == 0

Kinds == {"web", "echo"}

VARIABLES
    kind,      \* which server runs
    up,        \* has no SIGPIPE ended it?
    stream,    \* what each client has sent: is the k-th character a newline?
    taken,     \* how much of it read() has returned
    client,    \* "none", "queued" (connected), "open" (accepted), "closed"
    shut,      \* has the client closed its side?
    fdOf,      \* the descriptor of each accepted connection, None if closed
    regs,      \* how many events were added for each descriptor; none is deleted
    watched,   \* the descriptors the kernel watches for libevent
    read_buf,  \* read_ptr and read_cnt of my_read: the characters left
    cb,        \* the callback that runs: its connection, its phase
    line,      \* what the running Readline has stored
    request,   \* the request line the callback will answer
    answers    \* history: the requests answered on each connection

clientVars == <<stream, shut>>
eventVars == <<client, fdOf, regs, watched>>
readVars == <<taken, read_buf, line>>
kindVars == <<kind, up>>
vars == <<kindVars, clientVars, eventVars, readVars, cb, request, answers>>

Idle == [conn |-> None, phase |-> "idle"]
Open == {c \in Conns : client[c] = "open"}
Newline(ch) == stream[ch.conn][ch.k]
-----------------------------------------------------------------------------
Init ==
    /\ kind \in Kinds /\ up = TRUE
    /\ stream = [c \in Conns |-> <<>>] /\ taken = [c \in Conns |-> 0]
    /\ client = [c \in Conns |-> "none"] /\ shut = [c \in Conns |-> FALSE]
    /\ fdOf = [c \in Conns |-> None]
    /\ regs = [f \in Fds |-> 0] /\ watched = {}
    /\ read_buf = <<>>
    /\ cb = Idle /\ line = <<>> /\ request = <<>>
    /\ answers = [c \in Conns |-> <<>>]
-----------------------------------------------------------------------------
(* Clients.                                                                *)
Connect(c) ==
    /\ client[c] = "none"
    /\ client' = [client EXCEPT ![c] = "queued"]
    /\ UNCHANGED <<kindVars, clientVars, fdOf, regs, watched, readVars, cb, request, answers>>

Send(c) ==
    /\ client[c] \in {"queued", "open"} /\ ~shut[c]
    /\ Len(stream[c]) < MaxSend
    /\ \E nl \in BOOLEAN : stream' = [stream EXCEPT ![c] = Append(@, nl)]
    /\ UNCHANGED <<kindVars, shut, eventVars, readVars, cb, request, answers>>

Shut(c) ==
    /\ client[c] \in {"queued", "open"} /\ ~shut[c]
    /\ shut' = [shut EXCEPT ![c] = TRUE]
    /\ UNCHANGED <<kindVars, stream, eventVars, readVars, cb, request, answers>>
-----------------------------------------------------------------------------
(* connectCallback, conncb.  accept gives the least free descriptor.  event_add    *)
(* has the kernel watch it, unless libevent believes it is watched for an  *)
(* earlier event; close takes it from the kernel's watch, not from         *)
(* libevent's.                                                             *)
FreeFds == Fds \ {fdOf[c] : c \in Conns}

Accept(c) ==
    /\ up /\ cb = Idle
    /\ client[c] = "queued"
    /\ FreeFds # {}
    /\ LET fd == CHOOSE f \in FreeFds : \A g \in FreeFds : f <= g
       IN  /\ fdOf' = [fdOf EXCEPT ![c] = fd]
           /\ regs' = [regs EXCEPT ![fd] = @ + 1]
           /\ watched' = IF regs[fd] = 0 THEN watched \cup {fd} ELSE watched
    /\ client' = [client EXCEPT ![c] = "open"]
    /\ UNCHANGED <<kindVars, clientVars, readVars, cb, request, answers>>

Close(c) ==
    /\ client' = [client EXCEPT ![c] = "closed"]
    /\ fdOf' = [fdOf EXCEPT ![c] = None]
    /\ watched' = watched \ {fdOf[c]}
    /\ UNCHANGED regs
-----------------------------------------------------------------------------
(* readMessageCallback.  Variant: an event without EV_PERSIST.             *)
Readable(c) == Len(stream[c]) > taken[c] \/ shut[c]

DispatchOnce(c) ==
    /\ up /\ cb = Idle
    /\ client[c] = "open" /\ fdOf[c] \in watched /\ Readable(c)
    /\ cb' = [conn |-> c, phase |-> "first"]
    /\ watched' = watched \ {fdOf[c]}
    /\ UNCHANGED <<kindVars, clientVars, client, fdOf, regs, readVars, request, answers>>

Dispatch(c) ==
    /\ up /\ cb = Idle
    /\ client[c] = "open" /\ fdOf[c] \in watched /\ Readable(c)
    /\ cb' = [conn |-> c, phase |-> "first"]
    /\ UNCHANGED <<kindVars, clientVars, eventVars, readVars, request, answers>>

(* Readline returns a positive number and has stored s: that is the        *)
(* request, or something to throw away.  Variants: answers at once; does   *)
(* not throw away what follows a line that was cut.                        *)
GotLineNoDrain(s) ==
    /\ request' = s
    /\ cb' = [cb EXCEPT !.phase = "answer"]
    /\ line' = <<>>
    /\ UNCHANGED eventVars

GotLineCut(s) ==
    /\ request' = IF cb.phase = "first" THEN s ELSE request
    /\ cb' = [cb EXCEPT !.phase = IF Newline(s[Len(s)]) THEN "drain" ELSE "answer"]
    /\ line' = <<>>
    /\ UNCHANGED eventVars

GotLine(s) ==
    /\ request' = IF cb.phase = "first" THEN s ELSE request
    /\ cb' = [cb EXCEPT !.phase = "drain"]
    /\ line' = <<>>
    /\ UNCHANGED eventVars

(* Readline returns 0 or -1: the connection is closed if that is all there *)
(* was, or else there is a request to answer.                              *)
GotNothing ==
    /\ line' = <<>>
    /\ UNCHANGED request
    /\ IF cb.phase = "first"
       THEN Close(cb.conn) /\ cb' = Idle
       ELSE cb' = [cb EXCEPT !.phase = "answer"] /\ UNCHANGED eventVars

(* Readline has got a character from my_read: the line goes on, or ends    *)
(* with a newline or for want of room (the 0 that ends a string needs one).*)
Store(ch) ==
    LET s == Append(line, ch)
    IN  IF Newline(ch) \/ Len(s) = MaxLine - 1
        THEN GotLine(s)
        ELSE line' = s /\ UNCHANGED <<cb, request, eventVars>>

(* A call of my_read by Readline.  At the end of the input a line that has *)
(* begun counts; a read() that fails ends Readline whatever it has stored. *)
ReadChar ==
    /\ kind = "web" /\ cb.phase \in {"first", "drain"}
    /\ LET c == cb.conn
           left == Len(stream[c]) - taken[c]
           size == IF left < BufSize THEN left ELSE BufSize
           chunk == [j \in 1 .. size |-> [conn |-> c, k |-> taken[c] + j]]
       IN  IF read_buf # <<>>
           THEN /\ read_buf' = Tail(read_buf)
                /\ Store(Head(read_buf))
                /\ UNCHANGED taken
           ELSE IF size > 0
           THEN /\ taken' = [taken EXCEPT ![c] = @ + size]
                /\ read_buf' = Tail(chunk)
                /\ Store(Head(chunk))
           ELSE /\ UNCHANGED <<taken, read_buf>>
                /\ IF shut[c] /\ line # <<>> THEN GotLine(line) ELSE GotNothing
    /\ UNCHANGED <<kindVars, clientVars, answers>>

(* The answer: an error page, a file or a listing; a directory that cannot *)
(* be listed has its connection closed after the header.                   *)
Answer ==
    /\ cb.phase = "answer"
    /\ answers' = [answers EXCEPT ![cb.conn] = Append(@, request)]
    /\ request' = <<>>
    /\ cb' = Idle
    /\ Close(cb.conn) \/ UNCHANGED eventVars
    /\ UNCHANGED <<kindVars, clientVars, readVars>>

(* readcb: a read(), and a write() that raises SIGPIPE when the client has *)
(* closed with an earlier answer unread and the kernel knows by now.       *)
Echo ==
    /\ kind = "echo" /\ cb.phase = "first"
    /\ LET c == cb.conn
           left == Len(stream[c]) - taken[c]
           size == IF left < MaxLine THEN left ELSE MaxLine
           chunk == [j \in 1 .. size |-> [conn |-> c, k |-> taken[c] + j]]
       IN  IF size = 0
           THEN Close(c) /\ UNCHANGED <<up, taken, answers>>
           ELSE /\ taken' = [taken EXCEPT ![c] = @ + size]
                /\ \/ shut[c] /\ answers[c] # <<>>
                      /\ up' = FALSE /\ UNCHANGED answers
                   \/ answers' = [answers EXCEPT ![c] = Append(@, chunk)] /\ UNCHANGED up
                /\ UNCHANGED eventVars
    /\ cb' = Idle
    /\ UNCHANGED <<kind, clientVars, read_buf, line, request>>

Server == ReadChar \/ Answer \/ Echo \/ \E c \in Conns : Accept(c) \/ Dispatch(c)

Next == Server \/ \E c \in Conns : Connect(c) \/ Send(c) \/ Shut(c)

(* The event loop goes on as long as there is something to do.             *)
Spec == Init /\ [][Next]_vars /\ WF_vars(Server)
-----------------------------------------------------------------------------
(* Every variable keeps its type.                                          *)
Chars == [conn : Conns, k : 1 .. MaxSend]
TypeOK ==
    /\ stream \in [Conns -> Seq(BOOLEAN)]
    /\ kind \in Kinds /\ up \in BOOLEAN
    /\ client \in [Conns -> {"none", "queued", "open", "closed"}]
    /\ shut \in [Conns -> BOOLEAN]
    /\ \A c \in Conns : taken[c] \in 0 .. Len(stream[c])
    /\ fdOf \in [Conns -> Fds \cup {None}]
    /\ regs \in [Fds -> Nat] /\ watched \subseteq Fds
    /\ read_buf \in Seq(Chars) /\ Len(read_buf) < BufSize
    /\ line \in Seq(Chars) /\ Len(line) < MaxLine
    /\ request \in Seq(Chars) /\ Len(request) < MaxLine
    /\ cb.conn \in Conns \cup {None}
    /\ cb.phase \in {"idle", "first", "drain", "answer"}
    /\ answers \in [Conns -> Seq(Seq(Chars))]

(* The buffer of my_read belongs to no connection, but between two         *)
(* callbacks there is nothing left in it (the loop of line 78): no         *)
(* connection's input ever ends up in another one's line.                  *)
BufferClean ==
    /\ cb = Idle => read_buf = <<>> /\ line = <<>>
    /\ \A j \in 1 .. Len(read_buf) : read_buf[j].conn = cb.conn

(* Each answered request, and each echo, is one piece of what the client   *)
(* of that very connection sent: its characters in order and without a     *)
(* gap, no character in two pieces, and in a request at most the last one  *)
(* a newline.                                                              *)
RequestIntact == \A c \in Conns : \A a \in 1 .. Len(answers[c]) :
    LET req == answers[c][a]
    IN  /\ req # <<>>
        /\ \A j \in 1 .. Len(req) :
              /\ req[j] = [conn |-> c, k |-> req[1].k + j - 1]
              /\ kind = "web" /\ Newline(req[j]) => j = Len(req)
        /\ a > 1 => LET prev == answers[c][a - 1]
                    IN  req[1].k > prev[Len(prev)].k

(* A connection on a descriptor that was not used before is closed, after  *)
(* all its input has been read, when its client closes while no callback   *)
(* serves it: the loop of line 78 may meet the end of the input, but a     *)
(* later event still reports it.  A client that closes during its callback *)
(* is held to this afterwards if the connection is still open; the answer  *)
(* may have closed it, with input unread that came after the loop.         *)
Fresh(c) == client[c] = "open" /\ regs[fdOf[c]] = 1
ClosedAfterClient ==
    \A c \in Conns : Fresh(c) /\ shut[c] /\ cb.conn # c
        ~> ~up \/ (client[c] = "closed" /\ taken[c] = Len(stream[c]))

(* The buffer of my_read, with the bounds of all the buffers.              *)
BuffersOK == TypeOK /\ BufferClean
=============================================================================
