------------------------------ MODULE BevEcho -------------------------------
(***************************************************************************)
(* The echo server of libevent/hello-world.c and its client, libevent/     *)
(* bufferevent_client.c, with libevent's bufferevents between them.  Both  *)
(* are event loops of one thread; a step is a callback and the work of     *)
(* libevent that leads to it.                                              *)
(*                                                                         *)
(* libevent calls a read callback once for what it has read from the       *)
(* socket; what the callback leaves in the buffer waits until more data    *)
(* come.  Both callbacks take up to Size bytes.  The bytes of a connection *)
(* keep their order, so that counters say which of them are where.  The    *)
(* server's capitals (toupper, lines 140-143) are left out: a byte shown   *)
(* is the capital of the byte typed.                                       *)
(*                                                                         *)
(* The head of hello-world.c (lines 3-4) describes another server, which   *)
(* writes a message and closes each connection once it is flushed; both are*)
(* commented out in the code (lines 126 and 155).                          *)
(***************************************************************************)
EXTENDS Integers

CONSTANTS
    Clients,
    Size,      \* of the callbacks' buffers, 1024 in the code
    MaxSend    \* bound: the bytes that a client's user types

VARIABLES
    server,     \* "run", "exiting" (in two seconds), "gone"
    conn,       \* each client's connection: "none", "open", "freed"
    client,     \* "run", "freed" (by event_cb), "gone"
    typed,      \* bytes the client has written to its bufferevent
    arrived,    \* of these: in the server's input buffer, or through it
    echoed,     \* written back by conn_readcb
    flushed,    \* gone from the server's output buffer
    come,       \* in the client's input buffer, or through it
    shown,      \* printed by server_msg_cb
    merged,     \* did the last conn_readcb find more than it takes?
    undefined   \* the clients that wrote beyond msg or freed bev twice

counters == <<typed, arrived, echoed, flushed, come, shown>>
vars == <<server, conn, client, counters, merged, undefined>>

Up == server # "gone"
Running(c) == client[c] = "run" /\ c \notin undefined
Lesser(a, b) == IF a < b THEN a ELSE b
-----------------------------------------------------------------------------
Init ==
    /\ server = "run"
    /\ conn = [c \in Clients |-> "none"] /\ client = [c \in Clients |-> "run"]
    /\ typed = [c \in Clients |-> 0] /\ arrived = typed /\ echoed = typed
    /\ flushed = typed /\ come = typed /\ shown = typed
    /\ merged = [c \in Clients |-> FALSE] /\ undefined = {}

(* listener_cb.  The client, which connects at its start, may be gone.      *)
Accept(c) ==
    /\ Up /\ conn[c] = "none"
    /\ conn' = [conn EXCEPT ![c] = "open"]
    /\ UNCHANGED <<server, client, counters, merged, undefined>>

(* cmd_msg_cb, which may write before the connection is there.             *)
Type(c) ==
    /\ Running(c)
    /\ \E k \in 1 .. Size :
          /\ typed[c] + k <= MaxSend
          /\ typed' = [typed EXCEPT ![c] = @ + k]
    /\ UNCHANGED <<server, conn, client, arrived, echoed, flushed, come, shown, merged, undefined>>

(* conn_readcb, after libevent has read k bytes.  Variant: the callback    *)
(* keeps room for a 0.                                                     *)
Take(c, room) ==
    /\ Up /\ conn[c] = "open"
    /\ \E k \in 1 .. typed[c] - arrived[c] :
          LET input == arrived[c] + k - echoed[c]
          IN  /\ arrived' = [arrived EXCEPT ![c] = @ + k]
              /\ echoed' = [echoed EXCEPT ![c] = @ + Lesser(input, room)]
              /\ merged' = [merged EXCEPT ![c] = input > Size]
    /\ UNCHANGED <<server, conn, client, typed, flushed, come, shown, undefined>>

ReadShort(c) == Take(c, Size - 1)
Read(c) == Take(c, Size)

(* libevent writes part of the output; conn_writecb does nothing.          *)
Flush(c) ==
    /\ Up /\ conn[c] = "open"
    /\ \E k \in 1 .. echoed[c] - flushed[c] : flushed' = [flushed EXCEPT ![c] = @ + k]
    /\ UNCHANGED <<server, conn, client, typed, arrived, echoed, come, shown, merged, undefined>>

(* Or else libevent writes to a client that has gone.                      *)
Sigpipe(c) ==
    /\ Up /\ conn[c] = "open" /\ ~Running(c) /\ flushed[c] < echoed[c]
    /\ server' = "gone"
    /\ UNCHANGED <<conn, client, counters, merged, undefined>>

(* conn_eventcb: the client has closed; input and output go with bev.      *)
Free(c) ==
    /\ Up /\ conn[c] = "open" /\ ~Running(c)
    /\ conn' = [conn EXCEPT ![c] = "freed"]
    /\ UNCHANGED <<server, client, counters, merged, undefined>>

(* server_msg_cb.  A full buffer has no room for the 0 that follows.       *)
Show(c) ==
    /\ Running(c)
    /\ \E k \in 1 .. flushed[c] - come[c] :
          LET input == come[c] + k - shown[c]
          IN  /\ come' = [come EXCEPT ![c] = @ + k]
              /\ shown' = [shown EXCEPT ![c] = @ + Lesser(input, Size)]
              /\ undefined' = IF input >= Size THEN undefined \cup {c} ELSE undefined
    /\ UNCHANGED <<server, conn, client, typed, arrived, echoed, flushed, merged>>

(* event_cb of the client, at the end of the stream or an error, frees bev *)
(* and the event; the loop then has nothing to wait for and ends, and main *)
(* frees both again.                                                       *)
ClientFree(c) ==
    /\ Running(c) /\ server = "gone"
    /\ client' = [client EXCEPT ![c] = "freed"]
    /\ UNCHANGED <<server, conn, counters, merged, undefined>>

ClientEnd(c) ==
    /\ client[c] = "freed" /\ c \notin undefined
    /\ undefined' = undefined \cup {c}
    /\ UNCHANGED <<server, conn, client, counters, merged>>

Kill(c) ==
    /\ Running(c)
    /\ client' = [client EXCEPT ![c] = "gone"]
    /\ UNCHANGED <<server, conn, counters, merged, undefined>>

(* signal_cb on SIGINT; the end of the loop two seconds later.             *)
Interrupt ==
    /\ server = "run" /\ server' = "exiting"
    /\ UNCHANGED <<conn, client, counters, merged, undefined>>

Exit ==
    /\ server = "exiting" /\ server' = "gone"
    /\ UNCHANGED <<conn, client, counters, merged, undefined>>

Serve(c) == Accept(c) \/ Read(c) \/ Flush(c) \/ Sigpipe(c) \/ Free(c)
Client(c) == Show(c) \/ ClientFree(c) \/ ClientEnd(c)
Next == \/ Interrupt \/ Exit
        \/ \E c \in Clients : Serve(c) \/ Client(c) \/ Type(c) \/ Kill(c)
Spec == Init /\ [][Next]_vars

(* Both loops go on with what there is to do; libevent leaves no           *)
(* connection out for ever.                                                *)
Fairness == \A c \in Clients : WF_vars(Serve(c)) /\ WF_vars(Client(c))
-----------------------------------------------------------------------------
(* Whatever pieces it comes in, all that a client has typed is answered;  *)
(* or all but a tail that the last conn_readcb has left in the server's    *)
(* buffer, because libevent had read more than it takes (line 136): that   *)
(* waits for the next input.  Exceptions are a client that has ended or    *)
(* has run into what C leaves undefined, and a server that has been        *)
(* interrupted or killed by SIGPIPE.                                       *)
TailLeft(c) == merged[c] /\ arrived[c] = typed[c] /\ shown[c] = echoed[c]
Echoed == \A c \in Clients :
    shown[c] < typed[c]
        ~> shown[c] = typed[c] \/ TailLeft(c) \/ ~Running(c) \/ server # "run"
=============================================================================
