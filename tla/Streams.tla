------------------------------- MODULE Streams ------------------------------
(***************************************************************************)
(* Reading and writing a byte stream: Read, Write, Readn and Writen of     *)
(* socket/wrap.c and get_line of web/pub.c.  One process sends a text in   *)
(* one call of Writen (or Write) and closes; another one calls Readn or    *)
(* get_line until it meets the end.  Any call of the system may transfer   *)
(* less than was asked for.  A call that is interrupted by a signal is     *)
(* made again by the functions of wrap.c, which changes nothing and is no  *)
(* step; get_line takes it for the end of the line.  Neither end fails in  *)
(* any other way.                                                          *)
(***************************************************************************)
EXTENDS Integers, Sequences, SequencesExt

CONSTANTS
    MaxText,   \* bound: length of the text
    Sizes      \* the sizes that Readn and get_line are called with

Chars == {"cr", "lf", "x"}

VARIABLES
    sender, reader,   \* the functions the two processes use
    size,             \* the reader's argument n, or size
    text, ptr,        \* what is sent, and how much Writen has handed over
    closed,           \* has the sender closed?
    taken,            \* how much of the stream the reader has taken
    pc,               \* the reader: "read", "peek", "end"
    buf,              \* what its running call has stored
    results,          \* history: what its calls have returned
    interrupted       \* history: has a signal interrupted get_line?

senderVars == <<sender, text, ptr, closed>>
vars == <<senderVars, reader, size, taken, pc, buf, results, interrupted>>

Stream == SubSeq(text, taken + 1, ptr)   \* under way
AtEnd == closed /\ Stream = <<>>
-----------------------------------------------------------------------------
Init ==
    /\ sender \in {"Write", "Writen"} /\ reader \in {"Readn", "Read", "get_line"}
    /\ size \in Sizes /\ text \in BoundedSeq(Chars, MaxText)
    /\ ptr = 0 /\ closed = FALSE /\ taken = 0
    /\ pc = "read" /\ buf = <<>> /\ results = <<>> /\ interrupted = FALSE
-----------------------------------------------------------------------------
(* A round of Writen's loop, or Write, which leaves it at one; its callers *)
(* take no notice of how much it has written.                              *)
WriteSome ==
    /\ ~closed /\ ptr < Len(text)
    /\ sender = "Write" => ptr = 0
    /\ \E k \in 1 .. Len(text) - ptr : ptr' = ptr + k
    /\ UNCHANGED <<sender, text, closed, reader, size, taken, pc, buf, results, interrupted>>

Close ==
    /\ ~closed
    /\ ptr = Len(text) \/ (sender = "Write" /\ ptr > 0)
    /\ closed' = TRUE
    /\ UNCHANGED <<sender, text, ptr, reader, size, taken, pc, buf, results, interrupted>>
-----------------------------------------------------------------------------
(* The call of the reader returns what it has stored, s; Readn and Read    *)
(* return less than n, get_line nothing, at the end of the stream.         *)
Return(s) ==
    /\ results' = IF s = <<>> THEN results ELSE Append(results, s)
    /\ buf' = <<>>

(* Readn: one round of its loop; or Read.                                  *)
Readn ==
    /\ reader \in {"Readn", "Read"} /\ pc = "read" /\ Stream # <<>>
    /\ \E k \in 1 .. Len(Stream) :
          LET s == buf \o SubSeq(Stream, 1, k)
          IN  /\ Len(s) <= size
              /\ taken' = taken + k
              /\ IF reader = "Read" \/ Len(s) = size THEN Return(s)
                 ELSE buf' = s /\ UNCHANGED results
    /\ UNCHANGED <<senderVars, reader, size, pc, interrupted>>

(* A read at the end of the stream, by any of them.                        *)
ReadEnd ==
    /\ pc = "read" /\ AtEnd
    /\ Return(buf)
    /\ pc' = "end"
    /\ UNCHANGED <<senderVars, reader, size, taken, interrupted>>

(* get_line stores c; the loop ends with a line feed or with size - 1      *)
(* characters.                                                             *)
Store(c) ==
    LET s == Append(buf, c)
    IN  IF c = "lf" \/ Len(s) = size - 1 THEN Return(s)
        ELSE buf' = s /\ UNCHANGED results

Recv ==
    /\ reader = "get_line" /\ pc = "read" /\ Stream # <<>>
    /\ taken' = taken + 1
    /\ IF Head(Stream) = "cr"
       THEN pc' = "peek" /\ UNCHANGED <<buf, results>>
       ELSE Store(Head(Stream)) /\ UNCHANGED pc
    /\ UNCHANGED <<senderVars, reader, size, interrupted>>

(* After a carriage return, recv with MSG_PEEK: a line feed that follows   *)
(* is taken too.  Variant: it is left in the stream.                       *)
PeekOnly ==
    /\ pc = "peek"
    /\ Stream # <<>> \/ AtEnd
    /\ Store("lf")
    /\ pc' = "read"
    /\ UNCHANGED <<senderVars, reader, size, taken, interrupted>>

Peek ==
    /\ pc = "peek"
    /\ Stream # <<>> \/ AtEnd
    /\ taken' = IF Stream # <<>> /\ Head(Stream) = "lf" THEN taken + 1 ELSE taken
    /\ Store("lf")
    /\ pc' = "read"
    /\ UNCHANGED <<senderVars, reader, size, interrupted>>

(* A signal interrupts get_line while recv waits: the line ends here.      *)
Interrupt ==
    /\ reader = "get_line" /\ pc # "end" /\ Stream = <<>> /\ ~closed
    /\ interrupted' = TRUE
    /\ IF pc = "peek" THEN Store("lf") ELSE Return(buf)
    /\ pc' = "read"
    /\ UNCHANGED <<senderVars, reader, size, taken>>

Reader == Readn \/ ReadEnd \/ Recv \/ Peek \/ Interrupt
Next == WriteSome \/ Close \/ Reader
Spec == Init /\ [][Next]_vars
-----------------------------------------------------------------------------
(* The first n characters with each of the three line ends as a line feed. *)
Lines(n) ==
    LET lines[k \in 0 .. Len(text)] ==
            IF k = 0 THEN <<>>
            ELSE IF text[k] = "lf" /\ k > 1 /\ text[k - 1] = "cr" THEN lines[k - 1]
            ELSE Append(lines[k - 1], IF text[k] = "cr" THEN "lf" ELSE text[k])
    IN  lines[n]

Stored == FlattenSeq(results) \o buf

(* Whatever pieces it comes in, the reader gets the text itself, without a *)
(* gap or a repetition, and all of it if Writen was used: Readn in pieces  *)
(* of n but for the last one, get_line in lines that end with a line feed  *)
(* unless they fill the buffer or the stream ends (pub.c:55-65); but a     *)
(* signal may cut a line, or make two of a line that ends with both.       *)
PiecesRight ==
    /\ reader # "get_line" => Stored = SubSeq(text, 1, taken)
    /\ reader = "get_line" /\ ~interrupted /\ pc # "peek" => Stored = Lines(taken)
    /\ \A j \in 1 .. Len(results) :
          LET full == IF reader = "get_line" THEN size - 1 ELSE size
              last == pc = "end" /\ j = Len(results)
          IN  /\ Len(results[j]) <= full
              /\ reader = "Readn" => Len(results[j]) = full \/ last
              /\ reader = "get_line" /\ ~interrupted =>
                    /\ \A k \in 1 .. Len(results[j]) - 1 : results[j][k] # "lf"
                    /\ Len(results[j]) = full \/ last \/ results[j][Len(results[j])] = "lf"
    /\ pc = "end" /\ sender = "Writen" => taken = Len(text)
=============================================================================
