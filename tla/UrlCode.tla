------------------------------- MODULE UrlCode ------------------------------
(***************************************************************************)
(* strencode and strdecode of web/pub.c, a character for a step.  The web  *)
(* server decodes a name in place (webserver.c:86), so that strdecode      *)
(* writes to the string it reads.  A run encodes a name into a buffer of   *)
(* some size and decodes the buffer in place, or decodes the name itself.  *)
(* Characters are their codes, below 128; a string ends before the first 0,*)
(* which is left out where nothing follows it.                             *)
(***************************************************************************)
EXTENDS Integers, Sequences, SequencesExt

CONSTANTS
    Codes,     \* the characters of names
    MaxName,   \* bound: length of a name
    Sizes      \* the buffer sizes strencode is given

VARIABLES
    pc,        \* "call", "encode", "decode", "done"
    name,      \* what is encoded or decoded
    tosize,
    from,      \* how much of its source the running function has read
    buf, to    \* its target, and how much of it has been written

vars == <<pc, name, tosize, from, buf, to>>

Percent == 37
Digit(c) == c \in 48 .. 57
isxdigit(c) == Digit(c) \/ c \in 97 .. 102 \/ c \in 65 .. 70
isalnum(c) == Digit(c) \/ c \in 97 .. 122 \/ c \in 65 .. 90
Plain(c) == isalnum(c) \/ c \in {47, 95, 46, 45, 126}   \* / _ . - ~
hexit(c) == IF Digit(c) THEN c - 48
            ELSE IF c \in 97 .. 102 THEN c - 87 ELSE IF c \in 65 .. 70 THEN c - 55 ELSE 0
hex(d) == IF d < 10 THEN 48 + d ELSE 87 + d             \* the x of sprintf
-----------------------------------------------------------------------------
Init == pc = "call" /\ name = <<>> /\ tosize = 0 /\ from = 0 /\ buf = <<>> /\ to = 0

Call ==
    /\ pc = "call"
    /\ name' \in BoundedSeq(Codes, MaxName)
    /\ \/ pc' = "encode" /\ tosize' \in Sizes /\ buf' = <<>>
       \/ pc' = "decode" /\ buf' = name' /\ UNCHANGED tosize
    /\ UNCHANGED <<from, to>>

(* A round of strencode.  Variant: makes room for one character only.      *)
EncodeTight ==
    /\ pc = "encode" /\ from < Len(name) /\ to + 2 < tosize
    /\ LET c == name[from + 1]
           s == IF Plain(c) THEN <<c>> ELSE <<Percent, hex(c \div 16), hex(c % 16)>>
       IN  buf' = buf \o s /\ to' = to + Len(s)
    /\ from' = from + 1
    /\ UNCHANGED <<pc, name, tosize>>

Encode ==
    /\ pc = "encode" /\ from < Len(name) /\ to + 4 < tosize
    /\ LET c == name[from + 1]
           s == IF Plain(c) THEN <<c>> ELSE <<Percent, hex(c \div 16), hex(c % 16)>>
       IN  buf' = buf \o s /\ to' = to + Len(s)
    /\ from' = from + 1
    /\ UNCHANGED <<pc, name, tosize>>

CString(s) == IF Contains(s, 0) THEN SubSeq(s, 1, SelectInSeq(s, LAMBDA c : c = 0) - 1) ELSE s

(* The end of strencode, and strdecode on what it has written.             *)
Encoded ==
    /\ pc = "encode" /\ (from = Len(name) \/ to + 4 >= tosize)
    /\ pc' = "decode"
    /\ from' = 0 /\ to' = 0
    /\ UNCHANGED <<name, tosize, buf>>

(* A round of strdecode, in place.                                         *)
Decode ==
    /\ pc = "decode" /\ from < Len(buf)
    /\ LET escape == /\ buf[from + 1] = Percent /\ from + 3 <= Len(buf)
                     /\ isxdigit(buf[from + 2]) /\ isxdigit(buf[from + 3])
       IN  /\ buf' = [buf EXCEPT ![to + 1] =
                        IF escape THEN hexit(buf[from + 2]) * 16 + hexit(buf[from + 3])
                        ELSE buf[from + 1]]
           /\ from' = from + (IF escape THEN 3 ELSE 1)
    /\ to' = to + 1
    /\ UNCHANGED <<pc, name, tosize>>

Decoded ==
    /\ pc = "decode" /\ from = Len(buf)
    /\ buf' = CString(SubSeq(buf, 1, to))
    /\ pc' = "done"
    /\ UNCHANGED <<name, tosize, from, to>>

Next == Call \/ Encode \/ Encoded \/ Decode \/ Decoded
Spec == Init /\ [][Next]_vars
-----------------------------------------------------------------------------
(* What a string stands for: its characters, and for each escape that does *)
(* not begin inside another one the character it names.                    *)
Meaning(s) ==
    LET Hex(k) == k \in 1 .. Len(s) /\ isxdigit(s[k])
        Escape(k) == s[k] = Percent /\ Hex(k + 1) /\ Hex(k + 2)
        m[k \in 1 .. Len(s) + 1] ==
            IF k > Len(s) THEN <<>>
            ELSE IF Escape(k) THEN <<hexit(s[k + 1]) * 16 + hexit(s[k + 2])>> \o m[k + 3]
            ELSE <<s[k]>> \o m[k + 1]
    IN  m[1]

(* Decoding in place overwrites nothing it has still to read, and ends     *)
(* with the meaning of the string, up to an escaped 0.  Encoding never     *)
(* writes beyond its buffer; decoded again it gives the name back, or as   *)
(* much of its beginning as the buffer had room for, but never part of an  *)
(* escape.                                                                 *)
CodingRight ==
    /\ to <= from \/ pc = "encode"
    /\ pc = "encode" => to < tosize
    /\ pc = "decode" /\ tosize = 0 =>
          SubSeq(buf, from + 1, Len(buf)) = SubSeq(name, from + 1, Len(name))
    /\ pc = "done" =>
          IF tosize = 0 THEN buf = CString(Meaning(name))
          ELSE /\ IsPrefix(buf, name)
               /\ 3 * Len(name) + 1 < tosize => buf = name
=============================================================================
