------------------------------- MODULE LogFile ------------------------------
(***************************************************************************)
(* web/log.c: an ordinary log file and one for warnings, each with its     *)
(* options, opened, written to and closed by calls of one thread.  Either  *)
(* file may fail to open.  Writing to a file that was never opened, or     *)
(* that has been closed, and closing twice are not defined: msgLogClose    *)
(* leaves the pointers as they are, and the model stops at such a call.    *)
(* Dates and texts are left out.                                           *)
(***************************************************************************)
EXTENDS Integers, FiniteSets

Files == {"msg", "wan"}
Options == {"LOG_PROCNAME", "LOG_PID", "LOG_PERROR"}
Default == {"LOG_PROCNAME", "LOG_PID"}

VARIABLES
    file,      \* msgfile and wanfile: "null", "open", "closed"
    opt,       \* msgopt and wanopt
    handles,   \* how many open files the process has for each
    opened,    \* history: has the last call been an msgLogOpen that returned 0?
    undefined

vars == <<file, opt, handles, opened, undefined>>
-----------------------------------------------------------------------------
Init ==
    /\ file = [f \in Files |-> "null"] /\ opt = [f \in Files |-> {}]
    /\ handles = [f \in Files |-> 0]
    /\ opened = FALSE /\ undefined = FALSE

(* msgLogOpen tries the files of missing, the ordinary one first, and      *)
(* stops at the first that fails, having opened new.  Once both files are  *)
(* open it sets the options and writes a line to the ordinary one, in      *)
(* which it names both (lines 63-77).                                      *)
TryOpen(missing, new) ==
    /\ "wan" \in new /\ "msg" \in missing => "msg" \in new
    /\ file' = [f \in Files |-> IF f \in new THEN "open" ELSE file[f]]
    /\ handles' = [f \in Files |-> IF f \in new THEN handles[f] + 1 ELSE handles[f]]
    /\ opened' = (new = missing /\ \A f \in Files : file'[f] # "null")
    /\ opt' = IF opened' THEN [f \in Files |-> Default] ELSE opt
    /\ undefined' = (opened' /\ \E f \in Files : file'[f] = "closed")

(* Files with an empty name are left alone.  Variant: opens files that are *)
(* open already.                                                           *)
OpenAnew(named) == \E new \in SUBSET named : TryOpen(named, new)

Open(named) ==
    LET missing == {f \in named : file[f] = "null"}
    IN  \E new \in SUBSET missing : TryOpen(missing, new)

(* msgLogFormat: a number that is not negative replaces the options of a   *)
(* file, a negative one is a mask.                                         *)
Format(arg) ==
    /\ opt' = [f \in Files |-> IF arg[f].negative THEN opt[f] \cap arg[f].bits ELSE arg[f].bits]
    /\ opened' = FALSE
    /\ UNCHANGED <<file, handles, undefined>>

(* msglog writes to the file or the files named by its mtype.              *)
Log(files) ==
    /\ undefined' = \E f \in files : file[f] # "open"
    /\ opened' = FALSE
    /\ UNCHANGED <<file, opt, handles>>

Close ==
    /\ handles' = [f \in Files |-> IF file[f] = "open" THEN handles[f] - 1 ELSE handles[f]]
    /\ file' = [f \in Files |-> IF file[f] = "null" THEN "null" ELSE "closed"]
    /\ opened' = FALSE
    /\ undefined' = \E f \in Files : file[f] = "closed"
    /\ UNCHANGED opt

Next ==
    /\ ~undefined
    /\ \/ \E named \in SUBSET Files : Open(named)
       \/ \E arg \in [Files -> [negative : BOOLEAN, bits : SUBSET Options]] : Format(arg)
       \/ \E files \in SUBSET Files \ {{}} : Log(files)
       \/ Close
Spec == Init /\ [][Next]_vars
-----------------------------------------------------------------------------
(* However often opening fails and is tried again, no file is opened       *)
(* twice, so that none leaks when it is closed; and an open that returns 0 *)
(* leaves both files open, with the options of a fresh start, whichever of *)
(* them an earlier call has opened.                                        *)
FilesRight ==
    /\ \A f \in Files : handles[f] = IF file[f] = "open" THEN 1 ELSE 0
    /\ opened /\ ~undefined => \A f \in Files : handles[f] = 1 /\ opt[f] = Default
=============================================================================
