---------------------------- MODULE ChildReaper -----------------------------
(***************************************************************************)
(* testSigchld of pipe/signal.c: a parent forks children with SIGCHLD      *)
(* blocked, installs the handler waitchild, unblocks the signal and goes   *)
(* to sleep for good.  Signals do not queue: however many children end     *)
(* while SIGCHLD is blocked or being handled, one signal is pending.       *)
(*                                                                         *)
(* Each system call of the parent and each call of waitpid by the handler  *)
(* is a step; children end between any two of them.                        *)
(***************************************************************************)
EXTENDS Naturals, FiniteSets

CONSTANTS
    NumChildren,   \* the parent forks that many, 3 in the code
    KeepsIgnored   \* does the system keep a blocked signal pending while its
                   \* action is the default one, to ignore it?  POSIX leaves
                   \* that open; Linux does.

ASSUME ReaperAssumption ==
    /\ NumChildren \in Nat
    /\ KeepsIgnored \in BOOLEAN

Children == 1 .. NumChildren

VARIABLES
    child,      \* "none", "running", "zombie", "reaped"
    pending,    \* is SIGCHLD pending for the parent?
    blocked,    \* has the parent blocked SIGCHLD?
    installed,  \* is waitchild the action for SIGCHLD?
    pc,         \* where the parent is
    handler,    \* "out", "wait" (about to call waitpid), "return"
    i           \* the parent's loop counter

vars == <<child, pending, blocked, installed, pc, handler, i>>

ParentPcs == {"block", "fork", "install", "unblock", "sleep", "gone"}
Living == {c \in Children : child[c] \in {"running", "zombie"}}
Zombies == {c \in Children : child[c] = "zombie"}
-----------------------------------------------------------------------------
Init ==
    /\ child = [c \in Children |-> "none"]
    /\ pending = FALSE /\ blocked = FALSE /\ installed = FALSE
    /\ pc = "block" /\ handler = "out" /\ i = 0

(* sigprocmask(SIG_BLOCK).  Variant: the signal is not blocked.            *)
NoBlock ==
    /\ pc = "block"
    /\ pc' = "fork"
    /\ UNCHANGED <<child, pending, blocked, installed, handler, i>>

Block ==
    /\ pc = "block"
    /\ blocked' = TRUE
    /\ pc' = "fork"
    /\ UNCHANGED <<child, pending, installed, handler, i>>

(* The loop of forks; the parent returns when a fork fails.                *)
Fork ==
    /\ pc = "fork"
    /\ i < NumChildren
    /\ \/ /\ child' = [child EXCEPT ![i + 1] = "running"]
          /\ i' = i + 1
          /\ UNCHANGED pc
       \/ pc' = "gone" /\ UNCHANGED <<child, i>>
    /\ UNCHANGED <<pending, blocked, installed, handler>>

Forked ==
    /\ pc = "fork"
    /\ i = NumChildren
    /\ pc' = "install"
    /\ UNCHANGED <<child, pending, blocked, installed, handler, i>>

Install ==
    /\ pc = "install"
    /\ installed' = TRUE
    /\ pc' = "unblock"
    /\ UNCHANGED <<child, pending, blocked, handler, i>>

(* sigprocmask(SIG_UNBLOCK).                                               *)
Unblock ==
    /\ pc = "unblock"
    /\ blocked' = FALSE
    /\ pc' = "sleep"
    /\ UNCHANGED <<child, pending, installed, handler, i>>
-----------------------------------------------------------------------------
(* A child ends.  The kernel sends SIGCHLD, and drops it at once as long   *)
(* as the action is to ignore it, unless the signal is blocked and kept.   *)
Exit(c) ==
    /\ child[c] = "running"
    /\ child' = [child EXCEPT ![c] = "zombie"]
    /\ \/ (installed \/ blocked) /\ pending' = TRUE
       \/ ~installed /\ ~(blocked /\ KeepsIgnored) /\ UNCHANGED pending
    /\ UNCHANGED <<blocked, installed, pc, handler, i>>

(* The handler interrupts the sleeping parent; SIGCHLD is blocked while it *)
(* runs.                                                                   *)
Deliver ==
    /\ pending /\ ~blocked /\ installed
    /\ handler = "out"
    /\ pending' = FALSE
    /\ handler' = "wait"
    /\ UNCHANGED <<child, blocked, installed, pc, i>>

(* Variant: one child for each signal.                                     *)
WaitPidOnce ==
    /\ handler = "wait"
    /\ \/ \E c \in Zombies : child' = [child EXCEPT ![c] = "reaped"]
       \/ Zombies = {} /\ UNCHANGED child
    /\ handler' = "return"
    /\ UNCHANGED <<pending, blocked, installed, pc, i>>

(* waitpid(-1, WNOHANG) reaps some child that has ended, and the handler   *)
(* calls it again; it ends the handler's loop when no child has.           *)
WaitPid ==
    /\ handler = "wait"
    /\ \/ /\ \E c \in Zombies : child' = [child EXCEPT ![c] = "reaped"]
          /\ UNCHANGED handler
       \/ /\ Zombies = {}
          /\ handler' = "return"
          /\ UNCHANGED child
    /\ UNCHANGED <<pending, blocked, installed, pc, i>>

Return ==
    /\ handler = "return"
    /\ handler' = "out"
    /\ UNCHANGED <<child, pending, blocked, installed, pc, i>>

Parent == Block \/ Fork \/ Forked \/ Install \/ Unblock
Handler == Deliver \/ WaitPid \/ Return
Next == Parent \/ Handler \/ \E c \in Children : Exit(c)

Spec == Init /\ [][Next]_vars

(* The parent runs, and the kernel delivers a pending signal.              *)
Fairness == WF_vars(Parent) /\ WF_vars(Handler)
FairSpec == Spec /\ Fairness
-----------------------------------------------------------------------------
(* Every variable keeps its type, and the handler runs only where the      *)
(* parent has unblocked its signal.                                        *)
TypeOK ==
    /\ child \in [Children -> {"none", "running", "zombie", "reaped"}]
    /\ pending \in BOOLEAN /\ blocked \in BOOLEAN /\ installed \in BOOLEAN
    /\ pc \in ParentPcs /\ handler \in {"out", "wait", "return"}
    /\ i \in 0 .. NumChildren
    /\ handler # "out" => pc = "sleep"

(* Children that end while SIGCHLD is blocked (lines 146-170), while it is *)
(* pending already, or while the handler is on its way out are not         *)
(* forgotten: as long as there is a zombie, the handler is still at its    *)
(* loop or will be called.                                                 *)
NoneForgotten ==
    KeepsIgnored /\ pc = "sleep" /\ Zombies # {} => pending \/ handler = "wait"

(* Every child that ends is reaped, unless a fork failed (line 152).       *)
AllReaped ==
    KeepsIgnored => \A c \in Children :
                       child[c] = "zombie" ~> child[c] = "reaped" \/ pc = "gone"
=============================================================================
