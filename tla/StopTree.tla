------------------------------ MODULE StopTree ------------------------------
(***************************************************************************)
(* rola_devtools/process.py: a command run as a process group of its own,  *)
(* and stopped whole when its time is up or its caller is interrupted.     *)
(*                                                                         *)
(* The command and whatever it starts go on forking, exiting and leaving   *)
(* the group while stop_tree reads /proc and sends its signals.  SIGTERM   *)
(* asks: a process may exit on it or not.  SIGKILL ends what a process     *)
(* does, and the process when the kernel gets to it.  A pid stands for one *)
(* process: no pid is reused.                                              *)
(***************************************************************************)
EXTENDS Naturals

CONSTANTS
    MaxProcs    \* bound: the processes there may be, numbered as they start

ASSUME MaxProcsAssumption == MaxProcs \in Nat \ {0}

Procs  == 1 .. MaxProcs
Cmd    == 1     \* the command
Reaper == 0     \* the process orphans are handed to

VARIABLES
    status,     \* status[p]: "unborn", "running" or "exited"
    parent,     \* parent[p]: its parent, as the kernel has it
    group,      \* group[p]: the leader of its process group
    termed,     \* the processes SIGTERM has been sent to
    killed,     \* the processes SIGKILL has been sent to
    pc,         \* the step run and stop_tree are at
    listed,     \* what /proc listed
    unread,     \* of those, the ones whose stat file is still to be read
    ppid,       \* ppid[p]: p's parent as its stat file had it; p itself if it had none to read
    tree,       \* the processes stop_tree works on
    sig,        \* the signal of this round
    todo        \* of the tree, the processes it is still to be sent to

procVars == <<status, parent, group>>
treeVars == <<listed, unread, ppid, tree>>
vars == <<procVars, termed, killed, pc, treeVars, sig, todo>>

Labels == {"communicate", "list", "read", "group", "each", "wait", "reap", "returned", "raised"}

TypeOK ==
    /\ status \in [Procs -> {"unborn", "running", "exited"}]
    /\ parent \in [Procs -> Procs \union {Reaper}]
    /\ group \in [Procs -> Procs]
    /\ termed \subseteq Procs
    /\ killed \subseteq Procs
    /\ pc \in Labels
    /\ listed \subseteq Procs
    /\ unread \subseteq Procs
    /\ ppid \in [Procs -> Procs \union {Reaper}]
    /\ tree \subseteq Procs
    /\ sig \in {"TERM", "KILL"}
    /\ todo \subseteq tree

NothingRead == [p \in Procs |-> p]

Init ==
    /\ status = [p \in Procs |-> IF p = Cmd THEN "running" ELSE "unborn"]
    /\ parent = [p \in Procs |-> Reaper]
    /\ group = [p \in Procs |-> p]
    /\ termed = {}
    /\ killed = {}
    /\ pc = "communicate"
    /\ listed = {}
    /\ unread = {}
    /\ ppid = NothingRead
    /\ tree = {}
    /\ sig = "TERM"
    /\ todo = {}

Alive(p) == status[p] = "running"

\* Nothing is followed beyond the end of run.
Over == pc \in {"returned", "raised"}

-----------------------------------------------------------------------------
(* The command's processes.                                                *)

\* A child is in its parent's group, or starts one of its own.
Fork(p, c) ==
    /\ ~Over
    /\ Alive(p)
    /\ p \notin killed
    /\ status[c] = "unborn" /\ \A q \in Procs : status[q] = "unborn" => c <= q
    /\ status' = [status EXCEPT ![c] = "running"]
    /\ parent' = [parent EXCEPT ![c] = p]
    /\ \E g \in {group[p], c} : group' = [group EXCEPT ![c] = g]
    /\ UNCHANGED <<termed, killed, pc, treeVars, sig, todo>>

\* Of itself, on SIGTERM or on SIGKILL; its children are orphans.
Exit(p) ==
    /\ ~Over
    /\ Alive(p)
    /\ status' = [status EXCEPT ![p] = "exited"]
    /\ parent' = [q \in Procs |-> IF parent[q] = p /\ Alive(q) THEN Reaper ELSE parent[q]]
    /\ UNCHANGED <<group, termed, killed, pc, treeVars, sig, todo>>

-----------------------------------------------------------------------------
(* run.                                                                    *)

Complete ==
    /\ pc = "communicate"
    /\ ~Alive(Cmd)
    /\ pc' = "returned"
    /\ UNCHANGED <<procVars, termed, killed, treeVars, sig, todo>>

\* The timeout, or whatever interrupts the caller.
Abandon ==
    /\ pc = "communicate"
    /\ pc' = "list"
    /\ UNCHANGED <<procVars, termed, killed, treeVars, sig, todo>>

-----------------------------------------------------------------------------
(* descendants: list /proc, read each stat file, walk from the command.    *)

List ==
    /\ pc = "list"
    /\ listed' = {p \in Procs : Alive(p)}
    /\ unread' = listed'
    /\ pc' = "read"
    /\ UNCHANGED <<procVars, termed, killed, ppid, tree, sig, todo>>

\* The stat file of a process that has exited may be there still, or gone.
ReadStat(p) ==
    /\ pc = "read"
    /\ p \in unread
    /\ unread' = unread \ {p}
    /\ \/ ppid' = [ppid EXCEPT ![p] = parent[p]]
       \/ ~Alive(p) /\ UNCHANGED ppid
    /\ UNCHANGED <<procVars, termed, killed, pc, listed, tree, sig, todo>>

\* `known` holds the command and every process whose parent it holds.
ClosedUnder(up, known) == Cmd \in known /\ \A p \in Procs : up[p] \in known => p \in known

Descendants(up) == {p \in Procs : \A known \in SUBSET Procs : ClosedUnder(up, known) => p \in known}

Children(up) == {Cmd} \union {p \in Procs : up[p] = Cmd}

WalkChildren ==
    /\ pc = "read"
    /\ unread = {}
    /\ tree' = Children(ppid)
    /\ todo' = tree'
    /\ ppid' = NothingRead
    /\ pc' = "group"
    /\ UNCHANGED <<procVars, termed, killed, listed, unread, sig>>

Walk ==
    /\ pc = "read"
    /\ unread = {}
    /\ tree' = Descendants(ppid)
    /\ todo' = tree'
    /\ ppid' = NothingRead
    /\ pc' = "group"
    /\ UNCHANGED <<procVars, termed, killed, listed, unread, sig>>

-----------------------------------------------------------------------------
(* stop_tree: two rounds of signals, each with a grace.                    *)

\* What the kernel does with a signal to the processes of a set.
Send(targets) ==
    LET reached == {p \in targets : Alive(p)} IN
    IF sig = "TERM"
    THEN termed' = termed \union reached /\ UNCHANGED killed
    ELSE killed' = killed \union reached /\ UNCHANGED termed

SignalGroup ==
    /\ pc = "group"
    /\ Send({p \in Procs : group[p] = Cmd})
    /\ pc' = "each"
    /\ listed' = {}
    /\ UNCHANGED <<procVars, unread, ppid, tree, sig, todo>>

SignalOne(p) ==
    /\ pc = "each"
    /\ p \in todo
    /\ Send({p})
    /\ todo' = todo \ {p}
    /\ UNCHANGED <<procVars, pc, treeVars, sig>>

AllSignalled ==
    /\ pc = "each"
    /\ todo = {}
    /\ pc' = "wait"
    /\ UNCHANGED <<procVars, termed, killed, treeVars, sig, todo>>

\* Nothing of the tree is alive: whatever round this is, it is the last.
TreeGone ==
    /\ pc = "wait"
    /\ \A p \in tree : ~Alive(p)
    /\ pc' = "reap"
    /\ UNCHANGED <<procVars, termed, killed, treeVars, sig, todo>>

GraceOverAtOnce ==
    /\ pc = "wait"
    /\ \E p \in tree : Alive(p)
    /\ pc' = "reap"
    /\ UNCHANGED <<procVars, termed, killed, treeVars, sig, todo>>

GraceOverReread ==
    /\ pc = "wait"
    /\ \E p \in tree : Alive(p)
    /\ IF sig = "TERM"
       THEN sig' = "KILL" /\ pc' = "list"
       ELSE pc' = "reap" /\ UNCHANGED sig
    /\ UNCHANGED <<procVars, termed, killed, treeVars, todo>>

GraceOverAgain ==
    /\ pc = "wait"
    /\ \E p \in tree : Alive(p)
    /\ sig' = "KILL" /\ todo' = tree /\ pc' = "group"
    /\ UNCHANGED <<procVars, termed, killed, treeVars>>

\* The grace is over and something of the tree is alive.
GraceOver ==
    /\ pc = "wait"
    /\ \E p \in tree : Alive(p)
    /\ IF sig = "TERM"
       THEN sig' = "KILL" /\ todo' = tree /\ pc' = "group"
       ELSE pc' = "reap" /\ UNCHANGED <<sig, todo>>
    /\ UNCHANGED <<procVars, termed, killed, treeVars>>

\* communicate collects what is left, for a grace at most; run raises.
Reap ==
    /\ pc = "reap"
    /\ pc' = "raised"
    /\ UNCHANGED <<procVars, termed, killed, treeVars, sig, todo>>

Stop == List \/ (\E p \in Procs : ReadStat(p)) \/ Walk \/ SignalGroup
        \/ (\E p \in Procs : SignalOne(p)) \/ AllSignalled \/ TreeGone \/ GraceOver \/ Reap

Next ==
    \/ \E p, c \in Procs : Fork(p, c)
    \/ \E p \in Procs : Exit(p)
    \/ Complete \/ Abandon
    \/ Stop

Spec == Init /\ [][Next]_vars

\* stop_tree itself keeps running: it waits for nothing without a deadline.
LiveSpec == Spec /\ WF_vars(Stop)

-----------------------------------------------------------------------------
(* What is promised.                                                       *)

\* The tree as the kernel has it: the command, and every process whose chain of
\* parents, each of them alive, leads to it.
Lineage == Descendants([p \in Procs |-> IF Alive(p) /\ parent[p] # Reaper THEN parent[p] ELSE p])

\* "every descendant found before the first signal" (process.py:7): however /proc
\* changed while it was read, a process that was there when it was listed, and is
\* still under the command when the walk ends, is in the tree.
LineageIsFound == pc = "group" /\ sig = "TERM" => Lineage \intersect listed \subseteq tree

\* A run that raises leaves none of its tree running that has not been killed
\* (process.py:68-70 goes round twice unless all of it is gone).
TreeIsStopped == pc = "raised" => \A p \in tree : Alive(p) => p \in killed

\* "SIGTERM, then SIGKILL to whatever outlives the grace" (process.py:8): nothing of
\* the tree is killed that was not asked first.
AskedFirst == [][(killed' \ killed) \intersect tree \subseteq termed]_vars

\* stop_tree ends whatever the processes do, also where they ignore SIGTERM and go
\* on forking: it waits for the tree it found, and each wait has a deadline.
StopEnds == (pc = "list") ~> (pc = "raised")
=============================================================================
