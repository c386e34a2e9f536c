----------------------------- MODULE BuildCache -----------------------------
(***************************************************************************)
(* rola_devtools/build/cache.py as builds on one machine share it: one     *)
(* entry directory keys/<key>, each process's .<key>.<pid> beside it, and  *)
(* the file-system steps of get, put and sweep that others can see.        *)
(*                                                                         *)
(* A directory is an inode with the parts written into it so far.  rmtree  *)
(* works on the inode it opened, part by part, in the order the directory  *)
(* lists them; then it removes the name, if what has the name is empty.    *)
(***************************************************************************)
EXTENDS Naturals, FiniteSets

CONSTANTS
    Builds,     \* the processes
    Entry,      \* the name keys/<key>; a build names its .<key>.<pid>
    MaxPuts     \* bound: puts by one process

ASSUME EntryAssumption == Entry \notin Builds
ASSUME BoundsAssumption == MaxPuts \in Nat

Names  == Builds \union {Entry}
Parts  == {"files", "output"}
Inodes == Builds \X (1 .. MaxPuts)
NoDir  == <<>>

VARIABLES
    dir,        \* dir[n]: the inode named n, or NoDir
    parts,      \* parts[i]: what inode i holds
    pc,         \* pc[b]: the step of get, put or sweep that b is at
    rm,         \* rm[b]: the name, the inode and the listing b's rmtree works on
    puts,       \* puts[b]: puts b has begun
    outcome,    \* outcome[b]: how b's latest operation ended
    opened      \* history: the inodes an rmtree has opened, and for what

vars == <<dir, parts, pc, rm, puts, outcome, opened>>

Labels == {"idle", "copy", "write", "clear", "remove", "rename", "touch", "read", "evict", "dead"}

NoRm == [name |-> Entry, inode |-> NoDir, todo |-> {}]

TypeOK ==
    /\ dir \in [Names -> Inodes \union {NoDir}]
    /\ parts \in [Inodes -> SUBSET Parts]
    /\ pc \in [Builds -> Labels]
    /\ rm \in [Builds -> [name : Names, inode : Inodes \union {NoDir}, todo : SUBSET Parts]]
    /\ puts \in [Builds -> 0 .. MaxPuts]
    /\ outcome \in [Builds -> {"none", "miss", "whole", "partial", "put", "get raised", "put raised"}]
    /\ opened \subseteq Inodes \X {"put", "sweep"}

Init ==
    /\ dir = [n \in Names |-> NoDir]
    /\ parts = [i \in Inodes |-> {}]
    /\ pc = [b \in Builds |-> "idle"]
    /\ rm = [b \in Builds |-> NoRm]
    /\ puts = [b \in Builds |-> 0]
    /\ outcome = [b \in Builds |-> "none"]
    /\ opened = {}

Goto(b, label) == pc' = [pc EXCEPT ![b] = label]

Ends(b, how) == Goto(b, "idle") /\ outcome' = [outcome EXCEPT ![b] = how]

Empty(i) == parts[i] = {}

EntryHolds(part) == dir[Entry] # NoDir /\ part \in parts[dir[Entry]]

-----------------------------------------------------------------------------
(* get: is output.json there; touch the entry; read it.                    *)

GetCheck(b) ==
    /\ pc[b] = "idle"
    /\ IF EntryHolds("output") THEN Goto(b, "touch") /\ UNCHANGED outcome ELSE Ends(b, "miss")
    /\ UNCHANGED <<dir, parts, rm, puts, opened>>

GetTouch(b) ==
    /\ pc[b] = "touch"
    /\ IF dir[Entry] # NoDir THEN Goto(b, "read") /\ UNCHANGED outcome ELSE Ends(b, "get raised")
    /\ UNCHANGED <<dir, parts, rm, puts, opened>>

GetRead(b) ==
    /\ pc[b] = "read"
    /\ Ends(b, IF ~EntryHolds("output") THEN "get raised"
               ELSE IF EntryHolds("files") THEN "whole" ELSE "partial")
    /\ UNCHANGED <<dir, parts, rm, puts, opened>>

-----------------------------------------------------------------------------
(* put: the directory beside the entry, its files, its JSON, then rmtree   *)
(* of the entry and rename.                                                *)

PutMake(b) ==
    /\ pc[b] = "idle"
    /\ puts[b] < MaxPuts
    /\ puts' = [puts EXCEPT ![b] = @ + 1]
    /\ dir' = [dir EXCEPT ![b] = <<b, puts[b] + 1>>]
    /\ Goto(b, "copy")
    /\ UNCHANGED <<parts, rm, outcome, opened>>

PutCopyLast(b) ==
    /\ pc[b] = "copy"
    /\ dir' = [dir EXCEPT ![b] = <<b, puts[b]>>]
    /\ parts' = [parts EXCEPT ![<<b, puts[b]>>] = @ \union {"files"}]
    /\ Goto(b, "clear")
    /\ UNCHANGED <<rm, puts, outcome, opened>>

\* copytree makes the directory again if a sweep removed it.
PutCopy(b) ==
    /\ pc[b] = "copy"
    /\ dir' = [dir EXCEPT ![b] = <<b, puts[b]>>]
    /\ parts' = [parts EXCEPT ![<<b, puts[b]>>] = @ \union {"files"}]
    /\ Goto(b, "write")
    /\ UNCHANGED <<rm, puts, outcome, opened>>

\* Writing into a directory a sweep removed raises.
PutWrite(b) ==
    /\ pc[b] = "write"
    /\ IF dir[b] = NoDir
       THEN Ends(b, "put raised") /\ UNCHANGED parts
       ELSE /\ parts' = [parts EXCEPT ![dir[b]] = @ \union {"output"}]
            /\ Goto(b, "clear")
            /\ UNCHANGED outcome
    /\ UNCHANGED <<dir, rm, puts, opened>>

\* b's rmtree opens and lists what has the name now.
Open(b, name, why) ==
    /\ rm' = [rm EXCEPT ![b] = [name |-> name, inode |-> dir[name], todo |-> parts[dir[name]]]]
    /\ opened' = opened \union {<<dir[name], why>>}

PutClear(b) ==
    /\ pc[b] = "clear"
    /\ IF dir[Entry] = NoDir
       THEN Goto(b, "rename") /\ UNCHANGED <<rm, opened>>
       ELSE Goto(b, "remove") /\ Open(b, Entry, "put")
    /\ UNCHANGED <<dir, parts, puts, outcome>>

\* rename(2) replaces an absent or an empty directory, and no other.
PutRename(b) ==
    /\ pc[b] = "rename"
    /\ IF dir[b] # NoDir /\ (dir[Entry] # NoDir => Empty(dir[Entry]))
       THEN /\ dir' = [dir EXCEPT ![Entry] = dir[b], ![b] = NoDir]
            /\ Ends(b, "put")
       ELSE /\ Ends(b, "put raised")
            /\ UNCHANGED dir
    /\ UNCHANGED <<parts, rm, puts, opened>>

-----------------------------------------------------------------------------
(* rmtree, of the entry by put or of whatever directory a sweep evicts.    *)

\* keys/ lists entries and the directories beside them alike.
SweepPick(b) ==
    /\ pc[b] = "idle"
    /\ \E name \in {n \in Names : dir[n] # NoDir} : Open(b, name, "sweep")
    /\ Goto(b, "evict")
    /\ UNCHANGED <<dir, parts, puts, outcome>>

RemovePart(b) ==
    /\ pc[b] \in {"remove", "evict"}
    /\ \E part \in rm[b].todo :
          /\ parts' = [parts EXCEPT ![rm[b].inode] = @ \ {part}]
          /\ rm' = [rm EXCEPT ![b].todo = @ \ {part}]
    /\ UNCHANGED <<dir, pc, puts, outcome, opened>>

RemoveNameAndReturn(b) ==
    /\ pc[b] \in {"remove", "evict"}
    /\ rm[b].todo = {}
    /\ LET name == rm[b].name IN
       dir' = IF dir[name] # NoDir /\ Empty(dir[name]) THEN [dir EXCEPT ![name] = NoDir] ELSE dir
    /\ rm' = [rm EXCEPT ![b] = NoRm]
    /\ Goto(b, "idle")
    /\ UNCHANGED <<parts, puts, outcome, opened>>

\* The last step removes the name if an empty directory has it; the error, if
\* not, is ignored.
RemoveName(b) ==
    /\ pc[b] \in {"remove", "evict"}
    /\ rm[b].todo = {}
    /\ LET name == rm[b].name IN
       dir' = IF dir[name] # NoDir /\ Empty(dir[name]) THEN [dir EXCEPT ![name] = NoDir] ELSE dir
    /\ rm' = [rm EXCEPT ![b] = NoRm]
    /\ Goto(b, IF pc[b] = "remove" THEN "rename" ELSE "idle")
    /\ UNCHANGED <<parts, puts, outcome, opened>>

\* SIGKILL at any point leaves every directory as it is.
Crash(b) ==
    /\ pc[b] # "dead"
    /\ Goto(b, "dead")
    /\ rm' = [rm EXCEPT ![b] = NoRm]
    /\ UNCHANGED <<dir, parts, puts, outcome, opened>>

Next ==
    \E b \in Builds :
        \/ GetCheck(b) \/ GetTouch(b) \/ GetRead(b)
        \/ PutMake(b) \/ PutCopy(b) \/ PutWrite(b) \/ PutClear(b) \/ PutRename(b)
        \/ SweepPick(b) \/ RemovePart(b) \/ RemoveName(b)
        \/ Crash(b)

Spec == Init /\ [][Next]_vars

-----------------------------------------------------------------------------
(* Safety.                                                                 *)

Quiet == \A b \in Builds : pc[b] \in {"idle", "dead"}

\* "An entry is written whole or not at all (built beside and renamed into
\* place)" (cache.py:4): whatever is killed and whenever, an entry lacks a part
\* only when an rmtree has been at it.
NeverHalfWritten ==
    dir[Entry] # NoDir /\ parts[dir[Entry]] # Parts =>
        \E why \in {"put", "sweep"} : <<dir[Entry], why>> \in opened

Undisturbed == (\A b \in Builds : pc[b] # "dead") /\ \A o \in opened : o[2] = "put"

\* Where builds only put and get, and none is killed: once the puts have ended,
\* however they interleaved and whichever of them raised, the entry is whole.
PutsLeaveAnEntry ==
    Quiet /\ Undisturbed /\ (\E b \in Builds : puts[b] > 0) =>
        dir[Entry] # NoDir /\ parts[dir[Entry]] = Parts

(* What the docs say of the code, where the code does otherwise.           *)

\* "An entry is written whole or not at all" (cache.py:4): once nobody is at work
\* on the cache, an entry a get would take for a hit has its files.
HitAtRestIsWhole == Quiet /\ EntryHolds("output") => EntryHolds("files")
=============================================================================
