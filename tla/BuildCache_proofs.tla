-------------------------- MODULE BuildCache_proofs --------------------------
(* Proofs about BuildCache, for every set of builds and any number of puts:   *)
(* an entry is whole unless an rmtree was at it, and puts leave one behind.   *)
EXTENDS BuildCache, TLAPS

LEMMA NamesDistinct == NoDir \notin Inodes /\ Entry \in Names /\ Builds \subseteq Names /\ Entry \notin Builds
BY EntryAssumption DEF NoDir, Inodes, Names

LEMMA InitType == Init => TypeOK
BY NamesDistinct, BoundsAssumption DEF Init, TypeOK, Labels, NoRm

LEMMA PutsCounted == TypeOK => \A b \in Builds : puts[b] \in Nat /\ puts[b] <= MaxPuts
<1> SUFFICES ASSUME puts \in [Builds -> 0 .. MaxPuts] PROVE \A b \in Builds : puts[b] \in Nat /\ puts[b] <= MaxPuts
  BY DEF TypeOK
<1> QED
  BY BoundsAssumption

\* A put that copies has begun.
CopyBegun == \A b \in Builds : pc[b] = "copy" => puts[b] > 0

LEMMA StepCopyBegun == TypeOK /\ CopyBegun /\ [Next]_vars => CopyBegun'
<1> SUFFICES ASSUME TypeOK, CopyBegun, [Next]_vars, NEW c \in Builds, pc'[c] = "copy" PROVE puts'[c] > 0
  BY DEF CopyBegun
<1>1. puts[c] \in Nat /\ DOMAIN puts = Builds /\ DOMAIN pc = Builds
  BY PutsCounted DEF TypeOK
<1>2. CASE puts' = puts /\ (pc'[c] = pc[c] \/ pc'[c] # "copy")
  BY <1>1, <1>2 DEF CopyBegun
<1>3. ASSUME NEW b \in Builds, PutMake(b) PROVE puts'[c] > 0
  BY <1>1, <1>3 DEF PutMake, Goto, CopyBegun
<1>4. CASE UNCHANGED vars
  BY <1>2, <1>4 DEF vars
<1>5. ASSUME NEW b \in Builds, GetCheck(b) \/ GetTouch(b) \/ GetRead(b) \/ PutCopy(b) \/ PutWrite(b) PROVE puts'[c] > 0
  BY <1>1, <1>2, <1>5 DEF GetCheck, GetTouch, GetRead, PutCopy, PutWrite, Goto, Ends
<1>6. ASSUME NEW b \in Builds, PutClear(b) \/ PutRename(b) \/ SweepPick(b) \/ RemovePart(b) \/ RemoveName(b) \/ Crash(b)
      PROVE puts'[c] > 0
  BY <1>1, <1>2, <1>6 DEF PutClear, PutRename, SweepPick, RemovePart, RemoveName, Crash, Goto, Ends
<1> QED
  BY <1>3, <1>4, <1>5, <1>6 DEF Next

Removals == [name : Names, inode : Inodes \union {NoDir}, todo : SUBSET Parts]

LEMMA OpenType ==
  ASSUME TypeOK, NEW b \in Builds, NEW name \in Names, NEW why \in {"put", "sweep"}, dir[name] # NoDir, Open(b, name, why)
  PROVE  rm' \in [Builds -> Removals] /\ opened' \subseteq Inodes \X {"put", "sweep"}
<1>1. dir[name] \in Inodes /\ parts[dir[name]] \in SUBSET Parts
  BY DEF TypeOK
<1>2. [name |-> name, inode |-> dir[name], todo |-> parts[dir[name]]] \in Removals
  BY <1>1 DEF Removals
<1>3. rm' \in [Builds -> Removals]
  BY <1>2 DEF Open, TypeOK, Removals
<1>4. opened' \subseteq Inodes \X {"put", "sweep"}
  <2>1. opened \subseteq Inodes \X {"put", "sweep"}
    BY DEF TypeOK
  <2>2. <<dir[name], why>> \in Inodes \X {"put", "sweep"}
    BY <1>1
  <2> QED
    BY <2>1, <2>2 DEF Open
<1> QED
  BY <1>3, <1>4

LEMMA StepType == TypeOK /\ CopyBegun /\ [Next]_vars => TypeOK'
<1> SUFFICES ASSUME TypeOK, CopyBegun, [Next]_vars PROVE TypeOK'
  OBVIOUS
<1> USE NamesDistinct DEF Goto, Ends, Labels
<1>1. ASSUME NEW b \in Builds, GetCheck(b) \/ GetTouch(b) \/ GetRead(b) PROVE TypeOK'
  BY <1>1 DEF GetCheck, GetTouch, GetRead, TypeOK
<1>2. ASSUME NEW b \in Builds, PutMake(b) PROVE TypeOK'
  <2>1. puts[b] \in 0 .. MaxPuts /\ puts[b] < MaxPuts
    BY <1>2 DEF PutMake, TypeOK
  <2>2. puts[b] + 1 \in 1 .. MaxPuts
    BY <2>1, BoundsAssumption
  <2>3. <<b, puts[b] + 1>> \in Inodes
    BY <2>2 DEF Inodes
  <2>4. dir' \in [Names -> Inodes \union {NoDir}]
    BY <1>2, <2>3 DEF PutMake, TypeOK
  <2>5. puts[b] + 1 \in 0 .. MaxPuts
    BY <2>1, BoundsAssumption
  <2>6. puts' \in [Builds -> 0 .. MaxPuts]
    BY <1>2, <2>5 DEF PutMake, TypeOK
  <2> QED
    BY <1>2, <2>4, <2>6 DEF PutMake, TypeOK
<1>3. ASSUME NEW b \in Builds, PutCopy(b) PROVE TypeOK'
  <2>1. puts[b] \in 1 .. MaxPuts
    BY <1>3, PutsCounted, BoundsAssumption DEF PutCopy, CopyBegun
  <2>2. <<b, puts[b]>> \in Inodes
    BY <2>1 DEF Inodes
  <2>3. dir' \in [Names -> Inodes \union {NoDir}]
    BY <1>3, <2>2 DEF PutCopy, TypeOK
  <2>4. parts' \in [Inodes -> SUBSET Parts]
    BY <1>3 DEF PutCopy, Parts, TypeOK
  <2> QED
    BY <1>3, <2>3, <2>4 DEF PutCopy, TypeOK
<1>4. ASSUME NEW b \in Builds, PutWrite(b) PROVE TypeOK'
  <2>1. parts' = parts \/ parts' = [parts EXCEPT ![dir[b]] = @ \union {"output"}]
    BY <1>4 DEF PutWrite
  <2>2. parts \in [Inodes -> SUBSET Parts]
    BY DEF TypeOK
  <2>3. parts' \in [Inodes -> SUBSET Parts]
    BY <2>1, <2>2 DEF Parts
  <2> QED
    BY <1>4, <2>3 DEF PutWrite, TypeOK
<1>5. ASSUME NEW b \in Builds, PutClear(b) PROVE TypeOK'
  BY <1>5, OpenType DEF PutClear, TypeOK, Removals
<1>6. ASSUME NEW b \in Builds, PutRename(b) PROVE TypeOK'
  BY <1>6 DEF PutRename, TypeOK
<1>7. ASSUME NEW b \in Builds, SweepPick(b) PROVE TypeOK'
  BY <1>7, OpenType DEF SweepPick, TypeOK, Removals
<1>8. ASSUME NEW b \in Builds, RemovePart(b) PROVE TypeOK'
  <2>1. PICK part \in rm[b].todo : /\ parts' = [parts EXCEPT ![rm[b].inode] = @ \ {part}]
                                   /\ rm' = [rm EXCEPT ![b].todo = @ \ {part}]
    BY <1>8 DEF RemovePart
  <2>2. parts' \in [Inodes -> SUBSET Parts]
    BY <2>1 DEF TypeOK
  <2>3. rm \in [Builds -> Removals]
    BY DEF TypeOK, Removals
  <2>4. rm' \in [Builds -> Removals]
    BY <2>1, <2>3 DEF Removals
  <2> QED
    BY <1>8, <2>2, <2>4 DEF RemovePart, TypeOK, Removals
<1>9. ASSUME NEW b \in Builds, RemoveName(b) PROVE TypeOK'
  <2>1. dir' \in [Names -> Inodes \union {NoDir}]
    BY <1>9 DEF RemoveName, TypeOK
  <2>2. NoRm \in Removals
    BY DEF NoRm, Removals
  <2>3. rm' \in [Builds -> Removals]
    BY <1>9, <2>2 DEF RemoveName, TypeOK, Removals
  <2> QED
    BY <1>9, <2>1, <2>3 DEF RemoveName, TypeOK, Removals
<1>10. ASSUME NEW b \in Builds, Crash(b) PROVE TypeOK'
  <2>1. NoRm \in Removals
    BY DEF NoRm, Removals
  <2>2. rm' \in [Builds -> Removals]
    BY <1>10, <2>1 DEF Crash, TypeOK, Removals
  <2> QED
    BY <1>10, <2>2 DEF Crash, TypeOK, Removals
<1>11. CASE UNCHANGED vars
  BY <1>11 DEF vars, TypeOK
<1> QED
  BY <1>1, <1>2, <1>3, <1>4, <1>5, <1>6, <1>7, <1>8, <1>9, <1>10, <1>11 DEF Next

\* The cache starts each variable, and each step keeps it, in its type.
THEOREM TypeCorrect == Spec => []TypeOK
<1>1. Init => TypeOK /\ CopyBegun
  BY InitType DEF Init, CopyBegun
<1>2. (TypeOK /\ CopyBegun) /\ [Next]_vars => (TypeOK /\ CopyBegun)'
  BY StepType, StepCopyBegun
<1> QED
  BY <1>1, <1>2, PTL DEF Spec

-----------------------------------------------------------------------------
(* What the directories hold at each point of each build.                    *)

Opened(i) == \E why \in {"put", "sweep"} : <<i, why>> \in opened

\* The inode b's latest put works on.
Own(b) == <<b, puts[b]>>

Putting(b) == pc[b] \in {"copy", "write", "clear", "remove", "rename"}

\* What a put has written is there, unless an rmtree has been at it.
WrittenOrOpened ==
    \A b \in Builds : dir[b] # NoDir =>
        /\ pc[b] = "write" => "files" \in parts[dir[b]] \/ Opened(dir[b])
        /\ pc[b] \in {"clear", "remove", "rename"} => parts[dir[b]] = Parts \/ Opened(dir[b])

\* What an rmtree works on, and that it will have removed all of it.
RemovalMatchesProgram ==
    \A b \in Builds :
        /\ pc[b] \in {"remove", "evict"} => rm[b].inode \in Inodes
        /\ pc[b] = "evict" => <<rm[b].inode, "sweep">> \in opened
        /\ pc[b] = "remove" =>
              /\ rm[b].name = Entry
              /\ <<rm[b].inode, "put">> \in opened
              /\ parts[rm[b].inode] \subseteq rm[b].todo

\* A put's inode is the entry, or opened by another put, only after its rename.
OwnMatchesProgram ==
    /\ \A b \in Builds : dir[b] # NoDir => dir[b] = Own(b)
    /\ \A b \in Builds : Putting(b) =>
          puts[b] > 0 /\ dir[Entry] # Own(b) /\ <<Own(b), "put">> \notin opened
    /\ \A b \in Builds, n \in 1 .. MaxPuts : n > puts[b] =>
          dir[Entry] # <<b, n>> /\ <<<<b, n>>, "put">> \notin opened

\* Undisturbed, a put keeps its directory; an entry lacks a part only while a put
\* removes it; and after the first put there is a whole entry or a put to come.
PutsMatchEntry ==
    Undisturbed =>
        /\ \A b \in Builds : Putting(b) => dir[b] # NoDir
        /\ dir[Entry] # NoDir /\ parts[dir[Entry]] # Parts =>
              \E b \in Builds : pc[b] = "remove" /\ rm[b].inode = dir[Entry]
        /\ (\E b \in Builds : puts[b] > 0) =>
              \/ dir[Entry] # NoDir /\ parts[dir[Entry]] = Parts
              \/ \E b \in Builds : Putting(b)

CacheMatchesProgram ==
    /\ TypeOK
    /\ NeverHalfWritten
    /\ WrittenOrOpened
    /\ RemovalMatchesProgram
    /\ OwnMatchesProgram
    /\ PutsMatchEntry

LEMMA InitCache == Init => CacheMatchesProgram
<1> SUFFICES ASSUME Init PROVE CacheMatchesProgram
  OBVIOUS
<1>1. TypeOK
  BY InitType
<1>2. /\ \A n \in Names : dir[n] = NoDir
      /\ \A b \in Builds : pc[b] = "idle" /\ puts[b] = 0
      /\ opened = {}
  BY DEF Init
<1>3. NeverHalfWritten /\ WrittenOrOpened /\ RemovalMatchesProgram
  BY <1>2, NamesDistinct DEF NeverHalfWritten, WrittenOrOpened, RemovalMatchesProgram
<1>4. OwnMatchesProgram
  <2>1. \A b \in Builds, n \in 1 .. MaxPuts : <<b, n>> # NoDir
    BY NamesDistinct DEF Inodes
  <2> QED
    BY <1>2, <2>1, NamesDistinct DEF OwnMatchesProgram, Putting
<1>5. PutsMatchEntry
  BY <1>2, NamesDistinct DEF PutsMatchEntry, Putting
<1> QED
  BY <1>1, <1>3, <1>4, <1>5 DEF CacheMatchesProgram

\* Nothing forgets what an rmtree has opened, and only an rmtree removes parts.
LEMMA PartsStay ==
  ASSUME TypeOK, TypeOK', RemovalMatchesProgram, [Next]_vars, NEW i \in Inodes
  PROVE  /\ opened \subseteq opened'
         /\ Opened(i) => Opened(i)'
         /\ parts[i] \subseteq parts'[i] \/ Opened(i)'
         /\ parts[i] = Parts => parts'[i] = Parts \/ Opened(i)'
<1>1. opened \subseteq opened'
  BY DEF Next, vars, GetCheck, GetTouch, GetRead, PutMake, PutCopy, PutWrite, PutClear, PutRename, SweepPick,
         RemovePart, RemoveName, Crash, Open
<1>2. Opened(i) => Opened(i)'
  BY <1>1 DEF Opened
<1>3. parts[i] \subseteq parts'[i] \/ Opened(i)'
  <2>1. CASE parts' = parts
    BY <2>1
  <2>2. ASSUME NEW b \in Builds, PutCopy(b) PROVE parts[i] \subseteq parts'[i]
    BY <2>2 DEF PutCopy, TypeOK
  <2>3. ASSUME NEW b \in Builds, PutWrite(b) PROVE parts[i] \subseteq parts'[i]
    BY <2>3 DEF PutWrite, TypeOK
  <2>4. ASSUME NEW b \in Builds, RemovePart(b) PROVE parts[i] \subseteq parts'[i] \/ Opened(i)'
    <3>1. Opened(rm[b].inode)
      BY <2>4 DEF RemovePart, RemovalMatchesProgram, Opened
    <3>2. PICK part : parts' = [parts EXCEPT ![rm[b].inode] = @ \ {part}]
      BY <2>4 DEF RemovePart
    <3>3. CASE i = rm[b].inode
      BY <3>1, <3>3, <1>2
    <3>4. CASE i # rm[b].inode
      BY <3>2, <3>4 DEF TypeOK
    <3> QED
      BY <3>3, <3>4
  <2> QED
    BY <2>1, <2>2, <2>3, <2>4
    DEF Next, vars, GetCheck, GetTouch, GetRead, PutMake, PutClear, PutRename, SweepPick, RemoveName, Crash
<1>4. parts'[i] \subseteq Parts
  BY DEF TypeOK
<1> QED
  BY <1>1, <1>2, <1>3, <1>4

\* A step of another build leaves what b's put has written.
LEMMA StepWritten ==
  ASSUME CacheMatchesProgram, TypeOK', [Next]_vars PROVE WrittenOrOpened'
<1> TypeOK /\ WrittenOrOpened /\ RemovalMatchesProgram
  BY DEF CacheMatchesProgram
<1> SUFFICES ASSUME NEW c \in Builds, NEW i \in Inodes, dir'[c] = i
             PROVE  /\ pc'[c] = "write" => "files" \in parts'[i] \/ Opened(i)'
                    /\ pc'[c] \in {"clear", "remove", "rename"} => parts'[i] = Parts \/ Opened(i)'
  <2>1. \A c \in Builds : dir'[c] # NoDir => dir'[c] \in Inodes
    BY NamesDistinct DEF TypeOK
  <2> QED
    BY <2>1 DEF WrittenOrOpened, Opened
<1>1. i # NoDir
  BY NamesDistinct
<1>2. CASE dir'[c] = dir[c] /\ (pc'[c] = pc[c] \/ (pc[c] \in {"clear", "remove"} /\ pc'[c] # "write"))
  <2>1. /\ pc[c] = "write" => "files" \in parts[i] \/ Opened(i)
        /\ pc[c] \in {"clear", "remove", "rename"} => parts[i] = Parts \/ Opened(i)
    BY <1>1, <1>2 DEF WrittenOrOpened
  <2> QED
    BY <1>2, <2>1, PartsStay
<1>3. CASE pc'[c] \notin {"write", "clear", "remove", "rename"}
  BY <1>3
<1>4. CASE PutCopy(c)
  <2>1. i = <<c, puts[c]>> /\ pc'[c] = "write"
    BY <1>4, NamesDistinct DEF PutCopy, Goto, TypeOK
  <2>2. "files" \in parts'[i]
    BY <1>4, <2>1 DEF PutCopy, TypeOK
  <2> QED
    BY <2>1, <2>2
<1>5. CASE PutWrite(c)
  <2>1. CASE dir[c] = NoDir
    BY <1>1, <1>5, <2>1 DEF PutWrite
  <2>2. CASE dir[c] # NoDir
    <3>1. pc[c] = "write" /\ dir'[c] = dir[c] /\ opened' = opened
          /\ pc'[c] = "clear" /\ parts' = [parts EXCEPT ![dir[c]] = @ \union {"output"}]
      BY <1>5, <2>2 DEF PutWrite, Goto, TypeOK
    <3>2. "files" \in parts[i] => parts'[i] = Parts
      <4>1. parts[i] \subseteq Parts /\ parts'[i] = parts[i] \union {"output"}
        BY <3>1 DEF TypeOK
      <4> QED
        BY <4>1 DEF Parts
    <3>3. "files" \in parts[i] \/ Opened(i)
      BY <2>2, <3>1 DEF WrittenOrOpened
    <3> QED
      BY <3>1, <3>2, <3>3 DEF Opened
  <2> QED
    BY <2>1, <2>2
<1>6. ASSUME NEW b \in Builds, b # c, PutMake(b) \/ PutCopy(b) \/ PutWrite(b) \/ PutClear(b)
      PROVE dir'[c] = dir[c] /\ pc'[c] = pc[c]
  BY <1>6, NamesDistinct DEF PutMake, PutCopy, PutWrite, PutClear, Goto, Ends, TypeOK
<1>7. ASSUME NEW b \in Builds, b # c, PutRename(b) \/ GetCheck(b) \/ GetTouch(b) \/ GetRead(b)
      PROVE dir'[c] = dir[c] /\ pc'[c] = pc[c]
  BY <1>7, NamesDistinct DEF PutRename, GetCheck, GetTouch, GetRead, Goto, Ends, TypeOK
<1>8. ASSUME NEW b \in Builds, b # c, SweepPick(b) \/ RemovePart(b) \/ RemoveName(b) \/ Crash(b)
      PROVE dir'[c] = dir[c] /\ pc'[c] = pc[c]
  BY <1>8, NamesDistinct DEF SweepPick, RemovePart, RemoveName, Crash, Goto, TypeOK
<1>9. CASE PutMake(c) \/ PutRename(c) \/ GetCheck(c) \/ GetTouch(c) \/ GetRead(c) \/ SweepPick(c) \/ Crash(c)
  BY <1>3, <1>9 DEF PutMake, PutRename, GetCheck, GetTouch, GetRead, SweepPick, Crash, Goto, Ends, TypeOK
<1>10. CASE PutClear(c) \/ RemovePart(c)
  BY <1>2, <1>10 DEF PutClear, RemovePart, Goto, TypeOK
<1>11. CASE RemoveName(c)
  <2>1. dir'[c] = dir[c]
    BY <1>1, <1>11, NamesDistinct DEF RemoveName, TypeOK
  <2> QED
    BY <1>2, <1>3, <1>11, <2>1 DEF RemoveName, Goto, TypeOK
<1>12. CASE UNCHANGED vars
  BY <1>2, <1>12 DEF vars
<1> QED
  BY <1>2, <1>4, <1>5, <1>6, <1>7, <1>8, <1>9, <1>10, <1>11, <1>12 DEF Next

LEMMA StepEntry ==
  ASSUME CacheMatchesProgram, TypeOK', [Next]_vars PROVE NeverHalfWritten'
<1> TypeOK /\ WrittenOrOpened /\ RemovalMatchesProgram /\ NeverHalfWritten
  BY DEF CacheMatchesProgram
<1> SUFFICES ASSUME NEW i \in Inodes, dir'[Entry] = i PROVE parts'[i] = Parts \/ Opened(i)'
  <2>1. dir'[Entry] # NoDir => dir'[Entry] \in Inodes
    BY NamesDistinct DEF TypeOK
  <2> QED
    BY <2>1 DEF NeverHalfWritten, Opened
<1>1. i # NoDir
  BY NamesDistinct
<1>2. CASE dir'[Entry] = dir[Entry]
  <2>1. parts[i] = Parts \/ Opened(i)
    BY <1>1, <1>2 DEF NeverHalfWritten, Opened
  <2> QED
    BY <2>1, PartsStay
<1>3. ASSUME NEW b \in Builds, PutRename(b), dir'[Entry] # dir[Entry]
      PROVE parts'[i] = Parts \/ Opened(i)'
  <2>1. pc[b] = "rename" /\ dir[b] = i
    BY <1>3, NamesDistinct DEF PutRename, TypeOK
  <2>2. parts[i] = Parts \/ Opened(i)
    BY <1>1, <2>1 DEF WrittenOrOpened
  <2> QED
    BY <2>2, PartsStay
<1>4. ASSUME NEW b \in Builds, PutMake(b) \/ PutCopy(b) \/ RemoveName(b) PROVE dir'[Entry] = dir[Entry]
  BY <1>4, NamesDistinct DEF PutMake, PutCopy, RemoveName, TypeOK
<1> QED
  BY <1>2, <1>3, <1>4
  DEF Next, vars, GetCheck, GetTouch, GetRead, PutWrite, PutClear, SweepPick, RemovePart, Crash

\* While a build removes what it opened, no put adds to it.
LEMMA StepRemoval ==
  ASSUME CacheMatchesProgram, TypeOK', [Next]_vars PROVE RemovalMatchesProgram'
<1> TypeOK /\ RemovalMatchesProgram /\ OwnMatchesProgram
  BY DEF CacheMatchesProgram
<1> SUFFICES ASSUME NEW c \in Builds, pc'[c] \in {"remove", "evict"}
             PROVE  /\ rm'[c].inode \in Inodes
                    /\ pc'[c] = "evict" => <<rm'[c].inode, "sweep">> \in opened'
                    /\ pc'[c] = "remove" =>
                          /\ rm'[c].name = Entry
                          /\ <<rm'[c].inode, "put">> \in opened'
                          /\ parts'[rm'[c].inode] \subseteq rm'[c].todo
  BY DEF RemovalMatchesProgram
<1>1. CASE pc'[c] = pc[c] /\ rm'[c] = rm[c] /\ (parts' = parts \/ \E b \in Builds : RemovePart(b))
  <2>1. opened \subseteq opened' /\ rm[c].inode \in Inodes
    BY <1>1, NamesDistinct, PartsStay DEF RemovalMatchesProgram
  <2>2. parts'[rm[c].inode] \subseteq parts[rm[c].inode]
    <3>1. ASSUME NEW b \in Builds, RemovePart(b) PROVE parts'[rm[c].inode] \subseteq parts[rm[c].inode]
      <4>1. PICK part : parts' = [parts EXCEPT ![rm[b].inode] = @ \ {part}]
        BY <3>1 DEF RemovePart
      <4> QED
        BY <2>1, <4>1 DEF TypeOK
    <3> QED
      BY <1>1, <3>1
  <2> QED
    BY <1>1, <2>1, <2>2 DEF RemovalMatchesProgram
<1>2. ASSUME NEW b \in Builds, b # c,
             GetCheck(b) \/ GetTouch(b) \/ GetRead(b) \/ PutMake(b) \/ PutRename(b) \/ RemoveName(b) \/ Crash(b)
      PROVE pc'[c] = pc[c] /\ rm'[c] = rm[c] /\ parts' = parts
  BY <1>2 DEF GetCheck, GetTouch, GetRead, PutMake, PutRename, RemoveName, Crash, Goto, Ends, TypeOK
<1>3. ASSUME NEW b \in Builds, b # c, PutClear(b) \/ SweepPick(b)
      PROVE pc'[c] = pc[c] /\ rm'[c] = rm[c] /\ parts' = parts
  BY <1>3 DEF PutClear, SweepPick, Open, Goto, TypeOK
<1>4. ASSUME NEW b \in Builds, b # c, RemovePart(b) PROVE pc'[c] = pc[c] /\ rm'[c] = rm[c]
  BY <1>4 DEF RemovePart, TypeOK
<1>5. ASSUME NEW b \in Builds, b # c, PutCopy(b) \/ PutWrite(b)
      PROVE  /\ pc'[c] = pc[c] /\ rm'[c] = rm[c] /\ opened' = opened
             /\ \A i \in Inodes : i # Own(b) => parts'[i] = parts[i]
  <2>1. pc'[c] = pc[c] /\ rm'[c] = rm[c] /\ opened' = opened
    BY <1>5 DEF PutCopy, PutWrite, Goto, Ends, TypeOK
  <2>2. PutWrite(b) /\ dir[b] # NoDir => dir[b] = Own(b)
    BY DEF OwnMatchesProgram
  <2>3. \A i \in Inodes : i # Own(b) => parts'[i] = parts[i]
    BY <1>5, <2>2 DEF PutCopy, PutWrite, Own, TypeOK
  <2> QED
    BY <2>1, <2>3
<1>6. ASSUME NEW b \in Builds, b # c, PutCopy(b) \/ PutWrite(b), pc'[c] = "remove"
      PROVE parts'[rm'[c].inode] \subseteq rm'[c].todo
  <2>1. <<Own(b), "put">> \notin opened
    BY <1>6 DEF OwnMatchesProgram, Putting, PutCopy, PutWrite
  <2>2. rm[c].inode \in Inodes /\ rm[c].inode # Own(b)
    BY <1>5, <1>6, <2>1 DEF RemovalMatchesProgram
  <2> QED
    BY <1>5, <1>6, <2>2 DEF RemovalMatchesProgram
<1>7. CASE GetCheck(c) \/ GetTouch(c) \/ GetRead(c) \/ PutMake(c) \/ PutCopy(c) \/ PutWrite(c) \/ PutRename(c)
  BY <1>7 DEF GetCheck, GetTouch, GetRead, PutMake, PutCopy, PutWrite, PutRename, Goto, Ends, TypeOK
<1>8. CASE RemoveName(c) \/ Crash(c)
  BY <1>8 DEF RemoveName, Crash, Goto, TypeOK
<1>9. CASE PutClear(c)
  <2>1. dir[Entry] # NoDir /\ Open(c, Entry, "put") /\ pc'[c] = "remove" /\ parts' = parts
    BY <1>9 DEF PutClear, Goto, TypeOK
  <2>2. rm'[c] = [name |-> Entry, inode |-> dir[Entry], todo |-> parts[dir[Entry]]]
    BY <2>1 DEF Open, TypeOK
  <2>3. dir[Entry] \in Inodes /\ <<dir[Entry], "put">> \in opened'
    BY <2>1, NamesDistinct DEF Open, TypeOK
  <2> QED
    BY <2>1, <2>2, <2>3
<1>10. CASE SweepPick(c)
  <2>1. PICK name \in Names : dir[name] # NoDir /\ Open(c, name, "sweep")
    BY <1>10 DEF SweepPick
  <2>2. rm'[c].inode = dir[name]
    BY <2>1 DEF Open, TypeOK
  <2>3. dir[name] \in Inodes /\ <<dir[name], "sweep">> \in opened'
    BY <2>1 DEF Open, TypeOK
  <2>4. pc'[c] = "evict"
    BY <1>10 DEF SweepPick, Goto, TypeOK
  <2> QED
    BY <2>2, <2>3, <2>4
<1>11. CASE RemovePart(c)
  <2>1. PICK part : /\ parts' = [parts EXCEPT ![rm[c].inode] = @ \ {part}]
                    /\ rm' = [rm EXCEPT ![c].todo = @ \ {part}]
    BY <1>11 DEF RemovePart
  <2>2. pc'[c] = pc[c] /\ opened' = opened
    BY <1>11 DEF RemovePart
  <2>3. rm'[c].name = rm[c].name /\ rm'[c].inode = rm[c].inode /\ rm'[c].todo = rm[c].todo \ {part}
    BY <2>1 DEF TypeOK
  <2>4. rm[c].inode \in Inodes
    BY <2>2 DEF RemovalMatchesProgram
  <2>5. parts'[rm[c].inode] = parts[rm[c].inode] \ {part}
    BY <2>1, <2>4 DEF TypeOK
  <2> QED
    BY <2>2, <2>3, <2>4, <2>5 DEF RemovalMatchesProgram
<1>12. CASE UNCHANGED vars
  BY <1>1, <1>12 DEF vars
<1>13. ASSUME NEW b \in Builds, b # c, PutCopy(b) \/ PutWrite(b)
       PROVE  /\ rm'[c].inode \in Inodes
              /\ pc'[c] = "evict" => <<rm'[c].inode, "sweep">> \in opened'
              /\ pc'[c] = "remove" => rm'[c].name = Entry /\ <<rm'[c].inode, "put">> \in opened'
  BY <1>5, <1>13 DEF RemovalMatchesProgram
<1> QED
  BY <1>1, <1>2, <1>3, <1>4, <1>6, <1>7, <1>8, <1>9, <1>10, <1>11, <1>12, <1>13 DEF Next

\* How a step changes the entry, what puts have opened, and who puts.
LEMMA EntryChanges ==
  ASSUME TypeOK, [Next]_vars, dir'[Entry] # dir[Entry], dir'[Entry] # NoDir
  PROVE  \E b \in Builds : PutRename(b) /\ dir[b] # NoDir /\ dir'[Entry] = dir[b] /\ (dir[Entry] = NoDir \/ Empty(dir[Entry]))
<1>1. ASSUME NEW b \in Builds, PutMake(b) \/ PutCopy(b) \/ RemoveName(b) PROVE FALSE
  BY <1>1, NamesDistinct DEF PutMake, PutCopy, RemoveName, TypeOK
<1>2. ASSUME NEW b \in Builds, PutRename(b)
      PROVE dir[b] # NoDir /\ dir'[Entry] = dir[b] /\ (dir[Entry] = NoDir \/ Empty(dir[Entry]))
  BY <1>2, NamesDistinct DEF PutRename, TypeOK
<1> QED
  BY <1>1, <1>2
  DEF Next, vars, GetCheck, GetTouch, GetRead, PutWrite, PutClear, SweepPick, RemovePart, Crash

LEMMA OpenedChanges ==
  ASSUME TypeOK, [Next]_vars, NEW i, <<i, "put">> \in opened', <<i, "put">> \notin opened
  PROVE  i = dir[Entry] /\ UNCHANGED <<dir, puts>>
<1>1. ASSUME NEW b \in Builds, PutClear(b) PROVE i = dir[Entry] /\ UNCHANGED <<dir, puts>>
  <2>1. opened' = opened \/ opened' = opened \union {<<dir[Entry], "put">>}
    BY <1>1 DEF PutClear, Open
  <2>2. UNCHANGED <<dir, puts>>
    BY <1>1 DEF PutClear
  <2> QED
    BY <2>1, <2>2
<1>2. ASSUME NEW b \in Builds, SweepPick(b) PROVE FALSE
  <2>1. PICK name : opened' = opened \union {<<dir[name], "sweep">>}
    BY <1>2 DEF SweepPick, Open
  <2> QED
    BY <2>1
<1> QED
  BY <1>1, <1>2
  DEF Next, vars, GetCheck, GetTouch, GetRead, PutMake, PutCopy, PutWrite, PutRename, RemovePart, RemoveName, Crash

LEMMA PuttingChanges ==
  ASSUME TypeOK, [Next]_vars, NEW c \in Builds
  PROVE  /\ Putting(c)' => PutMake(c) \/ (Putting(c) /\ puts'[c] = puts[c])
         /\ ~PutMake(c) => puts'[c] = puts[c]
         /\ PutRename(c) => ~Putting(c)'
<1> USE DEF Putting, Goto, Ends
<1>1. ASSUME NEW b \in Builds, GetCheck(b) \/ GetTouch(b) \/ GetRead(b) \/ PutRename(b)
      PROVE puts' = puts /\ (pc'[c] = pc[c] \/ pc'[c] \in {"idle", "touch", "read"})
  BY <1>1 DEF GetCheck, GetTouch, GetRead, PutRename, TypeOK
<1>2. ASSUME NEW b \in Builds, PutCopy(b) \/ PutWrite(b) \/ PutClear(b)
      PROVE puts' = puts /\ (pc'[c] = pc[c] \/ pc[c] \in {"copy", "write", "clear"})
  BY <1>2 DEF PutCopy, PutWrite, PutClear, TypeOK
<1>3. ASSUME NEW b \in Builds, SweepPick(b) \/ RemovePart(b) \/ RemoveName(b) \/ Crash(b)
      PROVE puts' = puts /\ (pc'[c] = pc[c] \/ pc[c] = "remove" \/ pc'[c] \in {"idle", "evict", "dead"})
  BY <1>3 DEF SweepPick, RemovePart, RemoveName, Crash, TypeOK
<1>4. ASSUME NEW b \in Builds, PutMake(b), b # c PROVE pc'[c] = pc[c] /\ puts'[c] = puts[c]
  BY <1>4 DEF PutMake, TypeOK
<1>5. PutRename(c) => pc'[c] = "idle"
  BY DEF PutRename, TypeOK
<1> QED
  BY <1>1, <1>2, <1>3, <1>4, <1>5 DEF Next, vars

LEMMA NextInode ==
  ASSUME TypeOK, NEW c \in Builds, PutMake(c)
  PROVE  /\ puts[c] + 1 \in 1 .. MaxPuts /\ puts'[c] = puts[c] + 1
         /\ opened' = opened /\ dir'[Entry] = dir[Entry] /\ dir'[c] = <<c, puts[c] + 1>>
<1>1. puts[c] \in Nat /\ puts[c] < MaxPuts
  BY PutsCounted DEF PutMake
<1>2. puts[c] + 1 \in 1 .. MaxPuts
  BY <1>1, BoundsAssumption
<1>3. puts'[c] = puts[c] + 1 /\ opened' = opened
  BY DEF PutMake, TypeOK
<1>4. dir'[Entry] = dir[Entry] /\ dir'[c] = <<c, puts[c] + 1>>
  BY NamesDistinct DEF PutMake, TypeOK
<1> QED
  BY <1>2, <1>3, <1>4

LEMMA StepOwn ==
  ASSUME CacheMatchesProgram, TypeOK', [Next]_vars PROVE OwnMatchesProgram'
<1> TypeOK /\ OwnMatchesProgram
  BY DEF CacheMatchesProgram
<1>1. ASSUME NEW c \in Builds, dir'[c] # NoDir PROVE dir'[c] = <<c, puts'[c]>>
  <2>1. CASE PutMake(c)
    BY <2>1, NextInode
  <2>2. CASE ~PutMake(c) /\ dir'[c] = dir[c]
    BY <1>1, <2>2, PuttingChanges DEF OwnMatchesProgram, Own
  <2>3. CASE PutCopy(c)
    BY <2>3, NamesDistinct DEF PutCopy, TypeOK
  <2>4. ASSUME NEW b \in Builds, b # c, PutMake(b) \/ PutCopy(b) PROVE dir'[c] = dir[c]
    BY <2>4, NamesDistinct DEF PutMake, PutCopy, TypeOK
  <2>5. ASSUME NEW b \in Builds, PutRename(b) \/ RemoveName(b) PROVE dir'[c] = dir[c]
    BY <1>1, <2>5, NamesDistinct DEF PutRename, RemoveName, TypeOK
  <2> QED
    BY <2>1, <2>2, <2>3, <2>4, <2>5
    DEF Next, vars, GetCheck, GetTouch, GetRead, PutWrite, PutClear, SweepPick, RemovePart, Crash
<1>2. ASSUME NEW c \in Builds, NEW n \in 1 .. MaxPuts, dir[Entry] # <<c, n>>, <<<<c, n>>, "put">> \notin opened,
             \A b \in Builds : PutRename(b) => dir[b] # <<c, n>>
      PROVE  dir'[Entry] # <<c, n>> /\ <<<<c, n>>, "put">> \notin opened'
  <2>1. <<c, n>> # NoDir
    BY NamesDistinct DEF Inodes
  <2>2. dir'[Entry] # <<c, n>>
    BY <1>2, <2>1, EntryChanges
  <2>3. <<<<c, n>>, "put">> \notin opened'
    BY <1>2, OpenedChanges
  <2> QED
    BY <2>2, <2>3
<1>3. ASSUME NEW c \in Builds, Putting(c)'
      PROVE  puts'[c] > 0 /\ dir'[Entry] # <<c, puts'[c]>> /\ <<<<c, puts'[c]>>, "put">> \notin opened'
  <2>1. CASE PutMake(c)
    <3>1. puts[c] \in Nat
      BY PutsCounted
    <3>2. puts[c] + 1 > puts[c] /\ puts[c] + 1 > 0
      BY <3>1
    <3> QED
      BY <2>1, <3>2, NextInode DEF OwnMatchesProgram
  <2>2. CASE ~PutMake(c)
    <3>1. Putting(c) /\ puts'[c] = puts[c] /\ ~PutRename(c)
      BY <1>3, <2>2, PuttingChanges
    <3>2. puts[c] > 0 /\ dir[Entry] # <<c, puts[c]>> /\ <<<<c, puts[c]>>, "put">> \notin opened
      BY <3>1 DEF OwnMatchesProgram, Own
    <3>3. puts[c] \in 1 .. MaxPuts
      BY <3>2, PutsCounted, BoundsAssumption
    <3>4. \A b \in Builds : PutRename(b) => dir[b] # <<c, puts[c]>>
      <4> SUFFICES ASSUME NEW b \in Builds, PutRename(b), dir[b] = <<c, puts[c]>> PROVE FALSE
        OBVIOUS
      <4>1. <<c, puts[c]>> # NoDir
        BY <3>3, NamesDistinct DEF Inodes
      <4>2. dir[b] = <<b, puts[b]>>
        BY <4>1 DEF OwnMatchesProgram, Own
      <4> QED
        BY <3>1, <4>2
    <3> QED
      BY <1>2, <3>1, <3>2, <3>3, <3>4
  <2> QED
    BY <2>1, <2>2
<1>4. ASSUME NEW c \in Builds, NEW n \in 1 .. MaxPuts, n > puts'[c]
      PROVE  dir'[Entry] # <<c, n>> /\ <<<<c, n>>, "put">> \notin opened'
  <2>1. puts[c] \in Nat /\ n > puts[c]
    BY <1>4, PutsCounted, NextInode, PuttingChanges
  <2>2. dir[Entry] # <<c, n>> /\ <<<<c, n>>, "put">> \notin opened
    BY <2>1 DEF OwnMatchesProgram
  <2>3. \A b \in Builds : PutRename(b) => dir[b] # <<c, n>>
    <3> SUFFICES ASSUME NEW b \in Builds, dir[b] = <<c, n>> PROVE FALSE
      OBVIOUS
    <3>1. <<c, n>> # NoDir
      BY NamesDistinct DEF Inodes
    <3>2. dir[b] = <<b, puts[b]>>
      BY <3>1 DEF OwnMatchesProgram, Own
    <3> QED
      BY <2>1, <3>2
  <2> QED
    BY <1>2, <2>2, <2>3
<1> QED
  BY <1>1, <1>3, <1>4 DEF OwnMatchesProgram, Own

LEMMA UndisturbedBefore ==
  ASSUME CacheMatchesProgram, TypeOK', [Next]_vars, Undisturbed'
  PROVE  /\ Undisturbed
         /\ \A b \in Builds : ~Crash(b) /\ pc[b] # "evict"
         /\ \A b \in Builds : pc[b] = "remove" => rm[b].name = Entry
<1>1. opened \subseteq opened'
  BY DEF Next, vars, GetCheck, GetTouch, GetRead, PutMake, PutCopy, PutWrite, PutClear, PutRename, SweepPick,
         RemovePart, RemoveName, Crash, Open
<1>2. \A b \in Builds : ~Crash(b)
  BY DEF Undisturbed, Crash, Goto, CacheMatchesProgram, TypeOK
<1>3. ASSUME NEW c \in Builds, pc[c] = "dead" PROVE pc'[c] = "dead"
  <2> USE DEF CacheMatchesProgram, TypeOK, Goto, Ends
  <2>1. ASSUME NEW b \in Builds, GetCheck(b) \/ GetTouch(b) \/ GetRead(b) \/ PutMake(b) \/ PutCopy(b) \/ PutWrite(b)
        PROVE pc'[c] = "dead"
    BY <1>3, <2>1 DEF GetCheck, GetTouch, GetRead, PutMake, PutCopy, PutWrite
  <2>2. ASSUME NEW b \in Builds, PutClear(b) \/ PutRename(b) \/ SweepPick(b) \/ RemovePart(b) \/ RemoveName(b) \/ Crash(b)
        PROVE pc'[c] = "dead"
    BY <1>3, <2>2 DEF PutClear, PutRename, SweepPick, RemovePart, RemoveName, Crash
  <2> QED
    BY <1>3, <2>1, <2>2 DEF Next, vars
<1>4. Undisturbed
  BY <1>1, <1>3 DEF Undisturbed
<1>5. \A b \in Builds : pc[b] # "evict"
  <2> SUFFICES ASSUME NEW b \in Builds, pc[b] = "evict" PROVE FALSE
    OBVIOUS
  <2>1. <<rm[b].inode, "sweep">> \in opened
    BY DEF CacheMatchesProgram, RemovalMatchesProgram
  <2> QED
    BY <1>4, <2>1 DEF Undisturbed
<1> QED
  BY <1>2, <1>4, <1>5 DEF CacheMatchesProgram, RemovalMatchesProgram

\* Undisturbed, what a put renames is whole.
LEMMA RenamesWhole ==
  ASSUME CacheMatchesProgram, Undisturbed, NEW b \in Builds, pc[b] = "rename", dir[b] # NoDir
  PROVE  parts[dir[b]] = Parts
<1>1. dir[b] = Own(b) /\ <<Own(b), "put">> \notin opened
  BY DEF CacheMatchesProgram, OwnMatchesProgram, Putting
<1>2. ~Opened(dir[b])
  BY <1>1 DEF Undisturbed, Opened
<1> QED
  BY <1>2 DEF CacheMatchesProgram, WrittenOrOpened

\* Undisturbed, a put whose directory is there ends with its rename.
LEMMA LeavesByRename ==
  ASSUME TypeOK, [Next]_vars, NEW c \in Builds, Putting(c), ~Putting(c)', dir[c] # NoDir, ~Crash(c)
  PROVE  PutRename(c)
<1> USE DEF Putting, Goto, Ends, TypeOK
<1>1. ASSUME NEW b \in Builds, GetCheck(b) \/ GetTouch(b) \/ GetRead(b) \/ PutMake(b) PROVE FALSE
  BY <1>1 DEF GetCheck, GetTouch, GetRead, PutMake
<1>2. ASSUME NEW b \in Builds, PutCopy(b) \/ PutWrite(b) \/ PutClear(b) PROVE FALSE
  BY <1>2 DEF PutCopy, PutWrite, PutClear
<1>3. ASSUME NEW b \in Builds, SweepPick(b) \/ RemovePart(b) \/ (RemoveName(b) /\ pc[c] # "evict") PROVE FALSE
  BY <1>3 DEF SweepPick, RemovePart, RemoveName
<1>4. ASSUME NEW b \in Builds, b # c, PutRename(b) \/ Crash(b) PROVE FALSE
  BY <1>4 DEF PutRename, Crash
<1> QED
  BY <1>1, <1>2, <1>3, <1>4 DEF Next, vars

LEMMA StepPuts ==
  ASSUME CacheMatchesProgram, TypeOK', [Next]_vars PROVE PutsMatchEntry'
<1> SUFFICES ASSUME Undisturbed'
             PROVE  /\ \A b \in Builds : Putting(b)' => dir'[b] # NoDir
                    /\ dir'[Entry] # NoDir /\ parts'[dir'[Entry]] # Parts =>
                          \E b \in Builds : pc'[b] = "remove" /\ rm'[b].inode = dir'[Entry]
                    /\ (\E b \in Builds : puts'[b] > 0) =>
                          \/ dir'[Entry] # NoDir /\ parts'[dir'[Entry]] = Parts
                          \/ \E b \in Builds : Putting(b)'
  BY DEF PutsMatchEntry
<1> TypeOK /\ OwnMatchesProgram /\ RemovalMatchesProgram
  BY DEF CacheMatchesProgram
<1>1. /\ Undisturbed
      /\ \A b \in Builds : ~Crash(b) /\ pc[b] # "evict"
      /\ \A b \in Builds : pc[b] = "remove" => rm[b].name = Entry
  BY UndisturbedBefore
<1>2. /\ \A b \in Builds : Putting(b) => dir[b] # NoDir
      /\ dir[Entry] # NoDir /\ parts[dir[Entry]] # Parts =>
            \E b \in Builds : pc[b] = "remove" /\ rm[b].inode = dir[Entry]
      /\ (\E b \in Builds : puts[b] > 0) =>
            \/ dir[Entry] # NoDir /\ parts[dir[Entry]] = Parts
            \/ \E b \in Builds : Putting(b)
  BY <1>1 DEF CacheMatchesProgram, PutsMatchEntry
<1>3. ASSUME NEW c \in Builds, Putting(c)' PROVE dir'[c] # NoDir
  <2>1. CASE PutMake(c)
    <3>1. <<c, puts[c] + 1>> # NoDir
      BY <2>1, NextInode, NamesDistinct DEF Inodes
    <3> QED
      BY <2>1, <3>1, NextInode
  <2>2. CASE Putting(c) /\ ~PutRename(c)
    <3>1. dir[c] # NoDir
      BY <1>2, <2>2
    <3>2. CASE dir'[c] = dir[c]
      BY <3>1, <3>2
    <3>3. CASE PutMake(c) \/ PutCopy(c)
      <4>1. PutCopy(c)
        BY <2>2, <3>3 DEF PutMake, Putting
      <4>2. dir'[c] = Own(c)
        BY <4>1, NamesDistinct DEF PutCopy, Own, TypeOK
      <4>3. dir[c] = Own(c)
        BY <3>1 DEF OwnMatchesProgram
      <4> QED
        BY <3>1, <4>2, <4>3
    <3>4. ASSUME NEW b \in Builds, b # c, PutMake(b) \/ PutCopy(b) \/ PutRename(b) PROVE dir'[c] = dir[c]
      BY <3>4, NamesDistinct DEF PutMake, PutCopy, PutRename, TypeOK
    <3>5. ASSUME NEW b \in Builds, RemoveName(b) PROVE dir'[c] = dir[c]
      <4>1. rm[b].name = Entry
        BY <1>1, <3>5 DEF RemoveName
      <4> QED
        BY <3>5, <4>1, NamesDistinct DEF RemoveName, TypeOK
    <3> QED
      BY <2>2, <3>2, <3>3, <3>4, <3>5
      DEF Next, vars, GetCheck, GetTouch, GetRead, PutWrite, PutClear, SweepPick, RemovePart, Crash
  <2> QED
    BY <1>3, <2>1, <2>2, PuttingChanges
<1>4. ASSUME NEW b \in Builds, pc[b] = "remove", rm[b].inode = dir[Entry], dir[Entry] # NoDir
      PROVE  dir'[Entry] = NoDir \/ (pc'[b] = "remove" /\ rm'[b].inode = rm[b].inode)
  <2>1. CASE RemoveName(b)
    <3>1. rm[b].todo = {} /\ rm[b].name = Entry
      BY <1>1, <1>4, <2>1 DEF RemoveName
    <3>2. Empty(dir[Entry])
      BY <1>4, <3>1 DEF RemovalMatchesProgram, Empty
    <3>3. dir' = [dir EXCEPT ![Entry] = NoDir]
      BY <1>4, <2>1, <3>1, <3>2 DEF RemoveName
    <3> QED
      BY <3>3, NamesDistinct DEF TypeOK
  <2>2. CASE RemovePart(b)
    <3>1. PICK part \in rm[b].todo : rm' = [rm EXCEPT ![b].todo = @ \ {part}]
      BY <2>2 DEF RemovePart
    <3>2. rm[b] \in Removals /\ rm'[b] = [rm[b] EXCEPT !.todo = @ \ {part}]
      BY <3>1 DEF TypeOK, Removals
    <3>3. pc' = pc /\ rm'[b].inode = rm[b].inode
      BY <2>2, <3>2 DEF RemovePart, Removals
    <3> QED
      BY <1>4, <3>3
  <2>3. ASSUME NEW c \in Builds, c # b, PutClear(c) \/ SweepPick(c) \/ RemovePart(c) \/ RemoveName(c) \/ Crash(c)
        PROVE pc'[b] = pc[b] /\ rm'[b] = rm[b]
    BY <2>3 DEF PutClear, SweepPick, Open, RemovePart, RemoveName, Crash, Goto, TypeOK
  <2>4. ASSUME NEW c \in Builds, PutClear(c) \/ SweepPick(c) PROVE c # b
    BY <1>4, <2>4 DEF PutClear, SweepPick
  <2>5. ASSUME NEW c \in Builds, GetCheck(c) \/ GetTouch(c) \/ GetRead(c) \/ PutMake(c) \/ PutCopy(c)
        PROVE pc'[b] = pc[b] /\ rm'[b] = rm[b]
    BY <1>4, <2>5 DEF GetCheck, GetTouch, GetRead, PutMake, PutCopy, Goto, Ends, TypeOK
  <2>6. ASSUME NEW c \in Builds, PutWrite(c) \/ PutRename(c) PROVE pc'[b] = pc[b] /\ rm'[b] = rm[b]
    BY <1>4, <2>6 DEF PutWrite, PutRename, Goto, Ends, TypeOK
  <2> QED
    BY <1>1, <1>4, <2>1, <2>2, <2>3, <2>4, <2>5, <2>6 DEF Next, vars
<1>5. ASSUME NEW i \in Inodes, dir'[Entry] = i, dir[Entry] # i PROVE parts'[i] = Parts
  <2>1. PICK b \in Builds : PutRename(b) /\ dir[b] # NoDir /\ dir[b] = i
    BY <1>5, EntryChanges, NamesDistinct
  <2>2. parts' = parts /\ pc[b] = "rename"
    BY <2>1 DEF PutRename
  <2> QED
    BY <1>1, <2>1, <2>2, RenamesWhole
<1>6. ASSUME NEW i \in Inodes, dir'[Entry] = i, parts'[i] # Parts
      PROVE  \E b \in Builds : pc'[b] = "remove" /\ rm'[b].inode = i
  <2>1. dir[Entry] = i /\ i # NoDir
    BY <1>5, <1>6, NamesDistinct
  <2>2. CASE parts[i] # Parts
    <3>1. PICK b \in Builds : pc[b] = "remove" /\ rm[b].inode = dir[Entry]
      BY <1>2, <2>1, <2>2
    <3> QED
      BY <1>4, <1>6, <2>1, <3>1
  <2>3. CASE parts[i] = Parts
    <3>1. ASSUME NEW c \in Builds, PutCopy(c) \/ PutWrite(c) PROVE parts'[i] = Parts
      <4>1. parts[i] \subseteq parts'[i]
        BY <3>1, ZenonT(30) DEF PutCopy, PutWrite, TypeOK
      <4>2. parts'[i] \subseteq Parts
        BY DEF TypeOK
      <4> QED
        BY <2>3, <4>1, <4>2
    <3>2. PICK b \in Builds : RemovePart(b)
      BY <1>1, <1>6, <2>3, <3>1
      DEF Next, vars, GetCheck, GetTouch, GetRead, PutMake, PutClear, PutRename, SweepPick, RemoveName
    <3>3. PICK part : parts' = [parts EXCEPT ![rm[b].inode] = @ \ {part}]
      BY <3>2 DEF RemovePart
    <3>4. rm[b].inode = i
      BY <1>6, <2>3, <3>3 DEF TypeOK
    <3>5. pc[b] = "remove"
      BY <1>1, <3>2 DEF RemovePart
    <3> QED
      BY <1>4, <1>6, <2>1, <3>4, <3>5
  <2> QED
    BY <2>2, <2>3
<1>7. ASSUME NEW d \in Builds, puts'[d] > 0, \A b \in Builds : ~Putting(b)'
      PROVE  dir'[Entry] # NoDir /\ parts'[dir'[Entry]] = Parts
  <2>1. \A b \in Builds : ~PutMake(b)
    BY <1>7 DEF PutMake, Putting, Goto, TypeOK
  <2>2. puts[d] > 0
    BY <1>7, <2>1, PuttingChanges
  <2>3. \A b \in Builds : pc'[b] # "remove"
    BY <1>7 DEF Putting
  <2>4. dir'[Entry] # NoDir => dir'[Entry] \in Inodes
    BY NamesDistinct DEF TypeOK
  <2>5. SUFFICES dir'[Entry] # NoDir
    BY <1>6, <2>3, <2>4
  <2>6. CASE dir[Entry] # NoDir /\ parts[dir[Entry]] = Parts
    <3>1. ~Empty(dir[Entry])
      BY <2>6 DEF Empty, Parts
    <3>2. ASSUME NEW b \in Builds, PutMake(b) \/ PutCopy(b) PROVE dir'[Entry] = dir[Entry]
      BY <3>2, NamesDistinct DEF PutMake, PutCopy, TypeOK
    <3>3. ASSUME NEW b \in Builds, PutRename(b) \/ RemoveName(b) PROVE dir'[Entry] = dir[Entry]
      BY <2>6, <3>1, <3>3, NamesDistinct DEF PutRename, RemoveName, TypeOK
    <3> QED
      BY <2>6, <3>2, <3>3
      DEF Next, vars, GetCheck, GetTouch, GetRead, PutWrite, PutClear, SweepPick, RemovePart, Crash
  <2>7. ASSUME NEW c \in Builds, Putting(c) PROVE dir'[Entry] # NoDir
    <3>1. dir[c] # NoDir /\ ~Putting(c)'
      BY <1>2, <1>7, <2>7
    <3>2. PutRename(c)
      BY <1>1, <2>7, <3>1, LeavesByRename
    <3>3. CASE dir[Entry] # NoDir => Empty(dir[Entry])
      BY <3>1, <3>2, <3>3, NamesDistinct DEF PutRename, TypeOK
    <3>4. CASE dir[Entry] # NoDir /\ ~Empty(dir[Entry])
      BY <3>2, <3>4 DEF PutRename
    <3> QED
      BY <3>3, <3>4
  <2> QED
    BY <1>2, <2>2, <2>6, <2>7
<1>8. dir'[Entry] # NoDir => dir'[Entry] \in Inodes
  BY NamesDistinct DEF TypeOK
<1> QED
  BY <1>3, <1>6, <1>7, <1>8

-----------------------------------------------------------------------------
(* The theorems.                                                             *)

\* The directories, the names and each build's step agree at every moment, for
\* every set of builds: CacheMatchesProgram is an invariant of get, put and sweep.
THEOREM CacheCorrect == Spec => []CacheMatchesProgram
<1>1. CacheMatchesProgram /\ [Next]_vars => CacheMatchesProgram'
  <2> SUFFICES ASSUME CacheMatchesProgram, [Next]_vars PROVE CacheMatchesProgram'
    OBVIOUS
  <2>1. CopyBegun
    BY DEF CacheMatchesProgram, OwnMatchesProgram, Putting, CopyBegun
  <2>2. TypeOK'
    BY <2>1, StepType DEF CacheMatchesProgram
  <2>3. WrittenOrOpened' /\ NeverHalfWritten' /\ RemovalMatchesProgram'
    BY <2>2, StepWritten, StepEntry, StepRemoval
  <2>4. OwnMatchesProgram' /\ PutsMatchEntry'
    BY <2>2, StepOwn, StepPuts
  <2> QED
    BY <2>2, <2>3, <2>4 DEF CacheMatchesProgram
<1> QED
  BY <1>1, InitCache, PTL DEF Spec

\* However many builds share the cache, and whichever of them are killed and when,
\* an entry lacks a part only when an rmtree of a put or a sweep has been at it.
THEOREM EntriesAreNeverHalfWritten == Spec => []NeverHalfWritten
<1>1. CacheMatchesProgram => NeverHalfWritten
  BY DEF CacheMatchesProgram
<1> QED
  BY <1>1, CacheCorrect, PTL

\* However many builds put the entry at once, and whichever puts raise: where none
\* is killed and none sweeps, the entry is there and whole once the puts end.
THEOREM PutsAlwaysLeaveAnEntry == Spec => []PutsLeaveAnEntry
<1>1. CacheMatchesProgram => PutsLeaveAnEntry
  BY DEF CacheMatchesProgram, PutsMatchEntry, PutsLeaveAnEntry, Quiet, Putting
<1> QED
  BY <1>1, CacheCorrect, PTL
=============================================================================
