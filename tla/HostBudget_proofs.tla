------------------------- MODULE HostBudget_proofs -------------------------
(***************************************************************************)
(* What acquire() guarantees for any set of processes, any budget and any  *)
(* asks.  The inductive invariant is TypeOK /\ FilesMatchProgram.          *)
(***************************************************************************)
EXTENDS HostBudget, SequenceTheorems, FiniteSetTheorems, TLAPS

IInv == TypeOK /\ FilesMatchProgram

-----------------------------------------------------------------------------
(* Asks are clamped.                                                       *)

\* Whatever is asked for, the draw is of at least one slot and of no more than
\* the machine has; an exclusive draw is of all of them.
LEMMA ClampBounds ==
    ASSUME NEW n \in Asks, NEW x \in BOOLEAN
    PROVE  /\ Clamp(n, x) \in 1 .. Total
           /\ x => Clamp(n, x) = Total
BY TotalAssumption, AsksAssumption DEF Clamp, AtLeastOne, AtMostTotal

-----------------------------------------------------------------------------
(* Types.                                                                  *)

LEMMA InitType == Init => TypeOK
BY TotalAssumption DEF Init, TypeOK, Labels, Sweeps

\* Only these steps touch `held` and the slot files.
Takes(p)     == LockSlot(p) \/ TryFree(p)
Elsewhere(p) ==
    \/ \E n \in Asks, x \in BOOLEAN : Call(p, n, x) \/ CallNested(p, n, x)
    \/ LockAdmission(p) \/ UnlockAdmission(p) \/ TryBusy(p) \/ SweptInVain(p)
    \/ SweptEnough(p) \/ Released(p) \/ EndNested(p) \/ EndBlock(p) \/ Interrupt(p)

LEMMA StepCases ==
    ASSUME [Next]_vars
    PROVE  \/ \E p \in Procs : Takes(p) \/ ReleaseOne(p) \/ Die(p) \/ Elsewhere(p)
           \/ UNCHANGED vars
BY DEF Next, LockStep, Takes, Elsewhere

LEMMA ElsewhereKeeps ==
    ASSUME NEW p \in Procs, Elsewhere(p)
    PROVE  UNCHANGED <<held, slot>>
BY DEF Elsewhere, Call, CallNested, LockAdmission, UnlockAdmission, TryBusy,
   SweptInVain, SweptEnough, Released, EndNested, EndBlock, Interrupt

LEMMA NextSlot ==
    /\ 0 \in 0 .. Total
    /\ \A i \in Slots : i + 1 \in 0 .. Total
BY TotalAssumption DEF Slots

LEMMA LockedType ==
    ASSUME TypeOK, NEW p \in Procs, LockSlotAt(p)
    PROVE  /\ slot' \in [Slots -> Procs \union {Nobody}]
           /\ held' \in [Procs -> Seq(Slots)]
<1>1. Append(held[p], at[p]) \in Seq(Slots)
  BY AppendProperties DEF TypeOK, LockSlotAt
<1> QED BY <1>1 DEF TypeOK, LockSlotAt

LEMMA StepType == TypeOK /\ [Next]_vars => TypeOK'
<1> SUFFICES ASSUME TypeOK, [Next]_vars PROVE TypeOK'
  OBVIOUS
<1> USE DEF TypeOK, Labels, Sweeps, Goto
<1>0. \A p \in Procs : Len(held[p]) \in Nat
  BY LenProperties
<1>1. ASSUME NEW p \in Procs, NEW n \in Asks, NEW x \in BOOLEAN, Call(p, n, x)
      PROVE  TypeOK'
  BY <1>1, ClampBounds, NextSlot DEF Call
<1>2. ASSUME NEW p \in Procs, NEW n \in Asks, NEW x \in BOOLEAN, CallNested(p, n, x)
      PROVE  TypeOK'
  <2>1. Total \in Nat /\ AtLeastOne(n) \in Nat
    BY TotalAssumption, AsksAssumption DEF AtLeastOne
  <2> QED BY <1>2, <2>1 DEF CallNested
<1>3. ASSUME NEW p \in Procs, LockAdmission(p) PROVE TypeOK'
  BY <1>3 DEF LockAdmission
<1>4. ASSUME NEW p \in Procs, LockSlot(p) PROVE TypeOK'
  <2>1. slot' \in [Slots -> Procs \union {Nobody}] /\ held' \in [Procs -> Seq(Slots)]
    BY <1>4, LockedType DEF LockSlot
  <2>2. at' \in [Procs -> 0 .. Total]
    BY <1>4, NextSlot DEF LockSlot, LockSlotAt
  <2> QED BY <1>4, <2>1, <2>2 DEF LockSlot
<1>5. ASSUME NEW p \in Procs, UnlockAdmission(p) PROVE TypeOK'
  BY <1>0, <1>5, NextSlot DEF UnlockAdmission
<1>6. ASSUME NEW p \in Procs, TryFree(p) PROVE TypeOK'
  <2>1. slot' \in [Slots -> Procs \union {Nobody}] /\ held' \in [Procs -> Seq(Slots)]
    BY <1>6, LockedType DEF TryFree
  <2>2. at' \in [Procs -> 0 .. Total]
    <3>1. at[p] \in Slots
      BY <1>6 DEF TryFree, LockSlotAt
    <3>2. \/ at' = [at EXCEPT ![p] = 0]
          \/ at' = [at EXCEPT ![p] = @ + 1]
      BY <1>6 DEF TryFree
    <3> QED BY <3>1, <3>2, NextSlot
  <2> QED BY <1>6, <2>1, <2>2 DEF TryFree
<1>7. ASSUME NEW p \in Procs, TryBusy(p) PROVE TypeOK'
  <2>1. at' \in [Procs -> 0 .. Total]
    BY <1>7, NextSlot DEF TryBusy
  <2> QED BY <1>7, <2>1 DEF TryBusy
<1>8. ASSUME NEW p \in Procs, SweptInVain(p) \/ SweptEnough(p) PROVE TypeOK'
  <2>1. yielded' \in [Procs -> Nat] /\ at' \in [Procs -> 0 .. Total]
    <3>1. CASE SweptInVain(p)
      BY <3>1, NextSlot DEF SweptInVain
    <3>2. CASE SweptEnough(p)
      BY <1>0, <3>2, NextSlot DEF SweptEnough
    <3> QED BY <1>8, <3>1, <3>2
  <2> QED BY <1>8, <2>1 DEF SweptInVain, SweptEnough
<1>9. ASSUME NEW p \in Procs, ReleaseOne(p) PROVE TypeOK'
  <2>1. Head(held[p]) \in Slots /\ Tail(held[p]) \in Seq(Slots)
    BY <1>9, HeadTailProperties DEF ReleaseOne
  <2> QED BY <1>9, <2>1 DEF ReleaseOne
<1>10. ASSUME NEW p \in Procs, Released(p) \/ EndBlock(p) \/ EndNested(p) PROVE TypeOK'
  <2>1. yielded' \in [Procs -> Nat]
    BY <1>0, <1>10 DEF Released, EndBlock, EndNested
  <2> QED BY <1>10, <2>1 DEF Released, EndBlock, EndNested
<1>11. ASSUME NEW p \in Procs, Interrupt(p) PROVE TypeOK'
  BY <1>11 DEF Interrupt
<1>12. ASSUME NEW p \in Procs, Die(p) PROVE TypeOK'
  BY <1>12 DEF Die
<1>13. CASE UNCHANGED vars
  BY <1>13 DEF vars
<1> QED
  BY <1>1, <1>2, <1>3, <1>4, <1>5, <1>6, <1>7, <1>8, <1>9, <1>10, <1>11, <1>12,
     <1>13 DEF Next, LockStep

\* Every variable keeps its type in every behaviour of the budget.
THEOREM TypeCorrect == Spec => []TypeOK
<1> QED BY InitType, StepType, PTL DEF Spec

-----------------------------------------------------------------------------
(* The admission mutex.                                                    *)

LEMMA StepAdmission ==
    ASSUME TypeOK, AdmissionMatchesProgram, [Next]_vars
    PROVE  AdmissionMatchesProgram'
<1> USE NobodyAssumption DEF TypeOK, AdmissionMatchesProgram, Goto
<1>1. ASSUME NEW p \in Procs, Takes(p) PROVE AdmissionMatchesProgram'
  BY <1>1 DEF Takes, LockSlot, TryFree, Sweeps
<1>2. ASSUME NEW p \in Procs, ReleaseOne(p) PROVE AdmissionMatchesProgram'
  BY <1>2 DEF ReleaseOne
<1>3. ASSUME NEW p \in Procs, Die(p) PROVE AdmissionMatchesProgram'
  BY <1>3 DEF Die
<1>4. ASSUME NEW p \in Procs, Elsewhere(p) PROVE AdmissionMatchesProgram'
  BY <1>4 DEF Elsewhere, Call, CallNested, LockAdmission, UnlockAdmission, TryBusy,
     SweptInVain, SweptEnough, Released, EndNested, EndBlock, Interrupt, Sweeps
<1>5. CASE UNCHANGED vars
  BY <1>5 DEF vars
<1> QED BY <1>1, <1>2, <1>3, <1>4, <1>5, StepCases

-----------------------------------------------------------------------------
(* `held` is what is locked.                                               *)

\* In the lock table f, process p holds exactly the files that s lists, each
\* listed once.
Lists(s, f, p) ==
    /\ \A k \in DOMAIN s : f[s[k]] = p
    /\ \A j, k \in DOMAIN s : s[j] = s[k] => j = k
    /\ \A i \in Slots : f[i] = p => \E k \in DOMAIN s : s[k] = i

\* Locking a file that was not p's and appending it.
LEMMA ListsAppend ==
    ASSUME NEW s \in Seq(Slots), NEW f, NEW g, NEW p, NEW e \in Slots,
           Lists(s, f, p), f[e] # p,
           \A i \in Slots : g[i] = IF i = e THEN p ELSE f[i]
    PROVE  Lists(Append(s, e), g, p)
<1> DEFINE t == Append(s, e)
           n == Len(s)
<1>1. n \in Nat /\ DOMAIN s = 1 .. n /\ \A k \in 1 .. n : s[k] \in Slots
  BY LenProperties
<1>2. /\ DOMAIN t = 1 .. n + 1
      /\ \A k \in 1 .. n : t[k] = s[k]
      /\ t[n + 1] = e
  BY AppendProperties, LenProperties
<1> HIDE DEF t, n
<1>3. \A k \in 1 .. n + 1 : k \in 1 .. n \/ k = n + 1
  BY <1>1
<1>4. \A k \in 1 .. n : s[k] # e /\ f[s[k]] = p
  BY <1>1 DEF Lists
<1>5. \A k \in DOMAIN t : g[t[k]] = p
  BY <1>1, <1>2, <1>3, <1>4
<1>6. \A j, k \in DOMAIN t : t[j] = t[k] => j = k
  <2>1. \A j, k \in 1 .. n : s[j] = s[k] => j = k
    BY <1>1 DEF Lists
  <2> QED BY <1>2, <1>3, <1>4, <2>1
<1>7. ASSUME NEW i \in Slots, g[i] = p PROVE \E k \in DOMAIN t : t[k] = i
  <2>1. CASE i = e
    BY <1>1, <1>2, <2>1
  <2>2. CASE i # e
    <3>1. PICK k \in 1 .. n : s[k] = i
      BY <1>1, <1>7, <2>2 DEF Lists
    <3>2. k \in DOMAIN t
      BY <1>1, <1>2
    <3> QED BY <1>2, <3>1, <3>2
  <2> QED BY <2>1, <2>2
<1> QED BY <1>5, <1>6, <1>7 DEF Lists, t

\* Unlocking the first file and dropping it.
LEMMA ListsTail ==
    ASSUME NEW s \in Seq(Slots), NEW f, NEW g, NEW p, NEW o, o # p, s # <<>>,
           Lists(s, f, p),
           \A i \in Slots : g[i] = IF i = Head(s) THEN o ELSE f[i]
    PROVE  Lists(Tail(s), g, p)
<1> DEFINE t == Tail(s)
           n == Len(s)
<1>1. n \in Nat \ {0} /\ DOMAIN s = 1 .. n /\ \A k \in 1 .. n : s[k] \in Slots
  BY LenProperties, EmptySeq
<1>2. DOMAIN t = 1 .. n - 1 /\ \A k \in 1 .. n - 1 : t[k] = s[k + 1]
  BY HeadTailProperties, LenProperties
<1>3. Head(s) = s[1]
  OBVIOUS
<1> HIDE DEF t, n
<1>4. \A k \in 1 .. n - 1 : k + 1 \in 1 .. n /\ k + 1 # 1
  BY <1>1
<1>5. \A j, k \in 1 .. n : s[j] = s[k] => j = k
  BY <1>1 DEF Lists
<1>6. \A k \in DOMAIN t : g[t[k]] = p
  <2> SUFFICES ASSUME NEW k \in 1 .. n - 1 PROVE g[s[k + 1]] = p
    BY <1>2
  <2>1. s[k + 1] \in Slots /\ s[k + 1] # s[1] /\ f[s[k + 1]] = p
    <3>1. 1 \in 1 .. n
      BY <1>1
    <3> QED BY <1>1, <1>4, <1>5, <3>1 DEF Lists
  <2> QED BY <1>3, <2>1
<1>7. \A j, k \in DOMAIN t : t[j] = t[k] => j = k
  <2> SUFFICES ASSUME NEW j \in 1 .. n - 1, NEW k \in 1 .. n - 1, s[j + 1] = s[k + 1]
               PROVE  j = k
    BY <1>2
  <2>1. j + 1 = k + 1
    BY <1>4, <1>5
  <2> QED BY <1>1, <2>1
<1>8. ASSUME NEW i \in Slots, g[i] = p PROVE \E k \in DOMAIN t : t[k] = i
  <2>1. f[i] = p /\ i # s[1]
    BY <1>3, <1>8
  <2>2. PICK k \in 1 .. n : s[k] = i
    BY <1>1, <2>1 DEF Lists
  <2>3. k - 1 \in 1 .. n - 1 /\ (k - 1) + 1 = k
    BY <1>1, <2>1, <2>2
  <2>4. t[k - 1] = i
    BY <1>2, <2>2, <2>3
  <2> QED BY <1>2, <2>3, <2>4
<1> QED BY <1>6, <1>7, <1>8 DEF Lists, t

\* What the others lock is not p's concern.
LEMMA ListsOther ==
    ASSUME NEW s \in Seq(Slots), NEW f, NEW g, NEW p, Lists(s, f, p),
           \A i \in Slots : g[i] = p <=> f[i] = p
    PROVE  Lists(s, g, p)
<1>1. \A k \in DOMAIN s : s[k] \in Slots
  BY LenProperties
<1> QED BY <1>1 DEF Lists

LEMMA ListsNothing ==
    ASSUME NEW f, NEW p, \A i \in Slots : f[i] # p
    PROVE  Lists(<<>>, f, p)
<1>1. DOMAIN <<>> = {}
  OBVIOUS
<1> QED BY <1>1 DEF Lists

LEMMA HeldLists ==
    HeldIsLocked <=> \A p \in Procs : Lists(held[p], slot, p)
BY DEF HeldIsLocked, Lists

LEMMA HeldListsNext ==
    (\A p \in Procs : Lists(held'[p], slot', p)) => HeldIsLocked'
BY DEF HeldIsLocked, Lists

\* A granted slot is appended to `held`, and no other process held it.
LEMMA StepHeldTakes ==
    ASSUME TypeOK, HeldIsLocked, NEW p \in Procs, LockSlotAt(p)
    PROVE  HeldIsLocked'
<1>1. /\ held'[p] = Append(held[p], at[p])
      /\ \A q \in Procs \ {p} : held'[q] = held[q]
      /\ \A i \in Slots : slot'[i] = IF i = at[p] THEN p ELSE slot[i]
      /\ at[p] \in Slots /\ slot[at[p]] = Nobody
      /\ \A q \in Procs : held[q] \in Seq(Slots) /\ q # Nobody
  BY NobodyAssumption DEF LockSlotAt, TypeOK
<1>2. Lists(held'[p], slot', p)
  <2>1. /\ Lists(held[p], slot, p) /\ slot[at[p]] # p /\ held[p] \in Seq(Slots)
        /\ at[p] \in Slots /\ \A i \in Slots : slot'[i] = IF i = at[p] THEN p ELSE slot[i]
    BY <1>1, HeldLists
  <2>2. Lists(Append(held[p], at[p]), slot', p)
    BY <2>1, ListsAppend
  <2> QED BY <1>1, <2>2
<1>3. ASSUME NEW q \in Procs \ {p} PROVE Lists(held'[q], slot', q)
  BY <1>1, HeldLists, ListsOther
<1> QED BY <1>2, <1>3, HeldListsNext

LEMMA HeadIsLocked ==
    ASSUME TypeOK, HeldIsLocked, NEW p \in Procs, ReleaseOne(p)
    PROVE  Head(held[p]) \in Slots /\ slot[Head(held[p])] = p
<1>1. held[p] \in Seq(Slots) /\ held[p] # <<>>
  BY DEF ReleaseOne, TypeOK
<1>2. Head(held[p]) = held[p][1] /\ 1 \in DOMAIN held[p]
  BY <1>1, EmptySeq, LenProperties
<1> QED BY <1>1, <1>2, HeldLists, HeadTailProperties DEF Lists

\* Releasing the head of `held` unlocks it and nothing else.
LEMMA StepHeldReleases ==
    ASSUME TypeOK, HeldIsLocked, NEW p \in Procs, ReleaseOne(p)
    PROVE  HeldIsLocked'
<1>1. held[p] \in Seq(Slots) /\ held[p] # <<>>
  BY DEF ReleaseOne, TypeOK
<1>2. Head(held[p]) \in Slots /\ slot[Head(held[p])] = p
  BY HeadIsLocked
<1>3. /\ held'[p] = Tail(held[p])
      /\ \A q \in Procs \ {p} : held'[q] = held[q]
      /\ \A i \in Slots : slot'[i] = IF i = Head(held[p]) THEN Nobody ELSE slot[i]
      /\ \A q \in Procs : held[q] \in Seq(Slots) /\ q # Nobody
  BY <1>2, NobodyAssumption DEF ReleaseOne, TypeOK
<1>4. Lists(held'[p], slot', p)
  <2>1. Lists(held[p], slot, p) /\ Nobody # p
    BY <1>3, HeldLists
  <2>2. Lists(Tail(held[p]), slot', p)
    BY <1>1, <1>3, <2>1, ListsTail
  <2> QED BY <1>3, <2>2
<1>5. ASSUME NEW q \in Procs \ {p} PROVE Lists(held'[q], slot', q)
  BY <1>2, <1>3, HeldLists, ListsOther
<1> QED BY <1>4, <1>5, HeldListsNext

LEMMA StepHeldDies ==
    ASSUME TypeOK, HeldIsLocked, NEW p \in Procs, Die(p)
    PROVE  HeldIsLocked'
<1>1. /\ held'[p] = <<>>
      /\ \A q \in Procs \ {p} : held'[q] = held[q]
      /\ \A i \in Slots : slot'[i] = IF slot[i] = p THEN Nobody ELSE slot[i]
      /\ \A q \in Procs : held[q] \in Seq(Slots) /\ q # Nobody
  BY NobodyAssumption DEF Die, TypeOK
<1>2. Lists(held'[p], slot', p)
  BY <1>1, ListsNothing
<1>3. ASSUME NEW q \in Procs \ {p} PROVE Lists(held'[q], slot', q)
  BY <1>1, HeldLists, ListsOther
<1> QED BY <1>2, <1>3, HeldListsNext

LEMMA StepHeld ==
    ASSUME TypeOK, HeldIsLocked, [Next]_vars
    PROVE  HeldIsLocked'
<1>1. ASSUME NEW p \in Procs, Takes(p) PROVE HeldIsLocked'
  BY <1>1, StepHeldTakes DEF Takes, LockSlot, TryFree
<1>2. CASE UNCHANGED <<held, slot>>
  BY <1>2 DEF HeldIsLocked
<1> QED
  BY <1>1, <1>2, StepCases, ElsewhereKeeps, StepHeldReleases, StepHeldDies DEF vars

-----------------------------------------------------------------------------
(* `held` is as long as the program says, and an exclusive draw's is whole. *)

\* What a grant does to the length of `held`.
LEMMA TakesOne ==
    ASSUME TypeOK, NEW p \in Procs, LockSlotAt(p)
    PROVE  /\ held'[p] # <<>>
           /\ Len(held'[p]) = Len(held[p]) + 1
           /\ \A q \in Procs \ {p} : held'[q] = held[q]
<1>1. held'[p] = Append(held[p], at[p]) /\ \A q \in Procs \ {p} : held'[q] = held[q]
  BY DEF LockSlotAt, TypeOK
<1>2. held[p] \in Seq(Slots) /\ at[p] \in Slots
  BY DEF LockSlotAt, TypeOK
<1> QED BY <1>1, <1>2, AppendProperties

LEMMA LengthsAreNaturals ==
    TypeOK => /\ \A p \in Procs : Len(held[p]) \in Nat /\ held[p] \in Seq(Slots)
              /\ \A p \in Procs : held[p] # <<>> <=> Len(held[p]) > 0
              /\ \A p \in Procs : at[p] \in Int /\ want[p] \in Int
              /\ \A p \in Procs : at[p] <= Total /\ want[p] >= 1
              /\ Total \in Nat /\ Total > 0
BY LenProperties, EmptySeq, TotalAssumption DEF TypeOK

LEMMA StepLengths ==
    ASSUME TypeOK, HeldMatchesProgram, [Next]_vars
    PROVE  HeldMatchesProgram'
<1>0. /\ \A p \in Procs : Len(held[p]) \in Nat
      /\ \A p \in Procs : held[p] # <<>> <=> Len(held[p]) > 0
      /\ \A p \in Procs : at[p] \in Int /\ want[p] \in Int
      /\ \A p \in Procs : at[p] <= Total /\ want[p] >= 1
      /\ Total \in Nat /\ Total > 0 /\ Len(<<>>) = 0
  BY LengthsAreNaturals, EmptySeq
<1> USE DEF HeldMatchesProgram, Sweeps, Goto
<1>1. ASSUME NEW p \in Procs, NEW n \in Asks, NEW x \in BOOLEAN, Call(p, n, x)
      PROVE  HeldMatchesProgram'
  BY <1>0, <1>1, ClampBounds DEF Call, TypeOK
<1>2. ASSUME NEW p \in Procs, LockSlot(p) PROVE HeldMatchesProgram'
  BY <1>0, <1>2, TakesOne DEF LockSlot, LockSlotAt, Slots, TypeOK
<1>3. ASSUME NEW p \in Procs, TryFree(p) PROVE HeldMatchesProgram'
  <2>1. /\ held'[p] # <<>> /\ Len(held'[p]) = Len(held[p]) + 1
        /\ \A q \in Procs \ {p} : held'[q] = held[q]
    BY <1>3, TakesOne DEF TryFree
  <2>2. Len(held'[p]) <= want[p]
    BY <1>0, <1>3, <2>1 DEF TryFree, Enough
  <2>3. /\ pc'[p] \in {"sweep", "top_up"} /\ ~exclusive[p]
        /\ \A q \in Procs \ {p} : pc'[q] = pc[q] /\ at'[q] = at[q]
        /\ exclusive' = exclusive /\ want' = want
    BY <1>3 DEF TryFree, TypeOK
  <2> QED BY <2>1, <2>2, <2>3
<1>4. ASSUME NEW p \in Procs, ReleaseOne(p) PROVE HeldMatchesProgram'
  BY <1>0, <1>4, HeadTailProperties DEF ReleaseOne, TypeOK
<1>5. ASSUME NEW p \in Procs, Die(p) PROVE HeldMatchesProgram'
  BY <1>0, <1>5 DEF Die, TypeOK
<1>6. ASSUME NEW p \in Procs, UnlockAdmission(p) PROVE HeldMatchesProgram'
  BY <1>0, <1>6 DEF UnlockAdmission, TypeOK
<1>7. ASSUME NEW p \in Procs, LockAdmission(p) PROVE HeldMatchesProgram'
  BY <1>0, <1>7 DEF LockAdmission, TypeOK
<1>8. ASSUME NEW p \in Procs, TryBusy(p) PROVE HeldMatchesProgram'
  BY <1>0, <1>8 DEF TryBusy, TypeOK
<1>9. ASSUME NEW p \in Procs, SweptInVain(p) PROVE HeldMatchesProgram'
  BY <1>0, <1>9 DEF SweptInVain, TypeOK
<1>10. ASSUME NEW p \in Procs, SweptEnough(p) PROVE HeldMatchesProgram'
  BY <1>0, <1>10 DEF SweptEnough, TypeOK
<1>11. ASSUME NEW p \in Procs, Released(p) \/ EndNested(p) \/ EndBlock(p)
       PROVE  HeldMatchesProgram'
  BY <1>0, <1>11 DEF Released, EndNested, EndBlock, TypeOK
<1>12. ASSUME NEW p \in Procs, NEW n \in Asks, NEW x \in BOOLEAN, CallNested(p, n, x)
       PROVE  HeldMatchesProgram'
  BY <1>12 DEF CallNested, TypeOK
<1>13. ASSUME NEW p \in Procs, Interrupt(p) PROVE HeldMatchesProgram'
  BY <1>13 DEF Interrupt, TypeOK
<1>14. CASE UNCHANGED vars
  BY <1>14 DEF vars
<1> QED
  BY <1>1, <1>2, <1>3, <1>4, <1>5, <1>6, <1>7, <1>8, <1>9, <1>10, <1>11, <1>12,
     <1>13, <1>14 DEF Next, LockStep

\* An exclusive draw's slots are its own from slot 0 up, and stay so.
LEMMA StepCollects ==
    ASSUME TypeOK, HeldIsLocked, HeldMatchesProgram, CollectsInOrder, [Next]_vars
    PROVE  CollectsInOrder'
<1>0. /\ \A p \in Procs : p # Nobody
      /\ \A p \in Procs : at[p] \in Int
      /\ \A i \in Slots : i \in Int /\ i < Total
      /\ Total \in Nat
  BY NobodyAssumption, TotalAssumption DEF TypeOK, Slots
<1> USE DEF CollectsInOrder, Goto
<1>1. ASSUME NEW p \in Procs, LockSlot(p) PROVE CollectsInOrder'
  <2>1. /\ \A i \in Slots : slot'[i] = IF i = at[p] THEN p ELSE slot[i]
        /\ slot[at[p]] = Nobody /\ at[p] \in Slots
        /\ at'[p] = at[p] + 1
        /\ pc'[p] \in {"collect", "unlock_admission"}
        /\ \A q \in Procs \ {p} : pc'[q] = pc[q] /\ at'[q] = at[q]
        /\ exclusive' = exclusive
    BY <1>1 DEF LockSlot, LockSlotAt, TypeOK
  <2>2. \A i \in Slots : i < at[p] + 1 => slot'[i] = p
    BY <1>0, <1>1, <2>1 DEF LockSlot
  <2>3. ASSUME NEW q \in Procs \ {p}, NEW i \in Slots, slot[i] = q PROVE slot'[i] = q
    BY <1>0, <2>1, <2>3
  <2> QED BY <2>1, <2>2, <2>3
<1>2. ASSUME NEW p \in Procs, TryFree(p) PROVE CollectsInOrder'
  <2>1. /\ \A i \in Slots : slot'[i] = IF i = at[p] THEN p ELSE slot[i]
        /\ slot[at[p]] = Nobody
        /\ pc'[p] \in Sweeps
        /\ \A q \in Procs \ {p} : pc'[q] = pc[q] /\ at'[q] = at[q]
        /\ exclusive' = exclusive
    BY <1>2 DEF TryFree, LockSlotAt, TypeOK, Sweeps
  <2>2. ASSUME NEW q \in Procs \ {p}, NEW i \in Slots, slot[i] = q PROVE slot'[i] = q
    BY <1>0, <2>1, <2>2
  <2> QED BY <2>1, <2>2 DEF Sweeps
<1>3. ASSUME NEW p \in Procs, ReleaseOne(p) \/ Die(p) PROVE CollectsInOrder'
  <2>1. /\ pc'[p] \in {"release", "dead"}
        /\ \A q \in Procs \ {p} : pc'[q] = pc[q] /\ at'[q] = at[q]
        /\ exclusive' = exclusive
    BY <1>3 DEF ReleaseOne, Die, TypeOK
  <2>2. ASSUME NEW q \in Procs \ {p}, NEW i \in Slots, slot[i] = q PROVE slot'[i] = q
    <3>1. CASE Die(p)
      BY <2>2, <3>1 DEF Die, TypeOK
    <3>2. CASE ReleaseOne(p)
      <4>1. slot[Head(held[p])] = p
        BY <1>3, <3>2, HeadIsLocked
      <4> QED BY <2>2, <3>2, <4>1 DEF ReleaseOne, TypeOK
    <3> QED BY <1>3, <3>1, <3>2
  <2> QED BY <2>1, <2>2
<1>4. ASSUME NEW p \in Procs, UnlockAdmission(p) PROVE CollectsInOrder'
  BY <1>0, <1>4, SMTT(30) DEF UnlockAdmission, TypeOK
<1>5. ASSUME NEW p \in Procs, LockAdmission(p) PROVE CollectsInOrder'
  BY <1>0, <1>5 DEF LockAdmission, TypeOK, HeldMatchesProgram, Slots
<1>6. ASSUME NEW p \in Procs, SweptEnough(p) \/ SweptInVain(p) \/ TryBusy(p)
      PROVE  CollectsInOrder'
  <2>1. /\ pc[p] \in Sweeps /\ ~exclusive[p] /\ pc'[p] \in Sweeps \union {"yield"}
        /\ \A q \in Procs \ {p} : pc'[q] = pc[q] /\ at'[q] = at[q]
        /\ exclusive' = exclusive /\ slot' = slot
    BY <1>6 DEF SweptEnough, SweptInVain, TryBusy, TypeOK, HeldMatchesProgram, Sweeps
  <2> QED BY <2>1 DEF Sweeps
<1>7. ASSUME NEW p \in Procs, Released(p) \/ EndBlock(p) \/ EndNested(p) \/ Interrupt(p)
      PROVE  CollectsInOrder'
  <2>1. /\ \/ pc'[p] \in {"outside", "release"}
           \/ pc[p] = "nested" /\ pc'[p] = "yield"
           \/ pc[p] = "collect" /\ pc'[p] = "unlock_admission"
        /\ \A q \in Procs \ {p} : pc'[q] = pc[q]
        /\ at' = at /\ exclusive' = exclusive /\ slot' = slot
    BY <1>7 DEF Released, EndBlock, EndNested, Interrupt, TypeOK
  <2> QED BY <2>1
<1>8. ASSUME NEW p \in Procs, NEW n \in Asks, NEW x \in BOOLEAN,
             Call(p, n, x) \/ CallNested(p, n, x)
      PROVE  CollectsInOrder'
  <2>1. CASE Call(p, n, x)
    <3>1. /\ pc'[p] \in {"flock_admission", "sweep"}
          /\ \A q \in Procs \ {p} : /\ pc'[q] = pc[q] /\ at'[q] = at[q]
                                    /\ exclusive'[q] = exclusive[q]
          /\ slot' = slot
      BY <2>1 DEF Call, TypeOK
    <3> QED BY <3>1
  <2>2. CASE CallNested(p, n, x)
    BY <2>2 DEF CallNested, TypeOK
  <2> QED BY <1>8, <2>1, <2>2
<1>9. CASE UNCHANGED vars
  BY <1>9 DEF vars
<1> QED
  BY <1>1, <1>2, <1>3, <1>4, <1>5, <1>6, <1>7, <1>8, <1>9 DEF Next, LockStep

-----------------------------------------------------------------------------
(* The inductive invariant, and the safety properties it implies.          *)

LEMMA InitFiles == Init => FilesMatchProgram
<1> SUFFICES ASSUME Init PROVE FilesMatchProgram
  OBVIOUS
<1>1. AdmissionMatchesProgram
  BY NobodyAssumption DEF Init, AdmissionMatchesProgram
<1>2. HeldIsLocked
  BY NobodyAssumption, ListsNothing, HeldLists DEF Init
<1>3. HeldMatchesProgram
  <2>1. \A p \in Procs : pc[p] = "outside" /\ held[p] = <<>> /\ want[p] = 1
    BY DEF Init
  <2>2. \A p \in Procs : Len(held[p]) <= want[p]
    <3>1. Len(<<>>) = 0
      BY EmptySeq
    <3>2. 0 <= 1
      OBVIOUS
    <3> QED BY <2>1, <3>1, <3>2
  <2>3. \A p \in Procs : ~exclusive[p]
    BY DEF Init
  <2> QED BY <2>1, <2>2, <2>3 DEF HeldMatchesProgram, Sweeps
<1>4. CollectsInOrder
  BY DEF Init, CollectsInOrder
<1> QED BY <1>1, <1>2, <1>3, <1>4 DEF FilesMatchProgram

LEMMA StepInv == IInv /\ [Next]_vars => IInv'
BY StepType, StepAdmission, StepHeld, StepLengths, StepCollects
DEF IInv, FilesMatchProgram

\* The slot files and the admission mutex agree with what every process is doing
\* and with its list of held slots, in every behaviour.
THEOREM FilesCorrect == Spec => [](TypeOK /\ FilesMatchProgram)
<1>1. Init => IInv
  BY InitType, InitFiles DEF IInv
<1>2. IInv => TypeOK /\ FilesMatchProgram
  BY DEF IInv
<1> QED BY <1>1, <1>2, StepInv, PTL DEF Spec

\* Every block runs with a slot, and the first it lists is one it has locked.
LEMMA BlocksHaveASlot ==
    ASSUME IInv, NEW p \in Procs, InBlock(p)
    PROVE  /\ Len(held[p]) \in 1 .. want[p]
           /\ 1 \in DOMAIN held[p] /\ held[p][1] \in Slots
           /\ slot[held[p][1]] = p
<1>1. held[p] \in Seq(Slots) /\ held[p] # <<>> /\ Len(held[p]) <= want[p]
  BY DEF IInv, TypeOK, FilesMatchProgram, HeldMatchesProgram, InBlock
<1>2. Len(held[p]) \in Nat \ {0} /\ DOMAIN held[p] = 1 .. Len(held[p])
  BY <1>1, EmptySeq, LenProperties
<1>3. want[p] \in Int
  BY LengthsAreNaturals DEF IInv
<1>4. 1 \in DOMAIN held[p] /\ Len(held[p]) \in 1 .. want[p]
  BY <1>1, <1>2, <1>3
<1>5. held[p][1] \in Slots
  BY <1>1, <1>2, <1>4, ElementOfSeq
<1> QED BY <1>4, <1>5 DEF IInv, FilesMatchProgram, HeldIsLocked

LEMMA InvDrawAlone == IInv => DrawAlone
<1> SUFFICES ASSUME IInv, NEW p \in Procs, NEW q \in Procs,
                    InBlock(p), exclusive[p], InBlock(q)
             PROVE  p = q
  BY DEF DrawAlone
<1>1. held[q][1] \in Slots /\ slot[held[q][1]] = q
  BY BlocksHaveASlot
<1>2. \A i \in Slots : slot[i] = p
  BY DEF IInv, FilesMatchProgram, CollectsInOrder, InBlock
<1> QED BY <1>1, <1>2

\* An exclusive draw has the host to itself, for any budget and any number of
\* processes drawing, interrupted and killed at will.
THEOREM ExclusiveDrawIsAlone == Spec => []DrawAlone
BY FilesCorrect, InvDrawAlone, PTL DEF IInv

LEMMA InvBlockHasItsSlots == IInv => BlockHasItsSlots
BY BlocksHaveASlot DEF BlockHasItsSlots, IInv, FilesMatchProgram, HeldIsLocked

\* No block ever runs with no slot, with more than were asked for, or with a slot
\* that it counts twice or has not locked.
THEOREM BlocksHaveTheirSlots == Spec => []BlockHasItsSlots
BY FilesCorrect, InvBlockHasItsSlots, PTL DEF IInv

LEMMA InvNothingLeft == IInv => NothingLeftLocked
<1> SUFFICES ASSUME IInv, NEW p \in Procs, pc[p] \in {"outside", "flock_admission", "dead"}
             PROVE  admission # p /\ \A i \in Slots : slot[i] # p
  BY DEF NothingLeftLocked
<1>1. admission # p
  BY DEF IInv, FilesMatchProgram, AdmissionMatchesProgram
<1>2. held[p] = <<>> /\ Lists(held[p], slot, p)
  BY HeldLists DEF IInv, FilesMatchProgram, HeldMatchesProgram
<1>3. DOMAIN held[p] = {}
  BY <1>2
<1> QED BY <1>1, <1>2, <1>3 DEF Lists

\* No way out of acquire (the block's end, an interrupt, a kill) leaves a slot or
\* the admission mutex locked.
THEOREM NothingIsLeftLocked == Spec => []NothingLeftLocked
BY FilesCorrect, InvNothingLeft, PTL DEF IInv

-----------------------------------------------------------------------------
(* The pool implements the counting semaphore.                             *)

\* How many slots p's block runs with, as CountingBudget counts.
Draws(p) == IF InBlock(p) THEN Len(held[p]) ELSE 0

drawn == [p \in Procs |-> Draws(p)]

LEMMA SameCardinality == \A S : Budget!Cardinality(S) = Cardinality(S)
BY DEF Budget!Cardinality, Cardinality

LEMMA UpToCount == ASSUME NEW n \in Nat PROVE IsFiniteSet(1 .. n) /\ Cardinality(1 .. n) = n
<1>1. IsFiniteSet(1 .. n) /\ Cardinality(1 .. n) = IF 1 > n THEN 0 ELSE n - 1 + 1
  BY FS_Interval
<1> QED BY <1>1

LEMMA SlotsCount == IsFiniteSet(Slots) /\ Cardinality(Slots) = Total
BY FS_Interval, TotalAssumption DEF Slots

\* The slots that processes list, as pairs, are at most the slot files.
LEMMA ListedFitSlots ==
    ASSUME IInv, NEW U, \A g \in U : g \in Procs \X (1 .. Total) /\ g[2] \in DOMAIN held[g[1]]
    PROVE  IsFiniteSet(U) /\ Cardinality(U) <= Total
<1> DEFINE f == [g \in U |-> held[g[1]][g[2]]]
<1>1. ASSUME NEW g \in U PROVE f[g] \in Slots /\ slot[f[g]] = g[1]
  <2>1. g[1] \in Procs /\ held[g[1]] \in Seq(Slots) /\ g[2] \in DOMAIN held[g[1]]
    BY DEF IInv, TypeOK
  <2>2. held[g[1]][g[2]] \in Slots
    BY <2>1, ElementOfSeq
  <2> QED BY <2>1, <2>2 DEF IInv, FilesMatchProgram, HeldIsLocked
<1>2. ASSUME NEW g \in U, NEW h \in U, f[g] = f[h] PROVE g = h
  <2>1. g[1] = h[1]
    BY <1>1, <1>2
  <2>2. g[1] \in Procs /\ held[g[1]][g[2]] = held[g[1]][h[2]] /\ {g[2], h[2]} \subseteq DOMAIN held[g[1]]
    BY <1>2, <2>1
  <2>3. g[2] = h[2]
    BY <2>2 DEF IInv, FilesMatchProgram, HeldIsLocked
  <2>4. g = <<g[1], g[2]>> /\ h = <<h[1], h[2]>>
    OBVIOUS
  <2> QED BY <2>1, <2>3, <2>4
<1>3. f \in Injection(U, Slots)
  BY <1>1, <1>2 DEF Injection, IsInjective
<1> HIDE DEF f
<1> QED BY <1>3, SlotsCount, FS_Injection

\* A process that is about to run its block with the slots it holds is granted
\* them: with those the other blocks count they are within the budget.
LEMMA StepGrant ==
    ASSUME IInv, NEW p \in Procs, Draws(p) = 0, held[p] # <<>>, Len(held[p]) \in 1 .. Total,
           drawn' = [drawn EXCEPT ![p] = Len(held[p])]
    PROVE  \E k \in 1 .. Total : Budget!Grant(p, k)
<1> DEFINE n == Len(held[p])
           U == Budget!Granted
           V == {p} \X (1 .. n)
<1>1. U = {g \in Procs \X (1 .. Total) : g[2] <= drawn[g[1]]}
  BY DEF Budget!Granted, drawn, Draws
<1>2. \A g \in U : g \in Procs \X (1 .. Total) /\ g[2] \in DOMAIN held[g[1]] /\ g[1] # p
  <2>1. ASSUME NEW g \in U PROVE g \in Procs \X (1 .. Total) /\ g[2] \in DOMAIN held[g[1]] /\ g[1] # p
    <3>1. g[1] \in Procs /\ g[2] \in 1 .. Total /\ g[2] <= Draws(g[1])
      BY <1>1 DEF drawn
    <3>2. InBlock(g[1]) /\ g[2] <= Len(held[g[1]])
      BY <3>1 DEF Draws
    <3>3. held[g[1]] \in Seq(Slots)
      BY <3>1 DEF IInv, TypeOK
    <3>4. DOMAIN held[g[1]] = 1 .. Len(held[g[1]])
      BY <3>3
    <3>5. g[1] # p
      BY <3>1
    <3> QED BY <1>1, <3>1, <3>2, <3>4, <3>5
  <2> QED BY <2>1
<1>3. held[p] \in Seq(Slots) /\ DOMAIN held[p] = 1 .. n /\ n \in Nat /\ n \in 1 .. Total
  BY DEF IInv, TypeOK
<1>4. \A g \in V : g \in Procs \X (1 .. Total) /\ g[2] \in DOMAIN held[g[1]]
  <2>1. ASSUME NEW g \in V PROVE g \in Procs \X (1 .. Total) /\ g[2] \in DOMAIN held[g[1]]
    <3>1. g[1] = p /\ g[2] \in 1 .. n /\ g = <<g[1], g[2]>>
      OBVIOUS
    <3>2. g[2] \in 1 .. Total
      BY <1>3, <3>1, TotalAssumption
    <3> QED BY <1>3, <3>1, <3>2
  <2> QED BY <2>1
<1>5. U \cap V = {}
  BY <1>2
<1>6. IsFiniteSet(V) /\ Cardinality(V) = n
  <2> DEFINE b == [j \in 1 .. n |-> <<p, j>>]
  <2>0. n \in Nat
    BY <1>3, TotalAssumption
  <2>1. IsFiniteSet(1 .. n) /\ Cardinality(1 .. n) = n
    <3> HIDE DEF n, U, V, b
    <3> QED BY <2>0, UpToCount
  <2>2. b \in [1 .. n -> V] /\ \A j, m \in 1 .. n : b[j] = b[m] => j = m
    OBVIOUS
  <2>3. \A g \in V : \E j \in 1 .. n : b[j] = g
    OBVIOUS
  <2> HIDE DEF b, V, n
  <2>4. b \in Bijection(1 .. n, V)
    BY <2>2, <2>3 DEF Bijection, Injection, Surjection, IsInjective
  <2> QED BY <2>1, <2>4, FS_Bijection DEF ExistsBijection
<1> HIDE DEF U, V
<1>7. IsFiniteSet(U) /\ IsFiniteSet(U \cup V) /\ Cardinality(U \cup V) <= Total
  BY <1>2, <1>4, ListedFitSlots
<1>8. Cardinality(U \cup V) = Cardinality(U) + Cardinality(V) - Cardinality(U \cap V)
  BY <1>6, <1>7, FS_Union
<1>9. Cardinality(U \cap V) = 0 /\ Cardinality(U) \in Nat
  BY <1>5, <1>7, FS_EmptySet, FS_CardinalityType
<1> HIDE DEF n
<1>10. n <= Total - Cardinality(U)
  BY <1>3, <1>6, <1>7, <1>8, <1>9, TotalAssumption
<1>11. Budget!Left = Total - Cardinality(U)
  BY SameCardinality DEF Budget!Left, U
<1>12. drawn[p] = 0
  BY DEF drawn
<1>13. drawn' = [drawn EXCEPT ![p] = n]
  BY DEF n
<1> QED BY <1>3, <1>10, <1>11, <1>12, <1>13 DEF Budget!Grant, drawn, Draws

\* What the draws of a step by p can be.
Alone(p) ==
    \A q \in Procs \ {p} : pc'[q] = pc[q] /\ held'[q] = held[q]

LEMMA DrawsOfOthersStay ==
    ASSUME NEW p \in Procs, Alone(p)
    PROVE  drawn' = [q \in Procs |-> IF q = p THEN Draws(p)' ELSE drawn[q]]
<1>1. \A q \in Procs \ {p} : Draws(q)' = Draws(q)
  BY DEF Alone, Draws, InBlock
<1> QED BY <1>1 DEF drawn

LEMMA Quiet ==
    ASSUME NEW p \in Procs, Alone(p), Draws(p)' = Draws(p)
    PROVE  drawn' = drawn
BY DrawsOfOthersStay DEF drawn

\* A block's start, with all it is told, is one grant.
LEMMA StartIsGrant ==
    ASSUME IInv, NEW p \in Procs, Alone(p), held'[p] = held[p], held[p] # <<>>,
           ~InBlock(p), InBlock(p)'
    PROVE  \E k \in 1 .. Total : Budget!Grant(p, k)
<1>1. Draws(p) = 0 /\ Draws(p)' = Len(held[p])
  BY DEF Draws
<1>2. Len(held[p]) \in 1 .. Total
  <2>1. held[p] \in Seq(Slots) /\ want[p] \in 1 .. Total /\ Len(held[p]) <= want[p]
    BY DEF IInv, TypeOK, FilesMatchProgram, HeldMatchesProgram
  <2>2. Len(held[p]) \in Nat /\ Len(held[p]) # 0
    BY <2>1, LenProperties, EmptySeq
  <2> QED BY <2>1, <2>2, TotalAssumption
<1>3. drawn' = [drawn EXCEPT ![p] = Len(held[p])]
  BY <1>1, DrawsOfOthersStay DEF drawn
<1> QED BY <1>1, <1>2, <1>3, StepGrant

\* A block's end, by return or by kill, is a release.
LEMMA EndIsRelease ==
    ASSUME IInv, NEW p \in Procs, Alone(p), InBlock(p), ~InBlock(p)'
    PROVE  Budget!Release(p)
<1>1. Draws(p) = Len(held[p]) /\ Draws(p)' = 0
  BY DEF Draws
<1>2. Len(held[p]) > 0
  BY BlocksHaveASlot DEF IInv, TypeOK
<1>3. drawn[p] > 0 /\ drawn' = [drawn EXCEPT ![p] = 0]
  BY <1>1, <1>2, DrawsOfOthersStay DEF drawn
<1> QED BY <1>3 DEF Budget!Release, drawn, Draws

LEMMA StepBudget == IInv /\ [Next]_vars => [Budget!Next]_drawn
<1> SUFFICES ASSUME IInv, [Next]_vars PROVE [Budget!Next]_drawn
  OBVIOUS
<1> USE DEF IInv, TypeOK
<1>0. ASSUME NEW p \in Procs, \E k \in 1 .. Total : Budget!Grant(p, k)
      PROVE  Budget!Next
  BY <1>0 DEF Budget!Next
<1>1. ASSUME NEW p \in Procs, Takes(p) PROVE drawn' = drawn
  <2>1. Alone(p) /\ ~InBlock(p) /\ ~InBlock(p)'
    BY <1>1 DEF Alone, Takes, LockSlot, TryFree, LockSlotAt, InBlock, Goto, Sweeps
  <2> QED BY <2>1, Quiet DEF Draws
<1>2. ASSUME NEW p \in Procs, ReleaseOne(p) PROVE drawn' = drawn
  <2>1. Alone(p) /\ ~InBlock(p) /\ ~InBlock(p)'
    BY <1>2 DEF Alone, ReleaseOne, InBlock
  <2> QED BY <2>1, Quiet DEF Draws
<1>3. ASSUME NEW p \in Procs, Die(p) PROVE [Budget!Next]_drawn
  <2>1. Alone(p) /\ ~InBlock(p)'
    BY <1>3 DEF Alone, Die, InBlock, Goto
  <2>2. CASE InBlock(p)
    BY <2>1, <2>2, EndIsRelease DEF Budget!Next
  <2>3. CASE ~InBlock(p)
    BY <2>1, <2>3, Quiet DEF Draws
  <2> QED BY <2>2, <2>3
<1>4. ASSUME NEW p \in Procs, Elsewhere(p) PROVE [Budget!Next]_drawn
  <2>1. held' = held
    BY <1>4, ElsewhereKeeps
  <2>2. CASE UnlockAdmission(p) \/ SweptEnough(p)
    <3>1. Alone(p) /\ ~InBlock(p)
      BY <2>2, <2>1 DEF Alone, UnlockAdmission, SweptEnough, InBlock, Goto, Sweeps
    <3>2. CASE InBlock(p)'
      <4>1. held[p] # <<>>
        <5>1. CASE UnlockAdmission(p)
          <6>1. at[p] = Total /\ at[p] = Len(held[p])
            BY <5>1, <3>2 DEF UnlockAdmission, InBlock, Goto, FilesMatchProgram, HeldMatchesProgram
          <6> QED BY <6>1, TotalAssumption, EmptySeq
        <5> QED BY <5>1, <2>2 DEF SweptEnough
      <4> QED BY <3>1, <3>2, <2>1, <4>1, <1>0, StartIsGrant
    <3>3. CASE ~InBlock(p)'
      BY <3>1, <3>3, Quiet DEF Draws
    <3> QED BY <3>2, <3>3
  <2>3. CASE EndBlock(p)
    <3>1. Alone(p) /\ InBlock(p) /\ ~InBlock(p)'
      BY <2>3, <2>1 DEF Alone, EndBlock, InBlock, Goto
    <3> QED BY <3>1, EndIsRelease DEF Budget!Next
  <2>4. CASE EndNested(p) \/ \E n \in Asks, x \in BOOLEAN : CallNested(p, n, x)
    <3>1. Alone(p) /\ InBlock(p) /\ InBlock(p)'
      BY <2>4, <2>1 DEF Alone, EndNested, CallNested, InBlock, Goto
    <3> QED BY <3>1, <2>1, Quiet DEF Draws
  <2>5. CASE \/ \E n \in Asks, x \in BOOLEAN : Call(p, n, x)
             \/ LockAdmission(p) \/ TryBusy(p) \/ SweptInVain(p) \/ Released(p)
             \/ Interrupt(p)
    <3>1. Alone(p) /\ ~InBlock(p) /\ ~InBlock(p)'
      BY <2>5, <2>1 DEF Alone, Call, LockAdmission, TryBusy, SweptInVain, Released,
         Interrupt, InBlock, Goto, Sweeps
    <3> QED BY <3>1, Quiet DEF Draws
  <2> QED BY <1>4, <2>2, <2>3, <2>4, <2>5 DEF Elsewhere
<1>5. CASE UNCHANGED vars
  <2>1. \A p \in Procs : Draws(p)' = Draws(p)
    BY <1>5 DEF vars, Draws, InBlock
  <2> QED BY <2>1 DEF drawn
<1> QED BY <1>1, <1>2, <1>3, <1>4, <1>5, StepCases

LEMMA InitBudget == Init => Budget!Init
BY DEF Init, Budget!Init, InBlock

\* The pool of slot files implements the counting semaphore for any budget: a
\* block starts as one grant of no more than is left, however the slot-by-slot
\* draws, the interrupts and the kills interleave.
THEOREM PoolImplementsBudget == Spec => ImplementsCountingBudget
<1>1. Spec => []IInv
  BY FilesCorrect DEF IInv
<1>2. IInv /\ [Next]_vars =>
        [Budget!Next]_([p \in Procs |-> IF InBlock(p) THEN Len(held[p]) ELSE 0])
  BY StepBudget DEF drawn, Draws
<1> QED BY <1>1, <1>2, InitBudget, PTL DEF Spec, ImplementsCountingBudget, Budget!Spec
=============================================================================
