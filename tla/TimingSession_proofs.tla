------------------------ MODULE TimingSession_proofs ------------------------
(* Proofs about TimingSession, for every set of environments and entries, any *)
(* number of passes, targets and worker deaths: a session that returns has    *)
(* every sample, behind its barrier, and leaves no callable behind.           *)
EXTENDS TimingSession, TLAPS

\* The finally of a session whose passes all ended.
Ending == pc \in {"drop", "dropping"} /\ ~raised

Complete == Ending \/ pc = "clock_after" \/ Returned

Sampled(m, p) == \E s \in samples : s.member = m /\ s.pass = p

\* The samples there are at each point of a session.
SamplesMatchPass ==
    /\ pc \in {"setup", "call", "clock_before", "clock_after"} => ~raised
    /\ pc = "new" => outcome = "none"
    /\ pc \in {"clock_before", "setup"} => samples = {}
    /\ pc = "call" =>
          /\ todo \subseteq Live
          /\ \A m \in Live : \A p \in Warmup + 1 .. pass : p < pass \/ m \notin todo => Sampled(m, p)
    /\ Complete => \A m \in Live, p \in Warmup + 1 .. Passes : Sampled(m, p)

\* A member absent from a sample is absent since, and has not been called since.
PresenceMatchesPass ==
    /\ pc = "call" => \A s \in samples : s.pass <= pass /\ \A m \in Live \ s.present :
                          ~Present(m) /\ (s.pass = pass \/ (s.pass = pass - 1 /\ m \in todo))
    /\ Complete => \A s \in samples : s.pass < Passes => Live \subseteq s.present

\* The callables in the workers are those of the members the finally will drop.
CallablesMatchSession ==
    /\ \A k \in Keys : (alive[k] => gen[k] > 0) /\ (~alive[k] => live[k] = {})
    /\ pc \in {"setup", "call"} \/ Ending =>
          \A k \in Keys : \A c \in live[k] : \E m \in Members :
              /\ c = <<target, m>> /\ plan[m] = k /\ handle[m] = gen[k]
              /\ Ending => m \in todo
    /\ pc \in {"new", "clock_before", "clock_after", "memory"} \/ (pc = "idle" /\ outcome # "failed") =>
          \A k \in Keys : live[k] = {}

SessionMatchesProgram ==
    /\ TypeOK
    /\ SamplesMatchPass
    /\ PresenceMatchesPass
    /\ CallablesMatchSession

LEMMA ReaderKeyed == <<Reader, "">> \in Keys
BY DEF Keys

LEMMA InitSession == Init => SessionMatchesProgram
<1> SUFFICES ASSUME Init PROVE SessionMatchesProgram
  OBVIOUS
<1>1. plan \in Seq(Keys) /\ Members = {}
  BY DEF Init, Members
<1>2. Passes \in Nat
  BY SessionAssumption DEF Passes
<1>3. \A S : <<>> \in [{} -> S]
  OBVIOUS
<1>4. 0 \in 0 .. MaxTargets /\ 0 \in 0 .. Passes
  BY <1>2, BoundsAssumption
<1>5. gen \in [Keys -> Nat] /\ alive \in [Keys -> BOOLEAN] /\ live \in [Keys -> SUBSET (Nat \X Nat)]
  BY DEF Init
<1>6. status = <<>> /\ handle = <<>> /\ instrument = <<>>
  BY DEF Init
<1>7. TypeOK
  BY <1>1, <1>3, <1>4, <1>5, <1>6 DEF Init, TypeOK
<1>8. SamplesMatchPass /\ PresenceMatchesPass /\ CallablesMatchSession
  BY DEF Init, SamplesMatchPass, PresenceMatchesPass, CallablesMatchSession, Complete, Ending, Returned
<1> QED
  BY <1>7, <1>8 DEF SessionMatchesProgram

LEMMA PassesNat == Passes \in Nat /\ Passes >= Warmup + 1 /\ Warmup \in Nat
BY SessionAssumption DEF Passes

LEMMA MemberKeyed ==
  ASSUME TypeOK, NEW m \in Members PROVE plan[m] \in Keys /\ m \in Nat
BY DEF TypeOK, Members

\* What reaching for a worker does to each.
LEMMA Reached ==
  ASSUME TypeOK, NEW k \in Keys, Reach(k)
  PROVE  /\ gen' \in [Keys -> Nat] /\ alive' \in [Keys -> BOOLEAN]
         /\ alive'[k]
         /\ \A j \in Keys : j # k => gen'[j] = gen[j] /\ alive'[j] = alive[j]
         /\ gen'[k] = IF alive[k] THEN gen[k] ELSE gen[k] + 1
BY DEF TypeOK, Reach

\* Every way to begin gives each member a worker.
LEMMA BegunKeyed ==
  ASSUME NEW w \in Wanted \union Gated
  PROVE  /\ [m \in DOMAIN w |-> <<EnvOf[w[m]], "">>] \in Seq(Keys)
         /\ [m \in 1 .. 2 * Len(w) |-> <<EnvOf[w[(m + 1) \div 2]], IF m % 2 = 1 THEN "a" ELSE "b">>] \in Seq(Keys)
<1>1. w \in Seq(DOMAIN EnvOf)
  BY WantedAssumption
<1>2. DOMAIN w = 1 .. Len(w) /\ Len(w) \in Nat
  BY <1>1
<1>3. \A m \in 1 .. Len(w) : w[m] \in DOMAIN EnvOf
  BY <1>1
<1>4. \A m \in 1 .. Len(w) : \A i \in {"", "a", "b"} : <<EnvOf[w[m]], i>> \in Keys
  BY <1>3 DEF Keys
<1>5. \A m \in 1 .. 2 * Len(w) : (m + 1) \div 2 \in 1 .. Len(w)
  BY <1>2
<1>6. [m \in DOMAIN w |-> <<EnvOf[w[m]], "">>] \in [1 .. Len(w) -> Keys]
  BY <1>2, <1>4
<1>7. [m \in 1 .. 2 * Len(w) |-> <<EnvOf[w[(m + 1) \div 2]], IF m % 2 = 1 THEN "a" ELSE "b">>]
         \in [1 .. 2 * Len(w) -> Keys]
  BY <1>4, <1>5
<1>8. 2 * Len(w) \in Nat
  BY <1>2
<1> HIDE <1>1, <1>3, <1>4, <1>5
<1>9. \A n \in Nat : [1 .. n -> Keys] \subseteq Seq(Keys)
  OBVIOUS
<1> QED
  BY <1>2, <1>6, <1>7, <1>8, <1>9

LEMMA BeginType ==
  ASSUME TypeOK, NEW what \in {"clock_before", "memory"}, NEW p \in Seq(Keys), Begin(what, p)
  PROVE  TypeOK'
<1>1. Members' = DOMAIN p /\ plan' = p
  BY DEF Begin, Members
<1>2. target' \in 0 .. MaxTargets
  BY BoundsAssumption DEF Begin, TypeOK
<1>3. /\ status' \in [Members' -> {"new", "ok", "failed"}]
      /\ handle' \in [Members' -> Nat]
      /\ instrument' \in [Members' -> Instruments \union {"none"}]
  BY <1>1 DEF Begin
<1>4. pass' \in 0 .. Passes
  BY PassesNat DEF Begin
<1>5. /\ gen' \in [Keys -> Nat] /\ alive' \in [Keys -> BOOLEAN] /\ live' \in [Keys -> SUBSET (Nat \X Nat)]
      /\ outcome' \in {"none", "session", "memory", "failed"}
  BY DEF Begin, TypeOK, workers
<1>6. pc' = what /\ at' = 1 /\ todo' = {} /\ raised' = FALSE /\ samples' = {}
  BY DEF Begin
<1> QED
  BY <1>1, <1>2, <1>3, <1>4, <1>5, <1>6 DEF TypeOK

LEMMA StepType == TypeOK /\ [Next]_vars => TypeOK'
<1> SUFFICES ASSUME TypeOK, [Next]_vars PROVE TypeOK'
  OBVIOUS
<1> USE DEF workers, members
<1>1. CASE StartServer \/ StopServer
  <2>1. [k \in Keys |-> FALSE] \in [Keys -> BOOLEAN] /\ [k \in Keys |-> {}] \in [Keys -> SUBSET (Nat \X Nat)]
    OBVIOUS
  <2> QED
    BY <1>1, <2>1 DEF StartServer, StopServer, CloseAll, TypeOK, Members
<1>2. ASSUME NEW k \in Keys, Die(k) PROVE TypeOK'
  <2>1. alive' \in [Keys -> BOOLEAN] /\ live' \in [Keys -> SUBSET (Nat \X Nat)]
    BY <1>2 DEF Die, TypeOK
  <2> QED
    BY <1>2, <2>1 DEF Die, TypeOK, Members
<1>3. ASSUME NEW w \in Wanted, BeginMeasure(w) \/ BeginMemory(w) PROVE TypeOK'
  BY <1>3, BegunKeyed, BeginType DEF BeginMeasure, BeginMemory
<1>4. ASSUME NEW w \in Gated, BeginNullGate(w) PROVE TypeOK'
  BY <1>4, BegunKeyed, BeginType DEF BeginNullGate
<1>5. CASE ReadClock
  <2>1. gen' \in [Keys -> Nat] /\ alive' \in [Keys -> BOOLEAN]
    BY <1>5, ReaderKeyed, Reached DEF ReadClock
  <2> QED
    BY <1>5, <2>1 DEF ReadClock, End, TypeOK, Members
<1>6. ASSUME NEW m \in Members, NEW clock \in Instruments, NEW drawn \in BOOLEAN, SetUpReady(m, clock, drawn)
      PROVE  TypeOK'
  <2>1. plan[m] \in Keys /\ m \in Nat /\ target \in Nat
    BY MemberKeyed, BoundsAssumption DEF TypeOK
  <2>2. gen' \in [Keys -> Nat] /\ alive' \in [Keys -> BOOLEAN]
    BY <1>6, <2>1, Reached DEF SetUpReady
  <2>3. live' \in [Keys -> SUBSET (Nat \X Nat)]
    BY <1>6, <2>1 DEF SetUpReady, TypeOK
  <2>4. gen'[plan[m]] \in Nat
    BY <2>1, <2>2
  <2>5. handle' \in [Members -> Nat]
    BY <1>6, <2>4 DEF SetUpReady, TypeOK
  <2>6. status' \in [Members -> {"new", "ok", "failed"}] /\ instrument' \in [Members -> Instruments \union {"none"}]
    BY <1>6 DEF SetUpReady, TypeOK
  <2>7. plan' = plan /\ Members' = Members /\ at' = at + 1
    BY <1>6 DEF SetUpReady, Members
  <2> QED
    BY <1>6, <2>2, <2>3, <2>5, <2>6, <2>7, SMTT(30) DEF SetUpReady, TypeOK
<1>7. ASSUME NEW m \in Members, SetUpFailed(m) \/ SetUpRaises(m) PROVE TypeOK'
  <2>1. plan[m] \in Keys /\ m \in Nat /\ target \in Nat
    BY MemberKeyed, BoundsAssumption DEF TypeOK
  <2>2. gen' \in [Keys -> Nat] /\ alive' \in [Keys -> BOOLEAN]
    BY <1>7, <2>1, Reached DEF SetUpFailed, SetUpRaises
  <2>3. live' \in [Keys -> SUBSET (Nat \X Nat)]
    <3>1. live' = live \/ \E kept \in {{}, {<<target, m>>}} : live' = [live EXCEPT ![plan[m]] = @ \union kept]
      BY <1>7 DEF SetUpFailed, SetUpRaises
    <3>2. ASSUME NEW kept \in {{}, {<<target, m>>}}, live' = [live EXCEPT ![plan[m]] = @ \union kept]
          PROVE live' \in [Keys -> SUBSET (Nat \X Nat)]
      <4>1. kept \in SUBSET (Nat \X Nat)
        BY <2>1
      <4> QED
        BY <3>2, <4>1 DEF TypeOK
    <3> QED
      BY <3>1, <3>2 DEF TypeOK
  <2>4. status' \in [Members -> {"new", "ok", "failed"}]
    <3>1. status' = status \/ status' = [status EXCEPT ![m] = "failed"]
      BY <1>7 DEF SetUpFailed, SetUpRaises
    <3> QED
      BY <3>1 DEF TypeOK
  <2>5. Members' = Members /\ SetUp \subseteq Members /\ at' \in Nat
    BY <1>7 DEF SetUpFailed, SetUpRaises, Members, SetUp, TypeOK
  <2> QED
    BY <1>7, <2>2, <2>3, <2>4, <2>5 DEF SetUpFailed, SetUpRaises, Raise, TypeOK
<1>8. CASE Barrier \/ NextPass
  <2>1. Live \subseteq Members /\ SetUp \subseteq Members /\ 1 \in 0 .. Passes
    BY PassesNat DEF Live, SetUp
  <2>2. Members' = Members
    BY <1>8 DEF Barrier, NextPass, Members
  <2>3. pass' \in 0 .. Passes
    BY <1>8, <2>1, PassesNat DEF Barrier, NextPass, TypeOK
  <2> QED
    BY <1>8, <2>1, <2>2, <2>3 DEF Barrier, NextPass, Raise, TypeOK
<1>9. ASSUME NEW m \in Members, CallTimed(m) PROVE TypeOK'
  <2>1. pass > Warmup => pass \in Warmup + 1 .. Passes
    BY PassesNat DEF TypeOK
  <2>2. \/ samples' = samples
        \/ pass > Warmup /\ samples' = samples \union {[member |-> m, pass |-> pass,
                                                        present |-> {n \in Members : Present(n)}]}
    BY <1>9, PassesNat DEF CallTimed, TypeOK
  <2>3. samples' \subseteq [member : Members, pass : Warmup + 1 .. Passes, present : SUBSET Members]
    BY <2>1, <2>2 DEF TypeOK
  <2>4. Members' = Members
    BY <1>9 DEF CallTimed, Members
  <2> QED
    BY <1>9, <2>3, <2>4 DEF CallTimed, TypeOK
<1>10. ASSUME NEW m \in Members, CallFailed(m) \/ CallLost(m) PROVE TypeOK'
  <2>1. Members' = Members /\ SetUp \subseteq Members
    BY <1>10 DEF CallFailed, CallLost, Members, SetUp
  <2>2. status' \in [Members -> {"new", "ok", "failed"}]
    BY <1>10 DEF CallFailed, CallLost, TypeOK
  <2> QED
    BY <1>10, <2>1, <2>2 DEF CallFailed, CallLost, Raise, TypeOK
<1>11. CASE DropTest \/ DropsDone
  BY <1>11 DEF DropTest, DropsDone, End, TypeOK, Members
<1>12. CASE DropAsk
  <2>1. live' \in [Keys -> SUBSET (Nat \X Nat)]
    BY <1>12 DEF DropAsk, TypeOK
  <2> QED
    BY <1>12, <2>1 DEF DropAsk, End, TypeOK, Members
<1>13. ASSUME NEW m \in Members, MeasureMemory(m) PROVE TypeOK'
  <2>1. gen' \in [Keys -> Nat] /\ alive' \in [Keys -> BOOLEAN]
    BY <1>13, MemberKeyed, Reached DEF MeasureMemory
  <2>2. status' \in [Members -> {"new", "ok", "failed"}] /\ at' \in Nat
    <3>1. status' = status \/ \E s \in {"ok", "failed"} : status' = [status EXCEPT ![m] = s]
      BY <1>13 DEF MeasureMemory
    <3>2. at' = at \/ at' = at + 1
      BY <1>13 DEF MeasureMemory
    <3>3. status \in [Members -> {"new", "ok", "failed"}] /\ at \in Nat
      BY DEF TypeOK
    <3>4. ASSUME NEW s \in {"ok", "failed"} PROVE [status EXCEPT ![m] = s] \in [Members -> {"new", "ok", "failed"}]
      BY <3>3
    <3> QED
      BY <3>1, <3>2, <3>3, <3>4
  <2>3. Members' = Members
    BY <1>13 DEF MeasureMemory, Members
  <2> QED
    BY <1>13, <2>1, <2>2, <2>3 DEF MeasureMemory, End, TypeOK
<1>14. CASE MemoryDone \/ UNCHANGED vars
  BY <1>14 DEF MemoryDone, End, vars, TypeOK, Members
<1> QED
  BY <1>1, <1>2, <1>3, <1>4, <1>5, <1>6, <1>7, <1>8, <1>9, <1>10, <1>11, <1>12, <1>13, <1>14 DEF Next, Setup

\* The session starts each variable, and each step keeps it, in its type.
THEOREM TypeCorrect == Spec => []TypeOK
<1>1. Init => TypeOK
  BY InitSession DEF SessionMatchesProgram
<1> QED
  BY <1>1, StepType, PTL DEF Spec

-----------------------------------------------------------------------------
(* The samples.                                                              *)

\* What Next is, for the steps that follow.
LEMMA Steps ==
  ASSUME [Next]_vars
  PROVE  \/ StartServer \/ StopServer \/ \E k \in Keys : Die(k)
         \/ \E p, what : Begin(what, p) /\ what \in {"clock_before", "memory"}
         \/ ReadClock
         \/ \E m \in Members, clock \in Instruments, drawn \in BOOLEAN : SetUpReady(m, clock, drawn)
         \/ \E m \in Members : SetUpFailed(m) \/ SetUpRaises(m)
         \/ Barrier
         \/ \E m \in Members : CallTimed(m) \/ CallFailed(m) \/ CallLost(m)
         \/ NextPass \/ DropTest \/ DropAsk \/ DropsDone
         \/ \E m \in Members : MeasureMemory(m)
         \/ MemoryDone \/ UNCHANGED vars
<1>1. ASSUME NEW w, BeginMeasure(w) \/ BeginMemory(w) \/ BeginNullGate(w)
      PROVE  \E p, what : Begin(what, p) /\ what \in {"clock_before", "memory"}
  BY <1>1 DEF BeginMeasure, BeginMemory, BeginNullGate
<1> QED
  BY <1>1 DEF Next, Setup

LEMMA StepSamples ==
  ASSUME SessionMatchesProgram, TypeOK', [Next]_vars PROVE SamplesMatchPass'
<1> TypeOK /\ SamplesMatchPass
  BY DEF SessionMatchesProgram
<1> USE DEF workers, members, Complete, Ending, Returned
<1>1. CASE \/ StartServer \/ StopServer \/ \E k \in Keys : Die(k)
           \/ \E m \in Members : MeasureMemory(m)
           \/ MemoryDone \/ UNCHANGED vars
  BY <1>1 DEF StartServer, StopServer, Die, MeasureMemory, MemoryDone, End, vars, SamplesMatchPass, Sampled, Live, Members
<1>2. ASSUME NEW p, NEW what \in {"clock_before", "memory"}, Begin(what, p) PROVE SamplesMatchPass'
  BY <1>2 DEF Begin, SamplesMatchPass
<1>3. CASE ReadClock \/ DropTest \/ DropAsk \/ DropsDone
  <2>1. samples' = samples /\ Live' = Live /\ plan' = plan
    BY <1>3 DEF ReadClock, DropTest, DropAsk, DropsDone, Live, Members
  <2>2. CASE ReadClock
    BY <2>1, <2>2, ZenonT(30) DEF ReadClock, End, SamplesMatchPass, Sampled
  <2>3. CASE DropTest
    BY <2>1, <2>3 DEF DropTest, SamplesMatchPass, Sampled
  <2>4. CASE DropAsk
    BY <2>1, <2>4 DEF DropAsk, End, SamplesMatchPass, Sampled
  <2>5. CASE DropsDone
    BY <2>1, <2>5 DEF DropsDone, End, SamplesMatchPass, Sampled
  <2> QED
    BY <1>3, <2>2, <2>3, <2>4, <2>5
<1>4. ASSUME NEW m \in Members, NEW clock \in Instruments, NEW drawn \in BOOLEAN, SetUpReady(m, clock, drawn)
      PROVE  SamplesMatchPass'
  BY <1>4 DEF SetUpReady, SamplesMatchPass
<1>5. ASSUME NEW m \in Members, SetUpFailed(m) \/ SetUpRaises(m) PROVE SamplesMatchPass'
  BY <1>5 DEF SetUpFailed, SetUpRaises, Raise, SamplesMatchPass
<1>6. CASE Barrier
  <2>1. CASE pc' = "call"
    <3>1. Live' = Live /\ todo' = Live /\ pass' = 1
      BY <1>6, <2>1 DEF Barrier, Raise, Live, Members
    <3>2. \A p \in Warmup + 1 .. 1 : ~(p < 1)
      BY PassesNat
    <3> QED
      BY <1>6, <2>1, <3>1, <3>2 DEF Barrier, Raise, SamplesMatchPass
  <2>2. CASE pc' # "call"
    BY <1>6, <2>2 DEF Barrier, Raise, SamplesMatchPass
  <2> QED
    BY <2>1, <2>2
<1>7. ASSUME NEW m \in Members, CallTimed(m) PROVE SamplesMatchPass'
  <2>1. /\ pc = "call" /\ pc' = "call" /\ pass' = pass /\ raised' = raised /\ todo' = todo \ {m}
        /\ Live' = Live /\ samples \subseteq samples' /\ m \in todo /\ outcome' = outcome
    BY <1>7 DEF CallTimed, Live, Members, InTurn
  <2>2. pass > Warmup => \E s \in samples' : s.member = m /\ s.pass = pass
    <3>1. ASSUME pass > Warmup PROVE [member |-> m, pass |-> pass, present |-> {n \in Members : Present(n)}] \in samples'
      BY <1>7, <3>1, PassesNat DEF CallTimed, TypeOK
    <3> QED
      BY <3>1
  <2>3. \A n, p : Sampled(n, p) => Sampled(n, p)'
    BY <2>1 DEF Sampled
  <2>4. ASSUME NEW n \in Live, NEW p \in Warmup + 1 .. pass, p < pass \/ n \notin todo \ {m} PROVE Sampled(n, p)'
    <3>1. CASE p < pass \/ n \notin todo
      BY <2>1, <2>3, <2>4, <3>1 DEF SamplesMatchPass
    <3>2. CASE n = m /\ p = pass
      BY <2>2, <3>2, PassesNat DEF TypeOK, Sampled
    <3> QED
      BY <2>4, <3>1, <3>2, PassesNat DEF TypeOK
  <2> QED
    BY <2>1, <2>4 DEF SamplesMatchPass
<1>8. ASSUME NEW m \in Members, CallFailed(m) PROVE SamplesMatchPass'
  <2>1. Live' = Live \ {m}
    BY <1>8 DEF CallFailed, Live, Members, TypeOK
  <2>2. \A n, p : Sampled(n, p)' <=> Sampled(n, p)
    BY <1>8 DEF CallFailed, Sampled
  <2> QED
    BY <1>8, <2>1, <2>2 DEF CallFailed, SamplesMatchPass
<1>9. ASSUME NEW m \in Members, CallLost(m) PROVE SamplesMatchPass'
  BY <1>9 DEF CallLost, Raise, SamplesMatchPass
<1>10. CASE NextPass
  <2>1. Live' = Live /\ todo = {} /\ pc = "call" /\ raised' = raised /\ outcome' = outcome
    BY <1>10 DEF NextPass, Live, Members
  <2>2. \A n, p : Sampled(n, p)' <=> Sampled(n, p)
    BY <1>10 DEF NextPass, Sampled
  <2>3. \A n \in Live, p \in Warmup + 1 .. pass : Sampled(n, p)
    BY <2>1 DEF SamplesMatchPass
  <2>4. CASE pass < Passes
    <3>1. pc' = "call" /\ pass' = pass + 1 /\ todo' = Live
      BY <1>10, <2>4 DEF NextPass
    <3>2. \A p \in Warmup + 1 .. pass + 1 : p < pass + 1 => p \in Warmup + 1 .. pass
      BY PassesNat DEF TypeOK
    <3> QED
      BY <2>1, <2>2, <2>3, <3>1, <3>2 DEF SamplesMatchPass
  <2>5. CASE ~(pass < Passes)
    <3>1. pass = Passes
      BY <2>5, PassesNat DEF TypeOK
    <3>2. pc' = "drop"
      BY <1>10, <2>5 DEF NextPass
    <3> QED
      BY <2>1, <2>2, <2>3, <3>1, <3>2 DEF SamplesMatchPass
  <2> QED
    BY <2>4, <2>5
<1> QED
  BY Steps, <1>1, <1>2, <1>3, <1>4, <1>5, <1>6, <1>7, <1>8, <1>9, <1>10

-----------------------------------------------------------------------------
(* Who is present while they are taken.                                      *)

LEMMA DeathOnlyRemoves ==
  ASSUME TypeOK, NEW k \in Keys, Die(k), NEW m \in Members, Present(m)' PROVE Present(m)
<1>1. plan[m] \in Keys
  BY MemberKeyed
<1>2. plan' = plan /\ handle' = handle /\ gen' = gen /\ target' = target
  BY DEF Die, members
<1>3. alive'[plan[m]] => alive[plan[m]]
  BY <1>1 DEF Die, TypeOK
<1>4. live'[plan[m]] \subseteq live[plan[m]]
  BY <1>1 DEF Die, TypeOK
<1> QED
  BY <1>2, <1>3, <1>4 DEF Present, Holds

LEMMA StepPresence ==
  ASSUME SessionMatchesProgram, TypeOK', [Next]_vars PROVE PresenceMatchesPass'
<1> TypeOK /\ SamplesMatchPass /\ PresenceMatchesPass
  BY DEF SessionMatchesProgram
<1> USE DEF workers, members, Complete, Ending, Returned
<1>1. CASE StartServer \/ StopServer \/ (\E m \in Members : MeasureMemory(m)) \/ MemoryDone
  BY <1>1 DEF StartServer, StopServer, MeasureMemory, MemoryDone, End, SamplesMatchPass, PresenceMatchesPass
<1>2. ASSUME NEW p, NEW what \in {"clock_before", "memory"}, Begin(what, p) PROVE PresenceMatchesPass'
  BY <1>2 DEF Begin, PresenceMatchesPass
<1>3. CASE ReadClock \/ DropTest \/ DropAsk \/ DropsDone
  <2>1. samples' = samples /\ Live' = Live
    BY <1>3 DEF ReadClock, DropTest, DropAsk, DropsDone, Live, Members
  <2>2. CASE ReadClock
    BY <2>1, <2>2 DEF ReadClock, End, PresenceMatchesPass
  <2>3. CASE DropTest
    BY <2>1, <2>3 DEF DropTest, PresenceMatchesPass
  <2>4. CASE DropAsk
    BY <2>1, <2>4 DEF DropAsk, End, PresenceMatchesPass
  <2>5. CASE DropsDone
    BY <2>1, <2>5 DEF DropsDone, End, PresenceMatchesPass, SamplesMatchPass
  <2> QED
    BY <1>3, <2>2, <2>3, <2>4, <2>5
<1>4. ASSUME NEW m \in Members, NEW clock \in Instruments, NEW drawn \in BOOLEAN, SetUpReady(m, clock, drawn)
      PROVE  PresenceMatchesPass'
  BY <1>4 DEF SetUpReady, PresenceMatchesPass
<1>5. ASSUME NEW m \in Members, SetUpFailed(m) \/ SetUpRaises(m) PROVE PresenceMatchesPass'
  BY <1>5 DEF SetUpFailed, SetUpRaises, Raise, PresenceMatchesPass
<1>6. CASE Barrier
  BY <1>6 DEF Barrier, Raise, PresenceMatchesPass, SamplesMatchPass
<1>7. ASSUME NEW m \in Members, CallTimed(m) PROVE PresenceMatchesPass'
  <2>1. /\ pc = "call" /\ pc' = "call" /\ pass' = pass /\ todo' = todo \ {m} /\ Live' = Live /\ Present(m)
        /\ Members' = Members
    BY <1>7 DEF CallTimed, Live, Members
  <2>2. \A n : Present(n)' <=> Present(n)
    BY <1>7 DEF CallTimed, Present, Holds
  <2>3. ASSUME NEW s \in samples'
        PROVE  s.pass <= pass /\ \A n \in Live \ s.present : ~Present(n) /\ (s.pass = pass \/ (s.pass = pass - 1 /\ n \in todo \ {m}))
    <3>1. CASE s \in samples
      <4>1. s.pass <= pass /\ \A n \in Live \ s.present : ~Present(n) /\ (s.pass = pass \/ (s.pass = pass - 1 /\ n \in todo))
        BY <2>1, <3>1 DEF PresenceMatchesPass
      <4> QED
        BY <2>1, <4>1
    <3>2. CASE s \notin samples
      <4>1. s = [member |-> m, pass |-> pass, present |-> {n \in Members : Present(n)}]
        BY <1>7, <2>3, <3>2 DEF CallTimed
      <4>2. s.pass = pass /\ s.present = {n \in Members : Present(n)} /\ pass \in Int /\ Live \subseteq Members
        BY <4>1 DEF TypeOK, Live
      <4> QED
        BY <4>2
    <3> QED
      BY <3>1, <3>2
  <2> QED
    BY <2>1, <2>2, <2>3 DEF PresenceMatchesPass
<1>8. ASSUME NEW m \in Members, CallFailed(m) PROVE PresenceMatchesPass'
  <2>1. Live' = Live \ {m} /\ todo' = todo \ {m}
    BY <1>8 DEF CallFailed, Live, Members, TypeOK
  <2>2. \A n : Present(n)' <=> Present(n)
    BY <1>8 DEF CallFailed, Present, Holds
  <2> QED
    BY <1>8, <2>1, <2>2 DEF CallFailed, PresenceMatchesPass
<1>9. ASSUME NEW m \in Members, CallLost(m) PROVE PresenceMatchesPass'
  BY <1>9 DEF CallLost, Raise, PresenceMatchesPass
<1>10. CASE NextPass
  <2>1. Live' = Live /\ todo = {} /\ pc = "call" /\ samples' = samples
    BY <1>10 DEF NextPass, Live, Members
  <2>2. \A n : Present(n)' <=> Present(n)
    BY <1>10 DEF NextPass, Present, Holds
  <2>3. \A s \in samples : s.pass <= pass /\ \A n \in Live \ s.present : ~Present(n) /\ s.pass = pass
    BY <2>1 DEF PresenceMatchesPass
  <2>4. \A s \in samples : s.pass \in Nat
    BY PassesNat DEF TypeOK
  <2>5. CASE pass < Passes
    <3>1. pc' = "call" /\ pass' = pass + 1 /\ todo' = Live
      BY <1>10, <2>5 DEF NextPass
    <3> QED
      BY <2>1, <2>2, <2>3, <2>4, <3>1, PassesNat DEF PresenceMatchesPass, TypeOK
  <2>6. CASE ~(pass < Passes)
    <3>1. pass = Passes /\ pc' = "drop"
      BY <1>10, <2>6, PassesNat DEF NextPass, TypeOK
    <3>2. \A s \in samples : s.pass < Passes => Live \subseteq s.present
      BY <2>3, <2>4, <3>1, PassesNat
    <3> QED
      BY <2>1, <3>1, <3>2 DEF PresenceMatchesPass
  <2> QED
    BY <2>5, <2>6
<1>11. ASSUME NEW k \in Keys, Die(k) PROVE PresenceMatchesPass'
  <2>1. /\ pc' = pc /\ pass' = pass /\ todo' = todo /\ samples' = samples /\ outcome' = outcome /\ raised' = raised
        /\ Live' = Live
    BY <1>11 DEF Die, Live, Members
  <2>2. \A n \in Live : Present(n)' => Present(n)
    BY <1>11, DeathOnlyRemoves DEF Live
  <2> QED
    BY <2>1, <2>2 DEF PresenceMatchesPass
<1>12. CASE UNCHANGED vars
  BY <1>12 DEF vars, PresenceMatchesPass, Live, Members, Present, Holds
<1> QED
  BY Steps, <1>1, <1>2, <1>3, <1>4, <1>5, <1>6, <1>7, <1>8, <1>9, <1>10, <1>11, <1>12

-----------------------------------------------------------------------------
(* The callables in the workers.                                             *)

LEMMA ReachedWorkers ==
  ASSUME TypeOK, CallablesMatchSession, NEW k \in Keys, Reach(k)
  PROVE  \A j \in Keys : /\ alive'[j] => gen'[j] > 0
                         /\ ~alive'[j] => j # k /\ live[j] = {}
                         /\ live[j] # {} => gen'[j] = gen[j]
<1>1. gen[k] \in Nat
  BY DEF TypeOK
<1> QED
  BY <1>1, Reached DEF CallablesMatchSession

LEMMA StepCallables ==
  ASSUME SessionMatchesProgram, TypeOK', [Next]_vars PROVE CallablesMatchSession'
<1> TypeOK /\ SamplesMatchPass /\ CallablesMatchSession
  BY DEF SessionMatchesProgram
<1> USE DEF workers, members, Ending
<1>1. CASE StartServer \/ StopServer
  BY <1>1 DEF StartServer, StopServer, CloseAll, CallablesMatchSession, SamplesMatchPass
<1>2. ASSUME NEW k \in Keys, Die(k) PROVE CallablesMatchSession'
  <2>1. /\ pc' = pc /\ outcome' = outcome /\ raised' = raised /\ gen' = gen /\ plan' = plan /\ handle' = handle
        /\ target' = target /\ todo' = todo /\ Members' = Members
    BY <1>2 DEF Die, Members
  <2>2. \A j \in Keys : live'[j] \subseteq live[j] /\ (alive'[j] => alive[j]) /\ (~alive'[j] => live'[j] = {})
    BY <1>2 DEF Die, TypeOK, CallablesMatchSession
  <2> QED
    BY <2>1, <2>2 DEF CallablesMatchSession
<1>3. ASSUME NEW p, NEW what \in {"clock_before", "memory"}, Begin(what, p) PROVE CallablesMatchSession'
  BY <1>3 DEF Begin, CallablesMatchSession
<1>4. CASE ReadClock
  <2>1. Reach(<<Reader, "">>) /\ live' = live /\ \A j \in Keys : live[j] = {}
    BY <1>4 DEF ReadClock, CallablesMatchSession
  <2>2. \A j \in Keys : (alive'[j] => gen'[j] > 0) /\ live'[j] = {}
    BY <2>1, ReachedWorkers, ReaderKeyed
  <2> QED
    BY <2>2 DEF CallablesMatchSession
<1>5. ASSUME NEW m \in Members, NEW clock \in Instruments, NEW drawn \in BOOLEAN, SetUpReady(m, clock, drawn)
      PROVE  CallablesMatchSession'
  <2>1. /\ pc = "setup" /\ pc' = "setup" /\ plan' = plan /\ Members' = Members /\ target' = target /\ Reach(plan[m])
        /\ plan[m] \in Keys
    BY <1>5, MemberKeyed DEF SetUpReady, Members
  <2>2. \A j \in Keys : live'[j] = IF j = plan[m] THEN live[j] \union {<<target, m>>} ELSE live[j]
    BY <1>5 DEF SetUpReady, TypeOK
  <2>3. \A n \in Members : handle'[n] = IF n = m THEN gen'[plan[m]] ELSE handle[n]
    BY <1>5 DEF SetUpReady, TypeOK
  <2>4. \A j \in Keys : (alive'[j] => gen'[j] > 0) /\ (~alive'[j] => live'[j] = {})
    BY <2>1, <2>2, ReachedWorkers
  <2>5. ASSUME NEW j \in Keys, NEW c \in live'[j]
        PROVE  \E n \in Members : c = <<target, n>> /\ plan[n] = j /\ handle'[n] = gen'[j]
    <3>1. CASE c \in live[j]
      <4>1. PICK n \in Members : c = <<target, n>> /\ plan[n] = j /\ handle[n] = gen[j]
        BY <2>1, <3>1 DEF CallablesMatchSession
      <4>2. gen'[j] = gen[j]
        BY <2>1, <3>1, ReachedWorkers
      <4> QED
        BY <2>3, <4>1, <4>2
    <3>2. CASE c \notin live[j]
      BY <2>2, <2>3, <2>5, <3>2
    <3> QED
      BY <3>1, <3>2
  <2> QED
    BY <2>1, <2>4, <2>5 DEF CallablesMatchSession
<1>6. ASSUME NEW m \in Members, SetUpFailed(m) PROVE CallablesMatchSession'
  <2>1. /\ pc = "setup" /\ pc' = "setup" /\ plan' = plan /\ Members' = Members /\ target' = target /\ Reach(plan[m])
        /\ plan[m] \in Keys /\ live' = live /\ handle' = handle
    BY <1>6, MemberKeyed DEF SetUpFailed, Members
  <2>2. \A j \in Keys : (alive'[j] => gen'[j] > 0) /\ (~alive'[j] => live'[j] = {}) /\ (live'[j] # {} => gen'[j] = gen[j])
    BY <2>1, ReachedWorkers
  <2> QED
    BY <2>1, <2>2 DEF CallablesMatchSession
<1>7. ASSUME NEW m \in Members, SetUpRaises(m) PROVE CallablesMatchSession'
  <2>1. pc' = "drop" /\ raised' /\ Reach(plan[m]) /\ plan[m] \in Keys
    BY <1>7, MemberKeyed DEF SetUpRaises, Raise
  <2>2. \A j \in Keys : j # plan[m] => live'[j] = live[j]
    BY <1>7 DEF SetUpRaises, TypeOK
  <2>3. \A j \in Keys : (alive'[j] => gen'[j] > 0) /\ (~alive'[j] => live'[j] = {})
    BY <2>1, <2>2, ReachedWorkers
  <2> QED
    BY <2>1, <2>3 DEF CallablesMatchSession
<1>8. CASE Barrier
  BY <1>8 DEF Barrier, Raise, CallablesMatchSession, Members
<1>9. ASSUME NEW m \in Members, CallTimed(m) \/ CallFailed(m) \/ CallLost(m) PROVE CallablesMatchSession'
  BY <1>9 DEF CallTimed, CallFailed, CallLost, Raise, CallablesMatchSession, Members
<1>10. CASE NextPass
  <2>1. /\ pc = "call" /\ plan' = plan /\ Members' = Members /\ target' = target /\ handle' = handle
        /\ gen' = gen /\ alive' = alive /\ live' = live
        /\ (pc' = "call" \/ (pc' = "drop" /\ todo' = SetUp))
    BY <1>10 DEF NextPass, Members
  <2>2. ASSUME NEW j \in Keys, NEW c \in live[j]
        PROVE  \E n \in Members : c = <<target, n>> /\ plan[n] = j /\ handle[n] = gen[j] /\ n \in SetUp
    <3>1. PICK n \in Members : c = <<target, n>> /\ plan[n] = j /\ handle[n] = gen[j]
      BY <2>1, <2>2 DEF CallablesMatchSession
    <3>2. gen[j] > 0 /\ gen[j] \in Nat
      BY <2>2 DEF CallablesMatchSession, TypeOK
    <3> QED
      BY <3>1, <3>2 DEF SetUp
  <2> QED
    BY <2>1, <2>2 DEF CallablesMatchSession
<1>11. CASE DropTest
  <2>1. /\ pc = "drop" /\ plan' = plan /\ Members' = Members /\ target' = target /\ handle' = handle
        /\ gen' = gen /\ alive' = alive /\ live' = live /\ raised' = raised
        /\ pc' \in {"drop", "dropping"}
        /\ (todo' = todo \/ (todo' = todo \ {Min(todo)} /\ ~Holds(Min(todo))))
    BY <1>11 DEF DropTest, Members
  <2>2. ASSUME ~raised, NEW j \in Keys, NEW c \in live[j]
        PROVE  \E n \in Members : c = <<target, n>> /\ plan[n] = j /\ handle[n] = gen[j] /\ n \in todo'
    <3>1. PICK n \in Members : c = <<target, n>> /\ plan[n] = j /\ handle[n] = gen[j] /\ n \in todo
      BY <2>1, <2>2 DEF CallablesMatchSession
    <3>2. Holds(n)
      BY <2>2, <3>1 DEF CallablesMatchSession, Holds
    <3> QED
      BY <2>1, <3>1, <3>2
  <2> QED
    BY <2>1, <2>2 DEF CallablesMatchSession
<1>12. CASE DropAsk
  <2> DEFINE m == Min(todo)
  <2>1. /\ pc = "dropping" /\ plan' = plan /\ Members' = Members /\ target' = target /\ handle' = handle
        /\ gen' = gen /\ alive' = alive /\ raised' = raised
        /\ live' = IF Holds(m) THEN [live EXCEPT ![plan[m]] = @ \ {<<target, m>>}] ELSE live
        /\ \/ Holds(m) /\ pc' = "drop" /\ todo' = todo \ {m}
           \/ pc' = "idle" /\ outcome' = "failed"
    BY <1>12 DEF DropAsk, End, Members
  <2> HIDE DEF m
  <2>2. \A j \in Keys : live'[j] \subseteq live[j]
    BY <2>1 DEF TypeOK
  <2>3. \A j \in Keys : (alive'[j] => gen'[j] > 0) /\ (~alive'[j] => live'[j] = {})
    BY <2>1, <2>2 DEF CallablesMatchSession
  <2>4. ASSUME ~raised, pc' = "drop", NEW j \in Keys, NEW c \in live'[j]
        PROVE  \E n \in Members : c = <<target, n>> /\ plan[n] = j /\ handle[n] = gen[j] /\ n \in todo'
    <3>1. PICK n \in Members : c = <<target, n>> /\ plan[n] = j /\ handle[n] = gen[j] /\ n \in todo
      BY <2>1, <2>2, <2>4 DEF CallablesMatchSession
    <3>2. n # m
      BY <2>1, <2>4, <3>1 DEF TypeOK
    <3> QED
      BY <2>1, <2>4, <3>1, <3>2
  <2> QED
    BY <2>1, <2>3, <2>4 DEF CallablesMatchSession
<1>13. CASE DropsDone
  <2>1. CASE raised
    BY <1>13, <2>1 DEF DropsDone, End, CallablesMatchSession
  <2>2. CASE ~raised
    <3>1. \A j \in Keys : live[j] = {}
      BY <1>13, <2>2 DEF DropsDone, CallablesMatchSession
    <3> QED
      BY <1>13, <2>2, <3>1 DEF DropsDone, CallablesMatchSession
  <2> QED
    BY <2>1, <2>2
<1>14. ASSUME NEW m \in Members, MeasureMemory(m) PROVE CallablesMatchSession'
  <2>1. Reach(plan[m]) /\ plan[m] \in Keys /\ live' = live /\ pc' \in {"memory", "idle"} /\ \A j \in Keys : live[j] = {}
    BY <1>14, MemberKeyed DEF MeasureMemory, End, CallablesMatchSession
  <2>2. \A j \in Keys : (alive'[j] => gen'[j] > 0) /\ live'[j] = {}
    BY <2>1, ReachedWorkers
  <2> QED
    BY <2>2 DEF CallablesMatchSession
<1>15. CASE MemoryDone \/ UNCHANGED vars
  BY <1>15 DEF MemoryDone, End, vars, CallablesMatchSession, Members
<1> QED
  BY Steps, <1>1, <1>2, <1>3, <1>4, <1>5, <1>6, <1>7, <1>8, <1>9, <1>10, <1>11, <1>12, <1>13, <1>14, <1>15

-----------------------------------------------------------------------------
(* The theorems.                                                             *)

\* The samples, who was present and the callables in the workers agree with the
\* point the session has reached, for any entries, passes and worker deaths.
THEOREM SessionCorrect == Spec => []SessionMatchesProgram
<1>1. SessionMatchesProgram /\ [Next]_vars => SessionMatchesProgram'
  BY StepType, StepSamples, StepPresence, StepCallables DEF SessionMatchesProgram
<1> QED
  BY <1>1, InitSession, PTL DEF Spec

\* Whichever entries fail in setup or in a call, and whichever workers die: a
\* session that returns has a sample of every member it calls ok in every rep of
\* every round, so null_gate and the paired verdict find what they look up.
THEOREM EveryRepIsPaired == Spec => []EveryRepHasItsPair
<1>1. SessionMatchesProgram => EveryRepHasItsPair
  BY DEF SessionMatchesProgram, SamplesMatchPass, EveryRepHasItsPair, Complete, Sampled
<1> QED
  BY <1>1, SessionCorrect, PTL

\* Whichever workers die between two steps: no session returns in which a member
\* called ok was missing while a sample before the last rep was taken.
THEOREM TheBarrierHolds == Spec => []OkMembersAreAlwaysPresent
<1>1. SessionMatchesProgram => OkMembersAreAlwaysPresent
  BY DEF SessionMatchesProgram, PresenceMatchesPass, OkMembersAreAlwaysPresent, Complete
<1> QED
  BY <1>1, SessionCorrect, PTL

\* However the sessions before ended, no callable of theirs is set up anywhere
\* when a later session or memory pass of the build runs.
THEOREM NothingIsLeftOnTheDevice == Spec => []NothingLeftOnTheDevice
<1>1. SessionMatchesProgram => NothingLeftOnTheDevice
  BY DEF SessionMatchesProgram, CallablesMatchSession, NothingLeftOnTheDevice
<1> QED
  BY <1>1, SessionCorrect, PTL
=============================================================================
