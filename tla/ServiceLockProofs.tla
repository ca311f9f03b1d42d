------------------------- MODULE ServiceLockProofs -------------------------
(***************************************************************************)
(* What app.lock guarantees, for any number of processes, crashes and      *)
(* operators, with reused pids or without: it names the process at work,   *)
(* and a race for it or an ignored conflict spoils this for the processes  *)
(* that were there, not for the ones that start after them.                *)
(***************************************************************************)
EXTENDS ServiceLock, TLAPS

(* What LockInv says beside the types. *)
Guarded == HolderNamed /\ WriterAlone /\ ConflictCurrent /\ Apart

(* The initial state has the types. *)
LEMMA InitType == Init => TypeOK
  BY LockAssumption DEF Init, TypeOK, Stages, AllRoles, Verdicts

(* A spent fault leaves a natural number of them. *)
LEMMA SpendType ==
  ASSUME NEW kind \in FaultKinds, left \in [FaultKinds -> Nat], Spend(kind)
  PROVE  left' \in [FaultKinds -> Nat]
  BY DEF Spend

(* Classify says one of the four verdicts, and "clear" of no lock only. *)
LEMMA ClassifyRange ==
  ASSUME NEW h \in Pids \cup {Nobody}, NEW v \in Classify(h)
  PROVE  /\ v \in Verdicts
         /\ v = "clear" <=> h = Nobody
         /\ v \in {"stale", "live_unknown"} => h \in Pids /\ ~Live(h)
<1>1. CASE h = Nobody
  BY <1>1 DEF Classify, Verdicts
<1>2. CASE h # Nobody /\ Live(h)
  BY <1>2 DEF Classify, Verdicts
<1>3. CASE h # Nobody /\ ~Live(h)
  <2>1. v \in {"stale", "live_unknown", "live_same_app"}
    BY <1>3 DEF Classify
  <2> QED BY <1>3, <2>1 DEF Verdicts
<1> QED BY <1>1, <1>2, <1>3

(* Every step keeps the types. *)
LEMMA StepType == TypeOK /\ [Next]_vars => TypeOK'
<1> SUFFICES ASSUME TypeOK, [Next]_vars PROVE TypeOK'
  OBVIOUS
<1>0. /\ "crash" \in FaultKinds /\ "stop" \in FaultKinds
      /\ \A s \in {"off", "starting", "conflict", "writing", "serving",
                   "draining", "setup"} : s \in Stages
  BY DEF FaultKinds, Stages
<1>1. ASSUME NEW p \in Pids, Launch(p) PROVE TypeOK'
  <2>1. PICK r \in Roles : role' = [role EXCEPT ![p] = r]
    BY <1>1 DEF Launch
  <2>2. r \in AllRoles
    BY LockAssumption
  <2> QED BY <1>0, <1>1, <2>1, <2>2 DEF Launch, TypeOK, Become
<1>2. ASSUME NEW p \in Pids, Inspect(p) PROVE TypeOK'
  <2>1. PICK v \in Classify(lock) :
            /\ verdict' = [verdict EXCEPT ![p] = v]
            /\ Become(p, IF v = "clear" THEN "writing" ELSE "conflict")
    BY <1>2 DEF Inspect
  <2>2. v \in Verdicts
    BY ClassifyRange DEF TypeOK
  <2> QED BY <1>0, <1>2, <2>1, <2>2 DEF Inspect, TypeOK, Become
<1>3. ASSUME NEW p \in Pids, Exit(p) PROVE TypeOK'
  BY <1>0, <1>3 DEF Exit, ExitsKeeping, TypeOK, Become
<1>4. ASSUME NEW p \in Pids, Heal(p) PROVE TypeOK'
  BY <1>0, <1>4 DEF Heal, TypeOK, Become
<1>5. ASSUME NEW p \in Pids, Ignore(p) PROVE TypeOK'
  BY <1>0, <1>5 DEF Ignore, TypeOK, Become
<1>6. ASSUME NEW p \in Pids, Kill(p) PROVE TypeOK'
  <2>1. stage' \in [Pids -> Stages]
    BY <1>0, <1>6 DEF Kill, TypeOK, Become
  <2> QED BY <1>6, <2>1 DEF Kill, TypeOK
<1>7. ASSUME NEW p \in Pids, Write(p) PROVE TypeOK'
  <2>1. entangled' \subseteq Pids
    BY <1>7 DEF Write, TypeOK
  <2>2. stage' \in [Pids -> Stages] /\ lock' \in Pids \cup {Nobody}
    BY <1>0, <1>7 DEF Write, TypeOK, Become
  <2> QED BY <1>7, <2>1, <2>2 DEF Write, TypeOK
<1>8. ASSUME NEW p \in Pids, FinishSetup(p) \/ FinishStop(p) PROVE TypeOK'
  BY <1>0, <1>8 DEF FinishSetup, FinishStop, TypeOK, Become
<1>9. ASSUME NEW p \in Pids, BeginStop(p) PROVE TypeOK'
  <2>1. left' \in [FaultKinds -> Nat]
    BY <1>0, <1>9, SpendType DEF BeginStop, TypeOK
  <2> QED BY <1>0, <1>9, <2>1 DEF BeginStop, TypeOK, Become
<1>10. ASSUME NEW p \in Pids, Crash(p) PROVE TypeOK'
  <2>1. left' \in [FaultKinds -> Nat]
    BY <1>0, <1>10, SpendType DEF Crash, TypeOK
  <2> QED BY <1>0, <1>10, <2>1 DEF Crash, TypeOK, Become
<1>11. CASE UNCHANGED vars
  BY <1>11 DEF vars, TypeOK
<1> QED
  BY <1>1, <1>2, <1>3, <1>4, <1>5, <1>6, <1>7, <1>8, <1>9, <1>10, <1>11
  DEF Next, Resolve, Ends

(* Every state reached from Init has the types: the lock is a pid or       *)
(* absent, and every process is at a known stage.                          *)
THEOREM TypeCorrect == Spec => []TypeOK
<1>1. Init => TypeOK
  BY InitType
<1>2. TypeOK /\ [Next]_vars => TypeOK'
  BY StepType
<1> QED BY <1>1, <1>2, PTL DEF Spec

-----------------------------------------------------------------------------
(* Of two processes at work, both are entangled.                           *)
LEMMA TogetherEntangled ==
  ASSUME Guarded, NEW p \in Pids, NEW q \in Pids, AtWork(p), AtWork(q), p # q
  PROVE  {p, q} \subseteq entangled
<1>1. ASSUME NEW r \in Orderly, NEW o \in entangled, AtWork(r), AtWork(o) PROVE FALSE
  BY <1>1 DEF Guarded, Apart, AtIt, AtWork
<1>2. ~(p \in Orderly /\ q \in Orderly)
  BY DEF Guarded, HolderNamed
<1> QED BY <1>1, <1>2 DEF Orderly

(* Launching a process touches no lock and no process at work. *)
LEMMA LaunchGuarded ==
  ASSUME TypeOK, Guarded, NEW p \in Pids, Launch(p)
  PROVE  Guarded'
<1>1. stage' = [stage EXCEPT ![p] = "starting"] /\ UNCHANGED <<lock, seen, verdict, entangled>>
  BY DEF Launch, Become
<1>2. HolderNamed' /\ WriterAlone'
  BY <1>1 DEF TypeOK, Guarded, HolderNamed, WriterAlone, AtWork, Orderly
<1>3. \A q \in Pids \ {p} : Stale(q)' <=> Stale(q)
  BY <1>1 DEF Launch, Stale, TypeOK
<1>4. \A h \in Pids : AtWork(h)' => AtWork(h)
  BY <1>1 DEF AtWork, TypeOK
<1>5. ConflictCurrent'
  <2> SUFFICES ASSUME NEW q \in Orderly, stage'[q] = "conflict"
               PROVE  /\ lock' \in {seen'[q], Nobody}
                      /\ seen'[q] \in Pids
                      /\ Stale(q)' => ~(stage'[seen'[q]] \in {"serving", "setup"})
    BY <1>1 DEF ConflictCurrent, AtWork, Orderly
  <2>1. q \in Pids /\ q # p /\ stage[q] = "conflict"
    BY <1>1 DEF TypeOK, Orderly
  <2> QED BY <1>1, <1>3, <1>4, <2>1 DEF Guarded, ConflictCurrent, AtWork
<1>6. Apart'
  BY <1>1 DEF TypeOK, Guarded, Apart, AtWork, AtIt, Contending, Orderly
<1> QED BY <1>2, <1>5, <1>6 DEF Guarded

(* What an inspection finds is what the lock says: a holder found dead is  *)
(* not at work, and only a lock that does not exist is clear.              *)
LEMMA InspectGuarded ==
  ASSUME TypeOK, Guarded, NEW p \in Pids, Inspect(p)
  PROVE  Guarded'
<1>1. PICK v \in Classify(lock) :
          /\ verdict' = [verdict EXCEPT ![p] = v]
          /\ stage' = [stage EXCEPT ![p] = IF v = "clear" THEN "writing" ELSE "conflict"]
  BY DEF Inspect, Become
<1>2. seen' = [seen EXCEPT ![p] = lock] /\ UNCHANGED <<lock, role>>
  BY DEF Inspect
<1>3. /\ v = "clear" <=> lock = Nobody
      /\ v \in {"stale", "live_unknown"} => lock \in Pids /\ ~Live(lock)
  BY ClassifyRange DEF TypeOK
<1>4. entangled' = entangled \ {p} /\ \A q \in Pids \ {p} : q \in Orderly' <=> q \in Orderly
  BY DEF Inspect, Orderly
<1>5. HolderNamed' /\ WriterAlone'
  <2>1. \A q \in Pids : AtWork(q)' => q # p /\ AtWork(q)
    BY <1>1 DEF TypeOK, AtWork
  <2>2. HolderNamed'
    BY <1>2, <1>4, <2>1 DEF Guarded, HolderNamed, Orderly
  <2>3. \A q \in Pids \ {p} : stage'[q] = stage[q]
    BY <1>1 DEF TypeOK
  <2>4. stage'[p] = "writing" => lock' = Nobody
    BY <1>1, <1>2, <1>3 DEF TypeOK
  <2>5. WriterAlone'
    BY <1>2, <1>4, <2>3, <2>4 DEF Guarded, WriterAlone, Orderly
  <2> QED BY <2>2, <2>5
<1>6. \A h \in Pids : AtWork(h)' => AtWork(h)
  BY <1>1 DEF AtWork, TypeOK
<1>7. ConflictCurrent'
  <2> SUFFICES ASSUME NEW q \in Orderly', stage'[q] = "conflict"
               PROVE  /\ lock' \in {seen'[q], Nobody}
                      /\ seen'[q] \in Pids
                      /\ Stale(q)' => ~(stage'[seen'[q]] \in {"serving", "setup"})
    BY DEF ConflictCurrent, AtWork
  <2>1. CASE q = p
    <3>1. v # "clear" /\ seen'[q] = lock /\ lock \in Pids
      BY <1>1, <1>2, <1>3, <2>1 DEF TypeOK
    <3>2. Stale(q)' => v \in {"stale", "live_unknown"}
      BY <1>1, <2>1 DEF Stale, TypeOK
    <3>3. Stale(q)' => ~(stage[lock] \in {"serving", "setup"})
      BY <1>3, <3>2 DEF Live
    <3> QED BY <1>2, <1>6, <3>1, <3>3 DEF AtWork
  <2>2. CASE q # p
    <3>1. /\ q \in Orderly /\ stage[q] = "conflict" /\ seen'[q] = seen[q]
          /\ Stale(q)' <=> Stale(q)
      BY <1>1, <1>2, <1>4, <2>2 DEF Stale, TypeOK, Orderly
    <3> QED BY <1>2, <1>6, <3>1 DEF Guarded, ConflictCurrent, AtWork
  <2> QED BY <2>1, <2>2
<1>8. Apart'
  <2>1. \A q \in Pids \ {p} : stage'[q] = stage[q]
    BY <1>1 DEF TypeOK
  <2>2. ~AtWork(p)'
    BY <1>1 DEF TypeOK, AtWork
  <2> QED BY <1>4, <2>1, <2>2 DEF TypeOK, Guarded, Apart, AtWork, AtIt, Contending, Orderly
<1> QED BY <1>5, <1>7, <1>8 DEF Guarded

(* A step that only ends processes, or lets one of them go on to write,    *)
(* keeps Guarded when the lock it leaves still names who is at work.       *)
LEMMA EndsGuarded ==
  ASSUME TypeOK, Guarded, UNCHANGED <<role, seen, verdict, entangled>>,
         lock' = lock \/ lock' = Nobody,
         \A q \in Orderly : stage'[q] = "writing" /\ stage[q] # "writing" => lock' = Nobody,
         \A q \in Pids : stage'[q] = "conflict" => stage[q] = "conflict",
         \A q \in Pids : stage[q] = "writing" => stage'[q] \in {"writing", "off"},
         \A q \in Pids : AtIt(q)' => AtIt(q),
         \A q \in Pids : AtWork(q)' => AtWork(q) /\ (q \in Orderly => lock' = lock)
  PROVE  Guarded'
<1>0. Orderly' = Orderly /\ Orderly \subseteq Pids
  BY DEF Orderly
<1>1. HolderNamed'
  BY <1>0 DEF Guarded, HolderNamed
<1>2. WriterAlone'
  BY <1>0 DEF Guarded, WriterAlone
<1>3. ConflictCurrent'
  BY <1>0 DEF Guarded, ConflictCurrent, Stale, AtWork
<1>4. Apart'
  <2> SUFFICES ASSUME NEW p \in Orderly, NEW q \in entangled, AtWork(p)', AtIt(q)'
               PROVE  stage'[q] = "writing"
    BY <1>0 DEF Apart
  <2>1. stage[q] = "writing"
    BY <1>0 DEF TypeOK, Guarded, Apart
  <2>2. stage'[q] # "off"
    BY DEF AtIt, AtWork, Contending
  <2> QED BY <2>1, <2>2 DEF TypeOK
<1> QED BY <1>1, <1>2, <1>3, <1>4 DEF Guarded

(* Resolving a conflict takes the lock from no orderly process at work: a  *)
(* dead holder is not, and a killed one is not any more.                   *)
LEMMA ResolveGuarded ==
  ASSUME TypeOK, Guarded, NEW p \in Pids, Exit(p) \/ Heal(p) \/ Kill(p)
  PROVE  Guarded'
<1>0. stage[p] = "conflict"
  BY DEF Exit, Heal, Kill
<1>1. ASSUME NEW q \in Orderly, AtWork(q)
      PROVE  q = seen[p] /\ q # p /\ ~Stale(p)
  <2>1. p \in Orderly
    BY <1>0, <1>1 DEF Guarded, Apart, AtIt, Contending, Orderly
  <2>2. lock = q /\ lock \in {seen[p], Nobody} /\ (Stale(p) => ~AtWork(seen[p]))
    BY <1>0, <1>1, <2>1 DEF Guarded, ConflictCurrent, HolderNamed
  <2>3. q = seen[p]
    BY <2>2, LockAssumption DEF Orderly
  <2> QED BY <1>0, <1>1, <2>2, <2>3 DEF AtWork
<1>3. CASE Exit(p)
  <2>1. stage' = [stage EXCEPT ![p] = "off"] /\ UNCHANGED <<lock, role, seen, verdict, entangled>>
    BY <1>3 DEF Exit, ExitsKeeping, Become
  <2> QED BY <2>1, EndsGuarded DEF TypeOK, AtWork, AtIt, Contending
<1>4. CASE Heal(p)
  <2>1. /\ stage' = [stage EXCEPT ![p] = "writing"] /\ lock' = Nobody
        /\ UNCHANGED <<role, seen, verdict, entangled>> /\ Stale(p)
    BY <1>4 DEF Heal, Become
  <2>2. \A q \in Orderly : ~AtWork(q)
    BY <1>1, <2>1
  <2>3. \A q \in Pids : AtWork(q)' => AtWork(q)
    BY <2>1 DEF TypeOK, AtWork
  <2>4. \A q \in Pids : AtIt(q)' => AtIt(q)
    BY <1>0, <2>1 DEF TypeOK, AtIt, AtWork, Contending
  <2>5. \A q \in Pids : /\ stage'[q] = "conflict" => stage[q] = "conflict"
                        /\ stage[q] = "writing" => stage'[q] \in {"writing", "off"}
    BY <2>1 DEF TypeOK
  <2> QED BY <2>1, <2>2, <2>3, <2>4, <2>5, EndsGuarded
<1>5. CASE Kill(p)
  <2>1. UNCHANGED <<role, seen, verdict, entangled>>
    BY <1>5 DEF Kill
  <2>2. CASE stage' = [stage EXCEPT ![seen[p]] = "off", ![p] = "writing"] /\ lock' = Nobody
    <3>1. \A q \in Pids : stage'[q] = IF q = p THEN "writing" ELSE IF q = seen[p] THEN "off" ELSE stage[q]
      BY <2>2 DEF TypeOK
    <3>2. \A q \in Pids : AtWork(q)' => AtWork(q) /\ q # seen[p]
      BY <3>1 DEF AtWork
    <3>3. \A q \in Pids : AtWork(q)' => AtWork(q) /\ (q \in Orderly => lock' = lock)
      BY <1>1, <3>2
    <3>4. \A q \in Pids : AtIt(q)' => AtIt(q)
      BY <1>0, <3>1 DEF AtIt, AtWork, Contending
    <3>5. \A q \in Pids : /\ stage'[q] = "conflict" => stage[q] = "conflict"
                          /\ stage[q] = "writing" => stage'[q] \in {"writing", "off"}
      BY <3>1
    <3> QED BY <2>1, <2>2, <3>3, <3>4, <3>5, EndsGuarded
  <2>3. CASE stage' = [stage EXCEPT ![p] = "off"] /\ lock' = lock
    BY <2>1, <2>3, EndsGuarded DEF TypeOK, AtWork, AtIt, Contending
  <2> QED BY <1>5, <2>2, <2>3 DEF Kill, Become
<1> QED BY <1>3, <1>4, <1>5

(* Who ignores a conflict is entangled, and about to write. *)
LEMMA IgnoreGuarded ==
  ASSUME TypeOK, Guarded, NEW p \in Pids, Ignore(p)
  PROVE  Guarded'
<1>1. /\ stage[p] = "conflict" /\ stage' = [stage EXCEPT ![p] = "writing"]
      /\ entangled' = entangled \cup {p} /\ UNCHANGED <<lock, role, seen, verdict>>
  BY DEF Ignore, Become
<1>2. Orderly' = Orderly \ {p} /\ Orderly \subseteq Pids
  BY <1>1 DEF Orderly
<1>3. \A q \in Pids \ {p} : stage'[q] = stage[q] /\ (Stale(q)' <=> Stale(q))
  BY <1>1 DEF TypeOK, Stale
<1>4. \A h \in Pids : AtWork(h)' => AtWork(h)
  BY <1>1 DEF AtWork, TypeOK
<1>5. HolderNamed' /\ WriterAlone'
  BY <1>1, <1>2, <1>3, <1>4 DEF Guarded, HolderNamed, WriterAlone
<1>6. ConflictCurrent'
  BY <1>1, <1>2, <1>3, <1>4 DEF Guarded, ConflictCurrent, AtWork
<1>7. Apart'
  <2> SUFFICES ASSUME NEW r \in Orderly', NEW q \in entangled', AtWork(r)', AtIt(q)'
               PROVE  stage'[q] = "writing"
    BY DEF Apart
  <2>1. CASE q = p
    BY <1>1, <2>1 DEF TypeOK
  <2>2. CASE q # p
    <3>1. r \in Orderly /\ AtWork(r) /\ q \in entangled /\ q \in Pids /\ stage'[q] = stage[q]
      BY <1>1, <1>2, <1>3, <1>4, <2>2 DEF TypeOK
    <3>2. AtIt(q)
      BY <3>1 DEF AtIt, AtWork, Contending
    <3> QED BY <3>1, <3>2 DEF Guarded, Apart
  <2> QED BY <2>1, <2>2
<1> QED BY <1>5, <1>6, <1>7 DEF Guarded

(* A writer that overlaps nobody becomes the process the lock names; one   *)
(* that does leaves no orderly process behind that the lock could fail.    *)
LEMMA WriteGuarded ==
  ASSUME TypeOK, Guarded, NEW p \in Pids, Write(p)
  PROVE  Guarded'
<1>1. /\ stage[p] = "writing" /\ lock' = p
      /\ stage' = [stage EXCEPT ![p] = IF role[p] = "setup" THEN "setup" ELSE "serving"]
      /\ entangled' = IF Overlaps(p) THEN entangled \cup {q \in Pids : AtIt(q)} ELSE entangled
  BY DEF Write, Become
<1>2. \A q \in Pids \ {p} : stage'[q] = stage[q]
  BY <1>1 DEF TypeOK
<1>3. stage'[p] \in {"setup", "serving"}
  BY <1>1 DEF TypeOK
<1>4. CASE Overlaps(p)
  <2>1. \A q \in Orderly' : q \in Pids /\ ~AtIt(q) /\ q # p
    BY <1>1, <1>4 DEF Orderly, AtIt, Contending
  <2>2. \A q \in Orderly' : stage'[q] \notin {"conflict", "writing", "serving", "setup"}
    BY <1>2, <2>1 DEF AtIt, Contending, AtWork
  <2> QED BY <2>2 DEF Guarded, HolderNamed, WriterAlone, ConflictCurrent, Apart, AtWork
<1>5. CASE ~Overlaps(p)
  <2>1. entangled' = entangled /\ p \in Orderly /\ lock = Nobody
    BY <1>1, <1>5 DEF Overlaps, Orderly, Guarded, WriterAlone
  <2>2. \A q \in Pids \ {p} : ~Contending(q) /\ (AtWork(q) => q \in Orderly)
    BY <1>5 DEF Overlaps, Orderly
  <2>3. \A q \in Pids : ~AtWork(q)
    BY <1>1, <2>1, <2>2, LockAssumption DEF Guarded, HolderNamed, AtWork
  <2>4. \A q \in Pids : stage'[q] \in {"conflict", "writing", "serving", "setup"} => q = p
    BY <1>2, <2>2, <2>3 DEF Contending, AtWork
  <2>5. Orderly' = Orderly /\ Orderly \subseteq Pids
    BY <2>1 DEF Orderly
  <2>6. HolderNamed' /\ WriterAlone' /\ ConflictCurrent'
    BY <1>1, <1>3, <2>4, <2>5 DEF HolderNamed, WriterAlone, ConflictCurrent, AtWork
  <2>7. Apart'
    BY <1>3, <2>1, <2>4, <2>5 DEF Apart, AtIt, AtWork, Contending, TypeOK, Orderly
  <2> QED BY <2>6, <2>7 DEF Guarded
<1> QED BY <1>4, <1>5

(* A process that clears the lock when it ends clears its own, or that of  *)
(* a process it is entangled with.                                         *)
LEMMA EndGuarded ==
  ASSUME TypeOK, Guarded, NEW p \in Pids, Ends(p)
  PROVE  Guarded'
<1>1. UNCHANGED <<role, seen, verdict, entangled>>
  BY DEF Ends, FinishSetup, BeginStop, FinishStop, Crash
<1>2. CASE FinishSetup(p) \/ BeginStop(p)
  <2>1. /\ AtWork(p) /\ lock' = Nobody
        /\ \E s \in {"off", "draining"} : stage' = [stage EXCEPT ![p] = s]
    BY <1>2 DEF FinishSetup, BeginStop, Become, AtWork
  <2>2. stage[p] # "writing"
    BY <2>1 DEF AtWork
  <2>3. \A q \in Pids : stage'[q] \in {stage[q], "off", "draining"} /\ (q # p => stage'[q] = stage[q])
    BY <2>1 DEF TypeOK
  <2>4. ~AtWork(p)'
    BY <2>1 DEF TypeOK, AtWork
  <2>5. \A q \in Pids : AtWork(q)' => AtWork(q) /\ q \notin Orderly
    BY <2>1, <2>3, <2>4, TogetherEntangled DEF AtWork, Orderly
  <2>6. \A q \in Pids : AtIt(q)' => AtIt(q)
    BY <2>3 DEF AtIt, AtWork, Contending
  <2> QED BY <1>1, <2>1, <2>2, <2>3, <2>5, <2>6, EndsGuarded DEF Orderly
<1>3. CASE FinishStop(p) \/ Crash(p)
  <2>1. stage' = [stage EXCEPT ![p] = "off"] /\ lock' = lock
    BY <1>3 DEF FinishStop, Crash, Become
  <2> QED BY <1>1, <2>1, EndsGuarded DEF TypeOK, AtWork, AtIt, Contending, Orderly
<1> QED BY <1>2, <1>3 DEF Ends

(* LockInv is inductive. *)
LEMMA StepInv == LockInv /\ [Next]_vars => LockInv'
<1> SUFFICES ASSUME LockInv, [Next]_vars PROVE LockInv'
  OBVIOUS
<1>1. TypeOK /\ TypeOK' /\ Guarded
  BY StepType DEF LockInv, Guarded
<1> SUFFICES Guarded'
  BY <1>1 DEF LockInv, Guarded
<1>2. CASE UNCHANGED vars
  <2>1. UNCHANGED <<lock, stage, role, seen, verdict, entangled>>
    BY <1>2 DEF vars
  <2> QED BY <1>1, <2>1, EndsGuarded DEF AtWork, AtIt, Contending
<1>3. CASE Next
  <2>1. PICK p \in Pids : Launch(p) \/ Inspect(p) \/ Resolve(p) \/ Write(p) \/ Ends(p)
    BY <1>3 DEF Next
  <2>2. CASE Launch(p)
    BY <1>1, <2>2, LaunchGuarded
  <2>3. CASE Inspect(p)
    BY <1>1, <2>3, InspectGuarded
  <2>4. CASE Exit(p) \/ Heal(p) \/ Kill(p)
    BY <1>1, <2>4, ResolveGuarded
  <2>5. CASE Ignore(p)
    BY <1>1, <2>5, IgnoreGuarded
  <2>6. CASE Write(p)
    BY <1>1, <2>6, WriteGuarded
  <2>7. CASE Ends(p)
    BY <1>1, <2>7, EndGuarded
  <2> QED BY <2>1, <2>2, <2>3, <2>4, <2>5, <2>6, <2>7 DEF Resolve
<1> QED BY <1>2, <1>3

(* The lock names the process at work and its contenders know it, for      *)
(* every process that overlapped nobody on its way to the lock, before and *)
(* after any race or ignored conflict (the invariant of                    *)
(* prepare_service_lock, run_setup and the ends of the processes).         *)
THEOREM LockHolds == Spec => []LockInv
<1>1. Init => LockInv
  BY InitType DEF Init, LockInv, HolderNamed, WriterAlone, ConflictCurrent, Apart, AtWork, Orderly
<1>2. LockInv /\ [Next]_vars => LockInv'
  BY StepInv
<1> QED BY <1>1, <1>2, PTL DEF Spec
=============================================================================
