------------------------ MODULE NeonProject_proofs ------------------------
(***************************************************************************)
(* Theorems about create-neon-project.ts, for any number of invocations,   *)
(* projects and faults.                                                    *)
(*                                                                         *)
(* Until a live process's lock is renamed away, the lock file is the       *)
(* holder's own (LockInv), so there is at most one holder.  Steps under    *)
(* the lock touch neither the lock nor who holds it, so they share one     *)
(* lemma; each step of withLock has a step of its own.                     *)
(*                                                                         *)
(* Hence what a holder read of the record stays true until it writes it    *)
(* (KnowsRecord), which gives StaysBound and, while no project is lost,    *)
(* Agreement.  ConflictHarmless needs no lock: it counts the runs that     *)
(* went wrong against the faults.                                          *)
(***************************************************************************)
EXTENDS NeonProject, FiniteSetTheorems, TLAPS

(* A process is acquiring, holding or gone.                                *)
LEMMA Labels ==
  /\ Acquired \cap Acquiring = {}
  /\ Acquired \cap Gone = {}
  /\ Acquiring \cap Gone = {}
BY DEF Acquired, Acquiring, Gone

(* The initial state has no lock and no holder.                            *)
LEMMA InitLock == Init => LockInv
<1> SUFFICES ASSUME Init
             PROVE  LockInv
  OBVIOUS
<1>1. TypeOK
  BY BoundAssumption DEF Init, TypeOK, Acquiring
<1>2. Holders = {}
  BY DEF Init, Holders, Acquired
<1> QED
  BY <1>1, <1>2 DEF LockInv, TheftOnly

(* A step that leaves the lock files alone and makes no holder keeps the   *)
(* invariant.                                                              *)
LEMMA KeepsLock ==
  ASSUME TheftOnly, Holders' \subseteq Holders, UNCHANGED <<lock, robbed>>
  PROVE  TheftOnly'
BY DEF TheftOnly

(* A process that creates the lock file is its only holder: there was none *)
(* before, because a holder's lock file would have been in the way.        *)
LEMMA CreatedLock ==
  ASSUME TypeOK, TheftOnly, NEW p \in Procs, Create(p), UNCHANGED robbed
  PROVE  TheftOnly'
<1> SUFFICES ASSUME robbed = {}, NEW q \in Procs, q \in Holders'
             PROVE  lock' = q
  BY DEF TheftOnly, Holders
<1>1. CASE q = p
  BY <1>1 DEF Create
<1>2. CASE q # p
  <2>1. q \in Holders
    BY <1>2 DEF Create, Goto, TypeOK, Holders
  <2>2. lock = q
    BY <2>1 DEF TheftOnly
  <2> QED
    BY <2>2, NoneAssumption DEF Create
<1> QED
  BY <1>1, <1>2

(* The steps of withLock keep the invariant.                               *)
LEMMA LockSteps ==
  ASSUME LockInv, NEW p \in Procs,
         \/ Open(p) \/ ReadLock(p) \/ Probe(p) \/ Rename(p) \/ Reopen(p)
         \/ WritePid(p) \/ Release(p)
  PROVE  TheftOnly'
<1> USE DEF LockInv
<1>1. CASE Open(p)
  <2>1. CASE Create(p)
    BY <1>1, <2>1, CreatedLock DEF Open
  <2>2. CASE lock # None /\ Goto(p, "readLock") /\ UNCHANGED lock
    <3>1. Holders' \subseteq Holders
      BY <2>2 DEF Goto, Holders, Acquired, TypeOK
    <3> QED
      BY <1>1, <2>2, <3>1, KeepsLock DEF Open
  <2> QED
    BY <1>1, <2>1, <2>2 DEF Open
<1>2. CASE ReadLock(p)
  <2>1. Holders' \subseteq Holders
    BY <1>2 DEF ReadLock, Goto, Holders, Acquired, TypeOK
  <2> QED
    BY <1>2, <2>1, KeepsLock DEF ReadLock
<1>3. CASE Probe(p)
  <2>1. Holders' \subseteq Holders
    BY <1>3 DEF Probe, Goto, Holders, Acquired, TypeOK
  <2> QED
    BY <1>3, <2>1, KeepsLock DEF Probe
<1>4. CASE Rename(p)
  <2>1. Holders' \subseteq Holders
    BY <1>4 DEF Rename, Goto, Holders, Acquired, TypeOK
  <2>2. lock # None /\ Alive(lock) => robbed' # {}
    BY <1>4 DEF Rename
  <2>3. ASSUME robbed' = {}, NEW q \in Procs, q \in Holders
        PROVE  FALSE
    <3>1. robbed = {}
      BY <1>4, <2>3 DEF Rename
    <3>2. lock = q
      BY <2>3, <3>1 DEF TheftOnly
    <3>3. Alive(q)
      BY <2>3, Labels DEF Holders, Alive
    <3> QED
      BY <2>2, <2>3, <3>2, <3>3, NoneAssumption
  <2> QED
    BY <2>1, <2>3 DEF TheftOnly, Holders
<1>5. CASE Reopen(p)
  <2>1. CASE Create(p)
    BY <1>5, <2>1, CreatedLock DEF Reopen
  <2>2. CASE lock # None /\ Goto(p, "failed") /\ UNCHANGED lock
    <3>1. Holders' \subseteq Holders
      BY <2>2 DEF Goto, Holders, Acquired, TypeOK
    <3> QED
      BY <1>5, <2>2, <3>1, KeepsLock DEF Reopen
  <2> QED
    BY <1>5, <2>1, <2>2 DEF Reopen
<1>6. CASE WritePid(p)
  <2>1. Holders' \subseteq Holders
    BY <1>6 DEF WritePid, Goto, Holders, Acquired, TypeOK
  <2> QED
    BY <1>6, <2>1, KeepsLock DEF WritePid
<1>7. CASE Release(p)
  <2>1. p \in Holders
    BY <1>7 DEF Release, Holders, Acquired
  <2>2. Holders' \subseteq Holders \ {p}
    BY <1>7 DEF Release, Goto, Holders, Acquired, TypeOK
  <2>3. UNCHANGED robbed
    BY <1>7 DEF Release
  <2>4. robbed = {} => Holders' = {}
    BY <2>1, <2>2 DEF TheftOnly, Holders
  <2> QED
    BY <2>3, <2>4 DEF TheftOnly, Holders
<1> QED
  BY <1>1, <1>2, <1>3, <1>4, <1>5, <1>6, <1>7

(* A run ends holding what Choose gave it: the lock.                       *)
LEMMA ChooseHolds ==
  ASSUME TypeOK, NEW p \in Procs, NEW result \in Projects \cup {None},
         pc[p] \in Acquired, Choose(p, result)
  PROVE  /\ pc' \in [Procs -> Acquiring \cup Acquired \cup Gone]
         /\ project' \in [Procs -> Projects \cup {None}]
         /\ Holders' \subseteq Holders
BY DEF Choose, Goto, TypeOK, Holders, Acquired

(* What a lookup by name returns.                                          *)
LEMMA FoundType ==
  ASSUME TypeOK
  PROVE  FoundByName \in Projects \cup {None}
<1>1. CASE Cardinality(live) = 1
  <2>1. live # {}
    BY <1>1, FS_EmptySet
  <2> QED
    BY <1>1, <2>1 DEF FoundByName, TypeOK
<1>2. CASE Cardinality(live) # 1
  BY <1>2 DEF FoundByName
<1> QED
  BY <1>1, <1>2

(* Everything that is done under the lock, the faults and Neon's answers   *)
(* included, leaves the lock files alone and makes no holder.              *)
LEMMA OtherSteps ==
  ASSUME LockInv,
         \/ \E p \in Procs :
               \/ ReadState(p) \/ Validate(p) \/ Find(p) \/ Post(p) \/ WriteState(p)
               \/ Handle(p) \/ RequestFails(p) \/ Kill(p)
         \/ \E j \in Projects : LoseProject(j)
  PROVE  TypeOK' /\ TheftOnly'
<1> USE DEF LockInv
<1>1. ASSUME NEW p \in Procs, ReadState(p) PROVE TypeOK' /\ TheftOnly'
  <2>1. TypeOK' /\ Holders' \subseteq Holders
    BY <1>1 DEF ReadState, LockUnchanged, Goto, TypeOK, Holders, Acquired
  <2> QED
    BY <1>1, <2>1, KeepsLock DEF ReadState, LockUnchanged
<1>2. ASSUME NEW p \in Procs, Validate(p) PROVE TypeOK' /\ TheftOnly'
  <2>1. (IF state \in live THEN state ELSE FoundByName) \in Projects \cup {None}
    BY FoundType DEF TypeOK
  <2>2. pc[p] \in Acquired
    BY <1>2 DEF Validate, Acquired
  <2>3. /\ pc' \in [Procs -> Acquiring \cup Acquired \cup Gone]
        /\ project' \in [Procs -> Projects \cup {None}]
        /\ Holders' \subseteq Holders
    BY <1>2, <2>1, <2>2, ChooseHolds DEF Validate
  <2> QED
    BY <1>2, <2>3, KeepsLock DEF Validate, LockUnchanged, TypeOK
<1>3. ASSUME NEW p \in Procs, Find(p) PROVE TypeOK' /\ TheftOnly'
  <2>1. pc[p] \in Acquired
    BY <1>3 DEF Find, Acquired
  <2>2. CASE Goto(p, "post") /\ UNCHANGED project
    <3>1. TypeOK' /\ Holders' \subseteq Holders
      BY <1>3, <2>1, <2>2 DEF Find, LockUnchanged, Goto, TypeOK, Holders, Acquired
    <3> QED
      BY <1>3, <3>1, KeepsLock DEF Find, LockUnchanged
  <2>3. CASE Choose(p, FoundByName)
    <3>1. /\ pc' \in [Procs -> Acquiring \cup Acquired \cup Gone]
          /\ project' \in [Procs -> Projects \cup {None}]
          /\ Holders' \subseteq Holders
      BY <2>1, <2>3, ChooseHolds, FoundType
    <3> QED
      BY <1>3, <3>1, KeepsLock DEF Find, LockUnchanged, TypeOK
  <2> QED
    BY <1>3, <2>2, <2>3 DEF Find
<1>4. ASSUME NEW p \in Procs, Post(p) PROVE TypeOK' /\ TheftOnly'
  <2>1. TypeOK' /\ Holders' \subseteq Holders
    BY <1>4 DEF Post, LockUnchanged, Goto, TypeOK, Holders, Acquired
  <2> QED
    BY <1>4, <2>1, KeepsLock DEF Post, LockUnchanged
<1>5. ASSUME NEW p \in Procs, WriteState(p) PROVE TypeOK' /\ TheftOnly'
  <2>1. TypeOK' /\ Holders' \subseteq Holders
    BY <1>5 DEF WriteState, LockUnchanged, Goto, TypeOK, Holders, Acquired
  <2> QED
    BY <1>5, <2>1, KeepsLock DEF WriteState, LockUnchanged
<1>6. ASSUME NEW p \in Procs, Handle(p) PROVE TypeOK' /\ TheftOnly'
  <2>1. /\ live' \subseteq used'
        /\ used' \subseteq Projects
        /\ posts' \subseteq Procs
    BY <1>6 DEF Handle, TypeOK
  <2>2. /\ pc' \in [Procs -> Acquiring \cup Acquired \cup Gone]
        /\ project' \in [Procs -> Projects \cup {None}]
        /\ Holders' \subseteq Holders
    <3>1. CASE UNCHANGED <<pc, project>>
      BY <3>1 DEF TypeOK, Holders
    <3>2. CASE \E j \in Projects \cup {None} : pc[p] = "answer" /\ Choose(p, j)
      <4>1. PICK j \in Projects \cup {None} : pc[p] = "answer" /\ Choose(p, j)
        BY <3>2
      <4>2. pc[p] \in Acquired
        BY <4>1 DEF Acquired
      <4> QED
        BY <4>1, <4>2, ChooseHolds
    <3> QED
      BY <1>6, <3>1, <3>2, FoundType DEF Handle
  <2> QED
    BY <1>6, <2>1, <2>2, KeepsLock DEF Handle, LockUnchanged, TypeOK
<1>7. ASSUME NEW p \in Procs, RequestFails(p) PROVE TypeOK' /\ TheftOnly'
  <2>1. pc[p] \in Acquired
    BY <1>7 DEF RequestFails, Acquired
  <2>2. /\ pc' \in [Procs -> Acquiring \cup Acquired \cup Gone]
        /\ project' \in [Procs -> Projects \cup {None}]
        /\ Holders' \subseteq Holders
    BY <1>7, <2>1, ChooseHolds DEF RequestFails
  <2>3. faults' \in 0..MaxFaults
    BY <1>7, BoundAssumption DEF RequestFails, Fault, TypeOK
  <2> QED
    BY <1>7, <2>2, <2>3, KeepsLock DEF RequestFails, LockUnchanged, TypeOK
<1>8. ASSUME NEW p \in Procs, Kill(p) PROVE TypeOK' /\ TheftOnly'
  <2>1. faults' \in 0..MaxFaults
    BY <1>8, BoundAssumption DEF Kill, Fault, TypeOK
  <2>2. /\ pc' \in [Procs -> Acquiring \cup Acquired \cup Gone]
        /\ Holders' \subseteq Holders
    BY <1>8 DEF Kill, Goto, TypeOK, Holders, Acquired, Gone
  <2> QED
    BY <1>8, <2>1, <2>2, KeepsLock DEF Kill, LockUnchanged, TypeOK
<1>9. ASSUME NEW j \in Projects, LoseProject(j) PROVE TypeOK' /\ TheftOnly'
  <2>1. faults' \in 0..MaxFaults
    BY <1>9, BoundAssumption DEF LoseProject, Fault, TypeOK
  <2>2. Holders' \subseteq Holders
    BY <1>9 DEF LoseProject, Holders
  <2> QED
    BY <1>9, <2>1, <2>2, KeepsLock DEF LoseProject, LockUnchanged, TypeOK
<1> QED
  BY <1>1, <1>2, <1>3, <1>4, <1>5, <1>6, <1>7, <1>8, <1>9

(* The steps of withLock keep the types.                                   *)
LEMMA LockTypes ==
  ASSUME TypeOK, NEW p \in Procs,
         \/ Open(p) \/ ReadLock(p) \/ Probe(p) \/ Rename(p) \/ Reopen(p)
         \/ WritePid(p) \/ Release(p)
  PROVE  TypeOK'
<1> USE DEF TypeOK, LocalUnchanged, Goto, Acquiring, Acquired, Gone
<1>1. CASE Open(p)
  BY <1>1 DEF Open, Create
<1>2. CASE ReadLock(p)
  BY <1>2 DEF ReadLock
<1>3. CASE Probe(p)
  BY <1>3 DEF Probe
<1>4. CASE Rename(p)
  BY <1>4 DEF Rename
<1>5. CASE Reopen(p)
  BY <1>5 DEF Reopen, Create
<1>6. CASE WritePid(p)
  BY <1>6 DEF WritePid
<1>7. CASE Release(p)
  BY <1>7 DEF Release
<1> QED
  BY <1>1, <1>2, <1>3, <1>4, <1>5, <1>6, <1>7

(* LockInv is inductive.                                                   *)
LEMMA NextLock == LockInv /\ [Next]_vars => LockInv'
<1> SUFFICES ASSUME LockInv, [Next]_vars
             PROVE  LockInv'
  OBVIOUS
<1>1. CASE UNCHANGED vars
  BY <1>1 DEF vars, LockInv, TypeOK, TheftOnly, Holders
<1>2. ASSUME NEW p \in Procs,
             \/ Open(p) \/ ReadLock(p) \/ Probe(p) \/ Rename(p) \/ Reopen(p)
             \/ WritePid(p) \/ Release(p)
      PROVE  LockInv'
  BY <1>2, LockSteps, LockTypes DEF LockInv
<1>3. CASE \/ \E p \in Procs :
                 \/ ReadState(p) \/ Validate(p) \/ Find(p) \/ Post(p) \/ WriteState(p)
                 \/ Handle(p) \/ RequestFails(p) \/ Kill(p)
           \/ \E j \in Projects : LoseProject(j)
  BY <1>3, OtherSteps DEF LockInv
<1> QED
  BY <1>1, <1>2, <1>3 DEF Next, Step

(* Holders of one lock file are one process.                               *)
LEMMA OneHolder == LockInv => Exclusive
<1> SUFFICES ASSUME LockInv, robbed = {}
             PROVE  Cardinality(Holders) <= 1
  BY DEF Exclusive
<1>1. Holders \subseteq {lock}
  BY DEF LockInv, TheftOnly, Holders
<1>2. Holders = {} \/ Holders = {lock}
  BY <1>1
<1>3. Cardinality({}) = 0
  BY FS_EmptySet
<1>4. Cardinality({lock}) = 1
  BY FS_Singleton
<1> QED
  BY <1>2, <1>3, <1>4

(***************************************************************************)
(* The project a run chooses.                                              *)
(***************************************************************************)
ChoiceInv == FromNeon /\ KnowsRecord /\ Persisted

(* Under an unbroken lock there is one holder.                             *)
LEMMA SoleHolder ==
  ASSUME LockInv, robbed = {}, NEW p \in Procs, NEW q \in Procs,
         pc[p] \in Acquired, pc[q] \in Acquired
  PROVE  p = q
BY DEF LockInv, TheftOnly, Holders

(* Nothing is chosen yet.                                                  *)
LEMMA InitChoice == Init => ChoiceInv /\ DoomedByFault
<1> SUFFICES ASSUME Init
             PROVE  ChoiceInv /\ DoomedByFault
  OBVIOUS
<1>1. ChoiceInv
  BY FS_EmptySet DEF Init, ChoiceInv, FromNeon, KnowsRecord, Persisted
<1>2. Doomed = {}
  BY DEF Init, Doomed
<1>3. DoomedByFault
  BY <1>2, FS_EmptySet DEF Init, DoomedByFault
<1> QED
  BY <1>1, <1>3

(* Without a project lost, one project of the name is found.               *)
LEMMA OneIsFound ==
  ASSUME FromNeon, live = used, Cardinality(used) <= 1, live # {}
  PROVE  FoundByName \in live
<1>1. Cardinality(live) \in Nat /\ Cardinality(live) # 0
  BY FS_CardinalityType, FS_EmptySet DEF FromNeon
<1>2. Cardinality(live) = 1
  BY <1>1
<1> QED
  BY <1>2 DEF FoundByName

(* What is found by name is there.                                         *)
LEMMA FoundIsLive == TypeOK => FoundByName \in live \cup {None}
<1>1. CASE Cardinality(live) = 1
  <2>1. live # {}
    BY <1>1, FS_EmptySet
  <2> QED
    BY <1>1, <2>1 DEF FoundByName
<1>2. CASE Cardinality(live) # 1
  BY <1>2 DEF FoundByName
<1> QED
  BY <1>1, <1>2

(* A step dooms at most one run, and that one by a fault or where Neon     *)
(* holds several projects or lost one.                                     *)
LEMMA DoomedStep ==
  ASSUME TypeOK, DoomedByFault, IsFiniteSet(used'), used \subseteq used',
         live' = used' => live = used,
         NEW p, Doomed' \subseteq Doomed \cup {p}, Doomed \subseteq Doomed',
         \/ Doomed' = Doomed /\ faults' = faults
         \/ faults' = faults + 1
         \/ ~(live = used /\ Cardinality(used) <= 1)
  PROVE  DoomedByFault'
<1>1. IsFiniteSet(Doomed \cup {p}) /\ Cardinality(Doomed \cup {p}) <= Cardinality(Doomed) + 1
      /\ Cardinality(Doomed) \in Nat
  <2>1. IsFiniteSet(Doomed)
    BY DEF DoomedByFault
  <2>2. Cardinality(Doomed) \in Nat
    BY <2>1, FS_CardinalityType
  <2>3. /\ IsFiniteSet(Doomed \cup {p})
        /\ Cardinality(Doomed \cup {p}) =
              IF p \in Doomed THEN Cardinality(Doomed) ELSE Cardinality(Doomed) + 1
    BY <2>1, FS_AddElement
  <2> QED
    BY <2>2, <2>3
<1>2. IsFiniteSet(Doomed') /\ Cardinality(Doomed') <= Cardinality(Doomed \cup {p})
  BY <1>1, FS_Subset
<1>3. Cardinality(Doomed') \in Nat /\ Cardinality(Doomed \cup {p}) \in Nat
  BY <1>1, <1>2, FS_CardinalityType
<1>4. Cardinality(used) <= Cardinality(used') /\ Cardinality(used) \in Nat /\ Cardinality(used') \in Nat
  BY FS_Subset, FS_CardinalityType
<1>5. faults \in Nat
  BY BoundAssumption DEF TypeOK
<1>6. ASSUME live' = used', Cardinality(used') <= 1
      PROVE  Cardinality(Doomed') <= faults'
  <2>1. live = used /\ Cardinality(used) <= 1
    BY <1>4, <1>6
  <2>2. Cardinality(Doomed) <= faults
    BY <2>1 DEF DoomedByFault
  <2>3. CASE Doomed' = Doomed /\ faults' = faults
    BY <2>2, <2>3
  <2>4. CASE faults' = faults + 1
    BY <1>1, <1>2, <1>3, <1>5, <2>2, <2>4
  <2> QED
    BY <2>1, <2>3, <2>4
<1> QED
  BY <1>2, <1>6 DEF DoomedByFault

(* The steps of withLock choose nothing and doom no run.                   *)
LEMMA LockChoice ==
  ASSUME TypeOK, ChoiceInv, DoomedByFault, NEW p \in Procs,
         \/ Open(p) \/ ReadLock(p) \/ Probe(p) \/ Rename(p) \/ Reopen(p)
         \/ WritePid(p) \/ Release(p)
  PROVE  ChoiceInv' /\ DoomedByFault'
<1>1. PICK label : pc' = [pc EXCEPT ![p] = label]
  BY DEF Open, ReadLock, Probe, Rename, Reopen, WritePid, Release, Create, Goto
<1>2. UNCHANGED <<state, live, used, posts, project, faults>> /\ robbed \subseteq robbed'
  BY DEF Open, ReadLock, Probe, Rename, Reopen, WritePid, Release, LocalUnchanged
<1>3. pc'[p] = label /\ \A q \in Procs : q # p => pc'[q] = pc[q]
  BY <1>1 DEF TypeOK
<1>4. \/ /\ pc[p] \in Acquiring \cup {"writePid"}
         /\ label \in Acquiring \cup {"writePid", "readState", "failed"}
      \/ pc[p] = "release" /\ label = "ended"
  <2>1. CASE Open(p)
    BY <1>3, <2>1 DEF Open, Create, Goto, Acquiring, TypeOK
  <2>2. CASE ReadLock(p)
    BY <1>3, <2>2 DEF ReadLock, Goto, Acquiring, TypeOK
  <2>3. CASE Probe(p)
    BY <1>3, <2>3 DEF Probe, Goto, Acquiring, TypeOK
  <2>4. CASE Rename(p)
    BY <1>3, <2>4 DEF Rename, Goto, Acquiring, TypeOK
  <2>5. CASE Reopen(p)
    BY <1>3, <2>5 DEF Reopen, Create, Goto, Acquiring, TypeOK
  <2>6. CASE WritePid(p)
    BY <1>3, <2>6 DEF WritePid, Goto, Acquiring, TypeOK
  <2>7. CASE Release(p)
    BY <1>3, <2>7 DEF Release, Goto, Acquiring, TypeOK
  <2> QED
    BY <2>1, <2>2, <2>3, <2>4, <2>5, <2>6, <2>7
<1>5. FromNeon'
  BY <1>2, <1>3, <1>4 DEF ChoiceInv, FromNeon, Acquiring
<1>6. KnowsRecord'
  BY <1>2, <1>3, <1>4 DEF ChoiceInv, KnowsRecord, Acquiring
<1>7. Persisted'
  BY <1>2, <1>3, <1>4 DEF ChoiceInv, Persisted, Acquiring
<1>8. Doomed' = Doomed
  BY <1>2, <1>3, <1>4 DEF Doomed, Acquiring
<1> QED
  BY <1>2, <1>5, <1>6, <1>7, <1>8 DEF ChoiceInv, DoomedByFault

(* A run chooses what Neon has, and the recorded project while it is       *)
(* there.  Neon may make a project in the same step, never an old one.     *)
LEMMA ChooseKeeps ==
  ASSUME TypeOK, ChoiceInv, NEW p \in Procs, NEW result \in used' \cup {None},
         pc[p] \in {"validate", "find", "answer"}, Choose(p, result),
         used \subseteq used', IsFiniteSet(used'), UNCHANGED <<state, robbed>>,
         robbed = {} /\ state \in live' => result = None \/ result = state,
         live' = used' => live = used,
         state \in live' => state \in live
  PROVE  /\ ChoiceInv'
         /\ Doomed \subseteq Doomed' /\ Doomed' \subseteq Doomed \cup {p}
         /\ result # None => Doomed' = Doomed
<1>1. /\ pc'[p] = IF result = None THEN "release" ELSE "writeState"
      /\ project'[p] = result
      /\ \A q \in Procs : q # p => pc'[q] = pc[q] /\ project'[q] = project[q]
  BY DEF Choose, Goto, TypeOK
<1>2. FromNeon'
  BY <1>1 DEF ChoiceInv, FromNeon
<1>3. KnowsRecord'
  BY <1>1 DEF ChoiceInv, KnowsRecord
<1>4. Persisted'
  BY <1>1 DEF ChoiceInv, Persisted
<1>5. Doomed \subseteq Doomed' /\ Doomed' \subseteq Doomed \cup {p}
  BY <1>1 DEF Doomed
<1>6. result # None => Doomed' = Doomed
  BY <1>1 DEF Doomed
<1> QED
  BY <1>2, <1>3, <1>4, <1>5, <1>6 DEF ChoiceInv

(* The steps under the lock, Neon's answers and the faults.                *)
LEMMA OtherChoice ==
  ASSUME LockInv, ChoiceInv, DoomedByFault,
         \/ \E p \in Procs :
               \/ ReadState(p) \/ Validate(p) \/ Find(p) \/ Post(p) \/ WriteState(p)
               \/ Handle(p) \/ RequestFails(p) \/ Kill(p)
         \/ \E j \in Projects : LoseProject(j)
  PROVE  ChoiceInv' /\ DoomedByFault'
<1>0. TypeOK
  BY DEF LockInv
<1>1. ASSUME NEW p \in Procs, ReadState(p) \/ Post(p) \/ (Find(p) /\ live = {})
      PROVE  ChoiceInv' /\ DoomedByFault'
  <2>1. UNCHANGED <<state, live, used, project, faults, robbed>>
    BY <1>1 DEF ReadState, Post, Find, LockUnchanged
  <2>2. /\ \/ pc[p] = "readState" /\ pc'[p] = IF state = None THEN "find" ELSE "validate"
           \/ pc[p] \in {"find", "post"} /\ pc'[p] \in {"post", "answer"}
        /\ \A q \in Procs : q # p => pc'[q] = pc[q]
    BY <1>0, <1>1 DEF ReadState, Post, Find, Goto, TypeOK
  <2>3. FromNeon' /\ Persisted'
    BY <2>1, <2>2 DEF ChoiceInv, FromNeon, Persisted
  <2>4. KnowsRecord'
    BY <2>1, <2>2 DEF ChoiceInv, KnowsRecord
  <2>5. Doomed' = Doomed
    BY <2>1, <2>2 DEF Doomed
  <2> QED
    BY <2>1, <2>3, <2>4, <2>5 DEF ChoiceInv, DoomedByFault
<1>2. ASSUME NEW p \in Procs, Validate(p)
      PROVE  ChoiceInv' /\ DoomedByFault'
  <2> DEFINE result == IF state \in live THEN state ELSE FoundByName
  <2>1. /\ pc[p] = "validate" /\ Choose(p, result)
        /\ UNCHANGED <<state, live, used, faults, robbed>>
    BY <1>2 DEF Validate, LockUnchanged
  <2>2. result \in used \cup {None}
    BY <1>0, FoundIsLive DEF TypeOK
  <2>3. IsFiniteSet(used) /\ (state # None => state \in used) /\ state # None
    BY <2>1 DEF ChoiceInv, FromNeon
  <2>4. /\ ChoiceInv'
        /\ Doomed \subseteq Doomed' /\ Doomed' \subseteq Doomed \cup {p}
        /\ result # None => Doomed' = Doomed
    <3> HIDE DEF result
    <3>1. state \in live => result = state
      BY DEF result
    <3> QED
      BY <1>0, <2>1, <2>2, <2>3, <3>1, ChooseKeeps
  <2>5. live = used => result # None
    BY <2>3
  <2> QED
    BY <1>0, <2>1, <2>3, <2>4, <2>5, DoomedStep
<1>3. ASSUME NEW p \in Procs, Find(p), live # {}
      PROVE  ChoiceInv' /\ DoomedByFault'
  <2>1. /\ pc[p] = "find" /\ Choose(p, FoundByName)
        /\ UNCHANGED <<state, live, used, faults, robbed>>
    BY <1>3 DEF Find, LockUnchanged
  <2>2. FoundByName \in used \cup {None} /\ IsFiniteSet(used)
    BY <1>0, FoundIsLive DEF TypeOK, ChoiceInv, FromNeon
  <2>3. robbed = {} => state \notin live
    BY <1>0, <2>1, NoneAssumption DEF ChoiceInv, KnowsRecord, TypeOK
  <2>4. /\ ChoiceInv'
        /\ Doomed \subseteq Doomed' /\ Doomed' \subseteq Doomed \cup {p}
        /\ FoundByName # None => Doomed' = Doomed
    BY <1>0, <2>1, <2>2, <2>3, ChooseKeeps
  <2>5. live = used /\ Cardinality(used) <= 1 => FoundByName # None
    BY <1>0, <1>3, OneIsFound, NoneAssumption DEF ChoiceInv, TypeOK
  <2> QED
    BY <1>0, <2>1, <2>2, <2>4, <2>5, DoomedStep
<1>4. ASSUME NEW p \in Procs, WriteState(p)
      PROVE  ChoiceInv' /\ DoomedByFault'
  <2>1. /\ pc[p] = "writeState" /\ state' = project[p]
        /\ UNCHANGED <<live, used, project, faults, robbed>>
    BY <1>4 DEF WriteState, LockUnchanged
  <2>2. pc'[p] = "release" /\ \A q \in Procs : q # p => pc'[q] = pc[q]
    BY <1>0, <1>4 DEF WriteState, Goto, TypeOK
  <2>3. FromNeon'
    BY <2>1, <2>2 DEF ChoiceInv, FromNeon
  <2>4. robbed = {} => \A q \in Procs : q # p => pc[q] \notin Acquired
    BY <2>1, SoleHolder DEF Acquired
  <2>5. KnowsRecord'
    BY <2>1, <2>2, <2>4 DEF KnowsRecord, Acquired
  <2>6. Persisted'
    <3> SUFFICES ASSUME live = used, robbed = {}, NEW q \in Procs,
                        pc'[q] \in {"release", "ended"}, project[q] # None
                 PROVE  project[q] = project[p]
      BY <2>1 DEF Persisted
    <3>1. CASE q # p
      <4>1. pc[q] = "ended"
        BY <2>2, <2>4, <3>1 DEF Acquired
      <4>2. project[q] = state /\ state \in live
        BY <4>1 DEF ChoiceInv, Persisted, FromNeon
      <4> QED
        BY <2>1, <4>2 DEF ChoiceInv, KnowsRecord
    <3> QED
      BY <3>1
  <2>7. Doomed' = Doomed
    BY <2>1, <2>2 DEF Doomed, ChoiceInv, FromNeon
  <2> QED
    BY <2>1, <2>3, <2>5, <2>6, <2>7 DEF ChoiceInv, DoomedByFault
<1>5. ASSUME NEW p \in Procs, Handle(p)
      PROVE  ChoiceInv' /\ DoomedByFault'
  <2>1. UNCHANGED <<state, faults, robbed>>
    BY <1>5 DEF Handle, LockUnchanged
  <2>2. /\ used \subseteq used' /\ IsFiniteSet(used')
        /\ state \in live' => state \in live
        /\ live' = used' => live = used
    <3>1. CASE UNCHANGED <<live, used>>
      BY <3>1 DEF ChoiceInv, FromNeon
    <3>2. ASSUME NEW j \in Projects \ used, live' = live \cup {j}, used' = used \cup {j}
          PROVE  /\ used \subseteq used' /\ IsFiniteSet(used')
                 /\ state \in live' => state \in live
                 /\ live' = used' => live = used
      <4>1. IsFiniteSet(used')
        BY <3>2, FS_AddElement DEF ChoiceInv, FromNeon
      <4> QED
        BY <1>0, <3>2, <4>1, NoneAssumption DEF ChoiceInv, FromNeon, TypeOK
    <3> QED
      BY <1>5, <3>1, <3>2 DEF Handle
  <2>3. CASE UNCHANGED <<pc, project>>
    <3>1. FromNeon'
      BY <2>1, <2>2, <2>3 DEF ChoiceInv, FromNeon
    <3>2. KnowsRecord' /\ Persisted'
      BY <2>1, <2>2, <2>3 DEF ChoiceInv, KnowsRecord, Persisted
    <3>3. Doomed' = Doomed
      BY <2>3 DEF Doomed
    <3> QED
      BY <1>0, <2>1, <2>2, <3>1, <3>2, <3>3, DoomedStep DEF ChoiceInv
  <2>4. ASSUME NEW result \in used' \cup {None}, pc[p] = "answer", Choose(p, result),
               result = None => ~(live = used /\ Cardinality(used) <= 1)
        PROVE  ChoiceInv' /\ DoomedByFault'
    <3>1. robbed = {} => state \notin live
      BY <1>0, <2>4, NoneAssumption DEF ChoiceInv, KnowsRecord, TypeOK
    <3>2. /\ ChoiceInv'
          /\ Doomed \subseteq Doomed' /\ Doomed' \subseteq Doomed \cup {p}
          /\ result # None => Doomed' = Doomed
      BY <1>0, <2>1, <2>2, <2>4, <3>1, ChooseKeeps
    <3> QED
      BY <1>0, <2>1, <2>2, <2>4, <3>2, DoomedStep
  <2>5. ASSUME pc[p] = "answer"
        PROVE  \E result \in used' \cup {None} :
                  /\ Choose(p, result)
                  /\ result = None => ~(live = used /\ Cardinality(used) <= 1)
    <3>1. ASSUME NEW j \in Projects \ used, used' = used \cup {j}, Choose(p, j)
          PROVE  \E result \in used' \cup {None} :
                    /\ Choose(p, result)
                    /\ result = None => ~(live = used /\ Cardinality(used) <= 1)
      BY <3>1, NoneAssumption
    <3>2. ASSUME live # {}, Choose(p, FoundByName), UNCHANGED <<live, used>>
          PROVE  \E result \in used' \cup {None} :
                    /\ Choose(p, result)
                    /\ result = None => ~(live = used /\ Cardinality(used) <= 1)
      <4>1. FoundByName \in used' \cup {None}
        BY <1>0, <3>2, FoundIsLive DEF TypeOK
      <4>2. live = used /\ Cardinality(used) <= 1 => FoundByName # None
        BY <1>0, <3>2, OneIsFound, NoneAssumption DEF ChoiceInv, TypeOK
      <4> QED
        BY <3>2, <4>1, <4>2
    <3> QED
      BY <1>5, <2>5, <3>1, <3>2 DEF Handle
  <2>6. pc[p] # "answer" => UNCHANGED <<pc, project>>
    BY <1>5 DEF Handle
  <2> QED
    BY <2>3, <2>4, <2>5, <2>6
<1>6. ASSUME NEW p \in Procs, RequestFails(p)
      PROVE  ChoiceInv' /\ DoomedByFault'
  <2>1. /\ pc[p] \in {"validate", "find", "answer"} /\ Choose(p, None)
        /\ UNCHANGED <<state, live, used, robbed>> /\ faults' = faults + 1
    BY <1>6 DEF RequestFails, LockUnchanged, Fault
  <2>2. IsFiniteSet(used)
    BY DEF ChoiceInv, FromNeon
  <2>3. ChoiceInv' /\ Doomed \subseteq Doomed' /\ Doomed' \subseteq Doomed \cup {p}
    BY <1>0, <2>1, <2>2, ChooseKeeps
  <2> QED
    BY <1>0, <2>1, <2>2, <2>3, DoomedStep
<1>7. ASSUME NEW p \in Procs, Kill(p)
      PROVE  ChoiceInv' /\ DoomedByFault'
  <2>1. UNCHANGED <<state, live, used, project, robbed>> /\ faults' = faults + 1
    BY <1>7 DEF Kill, LockUnchanged, Fault
  <2>2. pc'[p] = "killed" /\ \A q \in Procs : q # p => pc'[q] = pc[q]
    BY <1>0, <1>7 DEF Kill, Goto, TypeOK
  <2>3. FromNeon' /\ KnowsRecord' /\ Persisted'
    BY <2>1, <2>2 DEF ChoiceInv, FromNeon, KnowsRecord, Persisted
  <2>4. Doomed \subseteq Doomed' /\ Doomed' \subseteq Doomed \cup {p}
    BY <2>1, <2>2 DEF Doomed
  <2>5. IsFiniteSet(used)
    BY DEF ChoiceInv, FromNeon
  <2> QED
    BY <1>0, <2>1, <2>3, <2>4, <2>5, DoomedStep DEF ChoiceInv
<1>8. ASSUME NEW j \in Projects, LoseProject(j)
      PROVE  ChoiceInv' /\ DoomedByFault'
  <2>1. /\ UNCHANGED <<state, used, pc, project, robbed>>
        /\ j \in live /\ live' = live \ {j}
    BY <1>8 DEF LoseProject, LockUnchanged
  <2>2. live' # used'
    BY <1>0, <2>1 DEF TypeOK
  <2>3. FromNeon' /\ KnowsRecord' /\ Persisted'
    BY <2>1, <2>2 DEF ChoiceInv, FromNeon, KnowsRecord, Persisted
  <2>4. Doomed' = Doomed
    BY <2>1 DEF Doomed
  <2> QED
    BY <2>2, <2>3, <2>4 DEF ChoiceInv, DoomedByFault
<1> QED
  BY <1>1, <1>2, <1>3, <1>4, <1>5, <1>6, <1>7, <1>8

(* Each step keeps the choices and the count of doomed runs.               *)
LEMMA NextChoice ==
  LockInv /\ ChoiceInv /\ DoomedByFault /\ [Next]_vars => ChoiceInv' /\ DoomedByFault'
<1> SUFFICES ASSUME LockInv, ChoiceInv, DoomedByFault, [Next]_vars
             PROVE  ChoiceInv' /\ DoomedByFault'
  OBVIOUS
<1>1. CASE UNCHANGED vars
  BY <1>1 DEF vars, ChoiceInv, FromNeon, KnowsRecord, Persisted, DoomedByFault, Doomed
<1>2. ASSUME NEW p \in Procs,
             \/ Open(p) \/ ReadLock(p) \/ Probe(p) \/ Rename(p) \/ Reopen(p)
             \/ WritePid(p) \/ Release(p)
      PROVE  ChoiceInv' /\ DoomedByFault'
  BY <1>2, LockChoice DEF LockInv
<1>3. CASE \/ \E p \in Procs :
                 \/ ReadState(p) \/ Validate(p) \/ Find(p) \/ Post(p) \/ WriteState(p)
                 \/ Handle(p) \/ RequestFails(p) \/ Kill(p)
           \/ \E j \in Projects : LoseProject(j)
  BY <1>3, OtherChoice
<1> QED
  BY <1>1, <1>2, <1>3 DEF Next, Step

(***************************************************************************)
(* Theorems.                                                               *)
(***************************************************************************)

(* The inductive invariant: until a live process's lock is renamed away,   *)
(* the lock file is its holder's own and the record is what the holder     *)
(* read, for any number of invocations, kills and takeovers.               *)
THEOREM ProjectHolds == Spec => []ProjectInv
<1>1. Init => ProjectInv
  BY InitLock, InitChoice DEF ProjectInv, ChoiceInv
<1>2. ProjectInv /\ [Next]_vars => ProjectInv'
  BY NextLock, NextChoice DEF ProjectInv, ChoiceInv
<1> QED
  BY <1>1, <1>2, PTL DEF Spec

(* Hence at most one invocation at a time is under the lock.               *)
THEOREM ExclusiveHolds == Spec => []Exclusive
<1>1. ProjectInv => Exclusive
  BY OneHolder DEF ProjectInv
<1> QED
  BY <1>1, ProjectHolds, PTL

(* Unless a project is lost or the lock broken, all runs that end well     *)
(* report the recorded project.                                            *)
THEOREM AgreementHolds == Spec => []Agreement
<1>1. ProjectInv => Agreement
  BY DEF ProjectInv, Persisted, Agreement, Reported
<1> QED
  BY <1>1, ProjectHolds, PTL

(* Where Neon refused every second project, all runs report the one        *)
(* project, whatever became of the lock, and each run without it has a     *)
(* fault of its own.                                                       *)
THEOREM ConflictHarmlessHolds == Spec => []ConflictHarmless
<1>1. ProjectInv => ConflictHarmless
  <2> SUFFICES ASSUME ProjectInv, live = used, Cardinality(used) <= 1
               PROVE  /\ \A p, q \in Procs : Reported(p) /\ Reported(q) => project[p] = project[q]
                      /\ Cardinality({p \in Procs : Unsuccessful(p)}) <= faults
    BY DEF ConflictHarmless
  <2>1. ASSUME NEW p \in Procs, NEW q \in Procs, Reported(p), Reported(q)
        PROVE  project[p] = project[q]
    <3>1. project[p] \in used /\ project[q] \in used
      BY <2>1 DEF Reported, ProjectInv, FromNeon
    <3>2. Cardinality(used) = 1
      <4>1. IsFiniteSet(used) /\ used # {}
        BY <3>1 DEF ProjectInv, FromNeon
      <4>2. Cardinality(used) \in Nat /\ Cardinality(used) # 0
        BY <4>1, FS_CardinalityType, FS_EmptySet
      <4> QED
        BY <4>2
    <3>3. PICK j : used = {j}
      BY <3>2, FS_Singleton DEF ProjectInv, FromNeon
    <3> QED
      BY <3>1, <3>3
  <2>2. {p \in Procs : Unsuccessful(p)} \in SUBSET Doomed
    BY DEF Unsuccessful, Doomed
  <2>3. IsFiniteSet(Doomed) /\ Cardinality(Doomed) <= faults /\ faults \in Nat
    BY BoundAssumption DEF ProjectInv, DoomedByFault, LockInv, TypeOK
  <2>4. Cardinality({p \in Procs : Unsuccessful(p)}) <= Cardinality(Doomed)
    BY <2>2, <2>3, FS_Subset
  <2>5. Cardinality(Doomed) \in Nat /\ Cardinality({p \in Procs : Unsuccessful(p)}) \in Nat
    BY <2>2, <2>3, FS_CardinalityType, FS_Subset
  <2> QED
    BY <2>1, <2>3, <2>4, <2>5
<1> QED
  BY <1>1, ProjectHolds, PTL

(* Under an unbroken lock, no run overwrites the record of a project that  *)
(* is still there: only WriteState writes it, with what KnowsRecord says.  *)
THEOREM StaysBoundHolds == Spec => StaysBound
<1>1. ProjectInv /\ [Next]_vars => [live' = live /\ state \in live /\ robbed = {} => state' = state]_vars
  <2> SUFFICES ASSUME ProjectInv, Next, state \in live, robbed = {}
               PROVE  state' = state
    OBVIOUS
  <2>1. ASSUME NEW p \in Procs, WriteState(p)
        PROVE  state' = state
    BY <2>1 DEF WriteState, ProjectInv, KnowsRecord
  <2>2. ASSUME NEW p \in Procs, ~WriteState(p), Step(p) \/ Handle(p) \/ RequestFails(p) \/ Kill(p)
        PROVE  state' = state
    BY <2>2 DEF Step, Open, ReadLock, Probe, Rename, Reopen, WritePid, ReadState, Validate, Find, Post,
                Release, LocalUnchanged, Handle, RequestFails, Kill
  <2>3. ASSUME NEW j \in Projects, LoseProject(j)
        PROVE  state' = state
    BY <2>3 DEF LoseProject
  <2> QED
    BY <2>1, <2>2, <2>3 DEF Next
<1> QED
  BY <1>1, ProjectHolds, PTL DEF Spec, StaysBound
=============================================================================
