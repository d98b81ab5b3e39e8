---------------------------- MODULE NeonProject ----------------------------
(***************************************************************************)
(* create-neon-project.ts: concurrent invocations for one Site find or     *)
(* create its Neon project under a lock file and persist its ID.           *)
(*                                                                         *)
(* A lock file is known by the process that created it; it names that      *)
(* process only once the pid was written, which is a step of its own.  A   *)
(* lock whose process is gone is taken over by renaming it away.  A        *)
(* process is one invocation: it ends (its finally clause ran) or is       *)
(* killed.  Pids are not reused.                                           *)
(*                                                                         *)
(* Neon is external: a POST is handled some time after it was sent, also   *)
(* when its sender was killed or lost the answer; to a name that is taken  *)
(* it may answer 409 or make a second project.  Someone may delete or      *)
(* rename a project in Neon's console.                                     *)
(* Pagination, the fields of the answers and the region, which only make a *)
(* run fail, are left out, as is the renamed lock, which nobody reads.     *)
(***************************************************************************)
EXTENDS Naturals, FiniteSets

CONSTANTS
    Procs,        \* invocations of the command
    Projects,     \* IDs Neon may give to projects of the Site's name
    None,         \* no process, no project
    MaxFaults     \* bound: kills, failed requests and projects lost

ASSUME NoneAssumption == None \notin Procs /\ None \notin Projects
ASSUME BoundAssumption == MaxFaults \in Nat

VARIABLES
    lock,      \* the creator of the lock file, or None
    written,   \* the processes whose lock file holds their pid
    state,     \* the project ID in neon-project.json, or None
    live,      \* the projects Neon has under the name
    used,      \* the IDs Neon gave out
    posts,     \* the processes whose POST Neon has not handled
    pc,        \* what each process does next
    seen,      \* the pid a process read from the lock
    project,   \* the project a process found or created
    robbed,    \* history: the processes whose lock was renamed while they held it
    faults

vars == <<lock, written, state, live, used, posts, pc, seen, project, robbed, faults>>

Acquired == {"writePid", "readState", "validate", "find", "post", "answer", "writeState",
             "release"}

Acquiring == {"open", "readLock", "probe", "rename", "reopen"}

Gone == {"ended", "failed", "killed"}

TypeOK ==
    /\ lock \in Procs \cup {None}
    /\ written \subseteq Procs
    /\ state \in Projects \cup {None}
    /\ live \subseteq used
    /\ used \subseteq Projects
    /\ posts \subseteq Procs
    /\ pc \in [Procs -> Acquiring \cup Acquired \cup Gone]
    /\ seen \in [Procs -> Procs \cup {None}]
    /\ project \in [Procs -> Projects \cup {None}]
    /\ robbed \subseteq Procs
    /\ faults \in 0..MaxFaults

Init ==
    /\ lock = None /\ written = {} /\ state = None
    /\ live = {} /\ used = {} /\ posts = {}
    /\ pc = [p \in Procs |-> "open"]
    /\ seen = [p \in Procs |-> None]
    /\ project = [p \in Procs |-> None]
    /\ robbed = {} /\ faults = 0

Goto(p, label) == pc' = [pc EXCEPT ![p] = label]

Alive(p) == pc[p] \notin Gone

(***************************************************************************)
(* withLock.                                                               *)
(***************************************************************************)
LocalUnchanged == UNCHANGED <<state, live, used, posts, project, faults>>

(* Mutant: the lock file is opened although it exists.                     *)
CreateAnyway(p) ==
    /\ lock' = p
    /\ Goto(p, "writePid")

(* open(lockFile, "wx"), at first and after the rename.                    *)
Create(p) ==
    /\ lock = None
    /\ lock' = p
    /\ Goto(p, "writePid")

Open(p) ==
    /\ pc[p] = "open"
    /\ \/ Create(p)
       \/ lock # None /\ Goto(p, "readLock") /\ UNCHANGED lock
    /\ UNCHANGED <<written, seen, robbed>> /\ LocalUnchanged

(* A lock that is gone or names no pid yet counts as locked.               *)
ReadLock(p) ==
    /\ pc[p] = "readLock"
    /\ IF lock \in written
       THEN seen' = [seen EXCEPT ![p] = lock] /\ Goto(p, "probe")
       ELSE Goto(p, "failed") /\ UNCHANGED seen
    /\ UNCHANGED <<lock, written, robbed>> /\ LocalUnchanged

Probe(p) ==                                           \* process.kill(pid, 0)
    /\ pc[p] = "probe"
    /\ Goto(p, IF Alive(seen[p]) THEN "failed" ELSE "rename")
    /\ UNCHANGED <<lock, written, seen, robbed>> /\ LocalUnchanged

(* The rename takes whatever lock file is there by now.                    *)
Rename(p) ==
    /\ pc[p] = "rename"
    /\ lock' = None
    /\ IF lock = None
       THEN Goto(p, "failed") /\ UNCHANGED robbed
       ELSE /\ Goto(p, "reopen")
            /\ robbed' = IF Alive(lock) THEN robbed \cup {lock} ELSE robbed
    /\ UNCHANGED <<written, seen>> /\ LocalUnchanged

(* Mutant: after the rename the lock file is taken without asking again.   *)
ReopenAnyway(p) ==
    /\ pc[p] = "reopen"
    /\ lock' = p
    /\ Goto(p, "writePid")
    /\ UNCHANGED <<written, seen, robbed>> /\ LocalUnchanged

Reopen(p) ==
    /\ pc[p] = "reopen"
    /\ \/ Create(p)
       \/ lock # None /\ Goto(p, "failed") /\ UNCHANGED lock
    /\ UNCHANGED <<written, seen, robbed>> /\ LocalUnchanged

(* The pid goes into the file the process opened, renamed or not.          *)
WritePid(p) ==
    /\ pc[p] = "writePid"
    /\ written' = written \cup {p}
    /\ Goto(p, "readState")
    /\ UNCHANGED <<lock, seen, robbed>> /\ LocalUnchanged

(* The finally clause unlinks the path, whoever's lock it is by now.       *)
Release(p) ==
    /\ pc[p] = "release"
    /\ lock' = None
    /\ Goto(p, "ended")
    /\ UNCHANGED <<written, seen, robbed>> /\ LocalUnchanged

(***************************************************************************)
(* The action under the lock.  A result of None is an error that was       *)
(* thrown: the process goes on to release the lock.                        *)
(***************************************************************************)
LockUnchanged == UNCHANGED <<lock, written, seen, robbed>>

Choose(p, result) ==
    /\ project' = [project EXCEPT ![p] = result]
    /\ Goto(p, IF result = None THEN "release" ELSE "writeState")

(* findByName: the only project of the name; two of them are an error.     *)
FoundByName == IF Cardinality(live) = 1 THEN CHOOSE j \in live : TRUE ELSE None

ReadState(p) ==
    /\ pc[p] = "readState"
    /\ Goto(p, IF state = None THEN "find" ELSE "validate")
    /\ LockUnchanged /\ UNCHANGED <<state, live, used, posts, project, faults>>

(* A persisted project that is gone or renamed is looked up by name, and   *)
(* never created again.                                                    *)
Validate(p) ==
    /\ pc[p] = "validate"
    /\ Choose(p, IF state \in live THEN state ELSE FoundByName)
    /\ LockUnchanged /\ UNCHANGED <<state, live, used, posts, faults>>

Find(p) ==
    /\ pc[p] = "find"
    /\ IF live = {} THEN Goto(p, "post") /\ UNCHANGED project ELSE Choose(p, FoundByName)
    /\ LockUnchanged /\ UNCHANGED <<state, live, used, posts, faults>>

Post(p) ==
    /\ pc[p] = "post"
    /\ posts' = posts \cup {p}
    /\ Goto(p, "answer")
    /\ LockUnchanged /\ UNCHANGED <<state, live, used, project, faults>>

(* Mutant: a 409 is an error like any other.                               *)
HandleConflictFails(p) ==
    /\ p \in posts
    /\ posts' = posts \ {p}
    /\ \/ \E j \in Projects \ used :
             /\ live' = live \cup {j}
             /\ used' = used \cup {j}
             /\ IF pc[p] = "answer" THEN Choose(p, j) ELSE UNCHANGED <<pc, project>>
       \/ /\ live # {}
          /\ IF pc[p] = "answer" THEN Choose(p, None) ELSE UNCHANGED <<pc, project>>
          /\ UNCHANGED <<live, used>>
    /\ LockUnchanged /\ UNCHANGED <<state, faults>>

(* Neon handles a POST.  A sender still waiting goes on with the project   *)
(* or, after a 409, with the one it finds by name.                         *)
Handle(p) ==
    /\ p \in posts
    /\ posts' = posts \ {p}
    /\ \/ \E j \in Projects \ used :
             /\ live' = live \cup {j}
             /\ used' = used \cup {j}
             /\ IF pc[p] = "answer" THEN Choose(p, j) ELSE UNCHANGED <<pc, project>>
       \/ /\ live # {}
          /\ IF pc[p] = "answer" THEN Choose(p, FoundByName) ELSE UNCHANGED <<pc, project>>
          /\ UNCHANGED <<live, used>>
    /\ LockUnchanged /\ UNCHANGED <<state, faults>>

WriteState(p) ==
    /\ pc[p] = "writeState"
    /\ state' = project[p]
    /\ Goto(p, "release")
    /\ LockUnchanged /\ UNCHANGED <<live, used, posts, project, faults>>

(***************************************************************************)
(* Faults: a request fails or its answer is lost, a process is killed, a   *)
(* project is deleted or renamed in Neon.                                  *)
(***************************************************************************)
Fault == faults < MaxFaults /\ faults' = faults + 1

RequestFails(p) ==
    /\ pc[p] \in {"validate", "find", "answer"}
    /\ Fault
    /\ Choose(p, None)
    /\ LockUnchanged /\ UNCHANGED <<state, live, used, posts>>

Kill(p) ==
    /\ Alive(p)
    /\ Fault
    /\ Goto(p, "killed")
    /\ LockUnchanged /\ UNCHANGED <<state, live, used, posts, project>>

LoseProject(j) ==
    /\ j \in live
    /\ Fault
    /\ live' = live \ {j}
    /\ LockUnchanged /\ UNCHANGED <<state, used, posts, pc, project>>

Step(p) ==
    \/ Open(p) \/ ReadLock(p) \/ Probe(p) \/ Rename(p) \/ Reopen(p) \/ WritePid(p)
    \/ ReadState(p) \/ Validate(p) \/ Find(p) \/ Post(p) \/ WriteState(p) \/ Release(p)

Next ==
    \/ \E p \in Procs : Step(p) \/ Handle(p) \/ RequestFails(p) \/ Kill(p)
    \/ \E j \in Projects : LoseProject(j)

Spec == Init /\ [][Next]_vars

(***************************************************************************)
(* Properties.                                                             *)
(***************************************************************************)
Holders == {p \in Procs : pc[p] \in Acquired}

(* Only a takeover that renames a live process's lock breaks the lock:     *)
(* before that, locks of killed processes may be taken over any number of  *)
(* times and at most one process is between its open and its unlink, and   *)
(* the lock file is its own.                                               *)
TheftOnly == robbed = {} => \A p \in Holders : lock = p

Exclusive == robbed = {} => Cardinality(Holders) <= 1

LockInv == TypeOK /\ TheftOnly

(* No run overwrites the record of a project that still has the name with  *)
(* another one, that is, moves the Site to another database, unless the    *)
(* lock was broken.                                                        *)
StaysBound == [][live' = live /\ state \in live /\ robbed = {} => state' = state]_vars

(* Unless a project is lost or the lock broken, all runs that end well     *)
(* report one project to Pulumi, also when Neon allows several of a name   *)
(* and handles the POST of a killed or disappointed sender late.           *)
Reported(p) == pc[p] = "ended" /\ project[p] # None

Agreement ==
    live = used /\ robbed = {} =>
        \A p, q \in Procs : Reported(p) /\ Reported(q) => project[p] = project[q]

(* Where Neon refused every second project, a broken lock did no harm: all *)
(* runs report one project, and every run that got past the lock and ended *)
(* without one was killed or had a request of its own fail.  Losing a race *)
(* to a 409, to a run that stole the lock or to the late POST of a killed  *)
(* one, is no failure.                                                     *)
Unsuccessful(p) == pc[p] = "killed" \/ (pc[p] = "ended" /\ project[p] = None)

ConflictHarmless ==
    live = used /\ Cardinality(used) <= 1 =>
        /\ \A p, q \in Procs : Reported(p) /\ Reported(q) => project[p] = project[q]
        /\ Cardinality({p \in Procs : Unsuccessful(p)}) <= faults

(* Why: projects come from Neon; under an unbroken lock the record stays   *)
(* what the holder read, and once it names a project that is never lost,   *)
(* every run chooses that one; a run goes wrong by a fault of its own.     *)
FromNeon ==
    /\ IsFiniteSet(used)
    /\ state \in used \cup {None}
    /\ \A p \in Procs :
          /\ project[p] \in used \cup {None}
          /\ pc[p] = "validate" => state # None
          /\ pc[p] = "writeState" => project[p] # None

KnowsRecord ==
    robbed = {} =>
        \A p \in Procs :
            /\ pc[p] \in {"find", "post", "answer"} => state = None
            /\ pc[p] = "writeState" /\ state \in live => project[p] = state

Persisted ==
    live = used /\ robbed = {} =>
        \A p \in Procs : pc[p] \in {"release", "ended"} /\ project[p] # None => project[p] = state

Doomed == {p \in Procs : pc[p] = "killed" \/ (pc[p] \in {"release", "ended"} /\ project[p] = None)}

DoomedByFault ==
    /\ IsFiniteSet(Doomed)
    /\ live = used /\ Cardinality(used) <= 1 => Cardinality(Doomed) <= faults

ProjectInv == LockInv /\ FromNeon /\ KnowsRecord /\ Persisted /\ DoomedByFault

(* test/reconcile-neon-endpoint.test.ts:290 "recovers a lock left by a     *)
(* dead process but refuses a live lock".                                  *)
RefusesLiveLock == robbed = {}
=============================================================================
