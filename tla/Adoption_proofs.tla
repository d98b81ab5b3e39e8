-------------------------- MODULE Adoption_proofs --------------------------
(***************************************************************************)
(* The handover of Adoption, for every number of faults and with or        *)
(* without a prior route.  Its ports are safe for every operator: PortInv  *)
(* is inductive.  For an operator who rolls an unfinished apply back       *)
(* before the next, RecoveryInv is inductive with it; it says that every   *)
(* intent precedes its mutation, that what an apply overwrites has a       *)
(* backup, and how far a restore has got.  Each of its parts is preserved  *)
(* group by group of commands, one case for each command; a restore that   *)
(* is over has then put everything back, and one that was cut short is     *)
(* accepted again.                                                         *)
(***************************************************************************)
EXTENDS Adoption, TLAPS

Commands == ApplyCommands \cup RestoreCommands \cup {"idle", "trap", "cleanRetired"}

Running == ApplyCommands \cup RestoreCommands \cup {"trap"}

(* A host that differs in neither of the two Traefiks.                     *)
SameTraefiks(new) == new \in Hosts /\ new.edge = host.edge /\ new.legacy = host.legacy

(* Changing another field of the host leaves the two Traefiks alone.       *)
LEMMA OtherFields ==
  ASSUME host \in Hosts
  PROVE  /\ \A b \in BOOLEAN :
              /\ SameTraefiks([host EXCEPT !.stateBackup = b])
              /\ SameTraefiks([host EXCEPT !.routeBackup = b])
              /\ SameTraefiks([host EXCEPT !.network = b])
              /\ SameTraefiks([host EXCEPT !.attached = b])
         /\ \A d \in {"bare", "modes"} : SameTraefiks([host EXCEPT !.deploy = d])
         /\ \A m \in {"absent", "pending", "complete"} :
              SameTraefiks([host EXCEPT !.mapping = m])
         /\ \A f \in SUBSET EdgeFiles : SameTraefiks([host EXCEPT !.files = f])
         /\ \A r \in {"absent", "prior", "adopted"} : SameTraefiks([host EXCEPT !.route = r])
BY DEF SameTraefiks, Hosts

(* What a change of a Traefik's own field does.                            *)
LEMMA TraefikFields ==
  ASSUME host \in Hosts
  PROVE  /\ \A b \in BOOLEAN : /\ [host EXCEPT !.legacy = b] \in Hosts
                               /\ [host EXCEPT !.legacy = b].legacy = b
                               /\ [host EXCEPT !.legacy = b].edge = host.edge
         /\ \A e \in {"absent", "created", "running"} :
              /\ [host EXCEPT !.edge = e] \in Hosts
              /\ [host EXCEPT !.edge = e].edge = e
              /\ [host EXCEPT !.edge = e].legacy = host.legacy
BY DEF Hosts

(* A step of a running script that touches neither Traefik.                *)
LEMMA QuietChange ==
  ASSUME PortInv,
         NEW command \in Commands, NEW next \in Commands \ {"startLegacy", "startEdge"}, NEW new,
         ChangeHost(command, next, new), SameTraefiks(new),
         next \in Running => command \in Running,
         next \in EdgeIntended => command \in EdgeIntended
  PROVE  PortInv'
BY DEF PortInv, TypeOK, OnePortOwner, ChangeHost, SameTraefiks, Commands, Running

(* A step that only writes to the journal of a running script.             *)
LEMMA JournalChange ==
  ASSUME PortInv,
         NEW command \in ApplyCommands, NEW next \in (ApplyCommands \ {"startEdge"}) \cup {"idle"}, NEW new,
         SetJournal(command, next, new),
         new \in Journals, new.state # "none", journal.keys \subseteq new.keys,
         next \in EdgeIntended => "edge" \in new.keys
  PROVE  PortInv'
BY DEF PortInv, TypeOK, OnePortOwner, SetJournal, ApplyCommands, RestoreCommands

(* What the journal is after one of its fields is set.                     *)
LEMMA JournalFields ==
  ASSUME journal \in Journals
  PROVE  /\ \A k \in SUBSET Keys : /\ WithKeys(k) \in Journals
                                   /\ WithKeys(k).state = journal.state
                                   /\ WithKeys(k).keys = journal.keys \cup k
         /\ \A s \in {"prepared", "pending", "completing", "complete"} :
              /\ [journal EXCEPT !.state = s] \in Journals
              /\ [journal EXCEPT !.state = s].state = s
              /\ [journal EXCEPT !.state = s].keys = journal.keys
BY DEF WithKeys, Journals

(* The steps of an apply keep to the journal they began.                   *)
LEMMA ApplyPreserves ==
  ASSUME PortInv, Apply
  PROVE  PortInv'
<1>1. host \in Hosts /\ journal \in Journals
  BY DEF PortInv, TypeOK
<1>2. CASE Modes
  BY <1>2 DEF Modes, PortInv, TypeOK, OnePortOwner, ApplyCommands, EdgeIntended
<1>3. CASE Probe
  BY <1>3 DEF Probe, SetJournal, PortInv, TypeOK, OnePortOwner, ApplyCommands, EdgeIntended
<1>4. CASE RecordBackup \/ RecordPending \/ IntendEnv \/ IntendConfig \/ IntendAcme
           \/ IntendEdge \/ IntendAttach \/ RecordCompleting \/ RecordComplete
  <2>1. journal.state # "none"
    BY <1>4 DEF PortInv, RecordBackup, RecordPending, IntendEnv, IntendConfig, IntendAcme,
       IntendEdge, IntendAttach, RecordCompleting, RecordComplete, SetJournal, ApplyCommands
  <2>2. IntendAttach \/ RecordCompleting \/ RecordComplete => "edge" \in journal.keys
    BY DEF PortInv, IntendAttach, RecordCompleting, RecordComplete, SetJournal, EdgeIntended
  <2>3. \A k \in {{"stateBackup"}, {"env"}, {"static", "singbox"}, {"acme"}, {"attachment"},
                  {"network", "edge"}} : k \in SUBSET Keys
    BY DEF Keys, EdgeFiles
  <2>4. \A k \in {{"stateBackup"}, {"env"}, {"static", "singbox"}, {"acme"}, {"attachment"},
                  {"network", "edge"}} :
          /\ WithKeys(k) \in Journals
          /\ WithKeys(k).state # "none"
          /\ journal.keys \subseteq WithKeys(k).keys
          /\ k \subseteq WithKeys(k).keys
    BY <1>1, <2>1, <2>3, JournalFields
  <2>5. \A s \in {"prepared", "pending", "completing", "complete"} :
          /\ [journal EXCEPT !.state = s] \in Journals
          /\ [journal EXCEPT !.state = s].state # "none"
          /\ [journal EXCEPT !.state = s].keys = journal.keys
    BY <1>1, JournalFields
  <2>6. CASE RecordBackup
    BY <2>4, <2>6, JournalChange DEF RecordBackup, ApplyCommands, EdgeIntended
  <2>7. CASE IntendEnv
    BY <2>4, <2>7, JournalChange DEF IntendEnv, ApplyCommands, EdgeIntended
  <2>8. CASE IntendConfig
    BY <2>4, <2>8, JournalChange DEF IntendConfig, ApplyCommands, EdgeIntended
  <2>9. CASE IntendAcme
    BY <2>4, <2>9, JournalChange DEF IntendAcme, ApplyCommands, EdgeIntended
  <2>10. CASE IntendEdge
    <3>1. "edge" \in WithKeys({"network", "edge"}).keys
      BY <2>4
    <3> QED
      BY <2>4, <2>10, <3>1, JournalChange DEF IntendEdge, ApplyCommands
  <2>11. CASE IntendAttach
    <3>1. "edge" \in WithKeys({"attachment"}).keys
      BY <2>2, <2>4, <2>11
    <3> QED
      BY <2>4, <2>11, <3>1, JournalChange DEF IntendAttach, ApplyCommands
  <2>12. CASE RecordPending
    BY <2>5, <2>12, JournalChange DEF RecordPending, ApplyCommands, EdgeIntended
  <2>13. CASE RecordCompleting
    BY <2>2, <2>5, <2>13, JournalChange DEF RecordCompleting, ApplyCommands
  <2>14. CASE RecordComplete
    BY <2>2, <2>5, <2>14, JournalChange DEF RecordComplete, ApplyCommands
  <2> QED
    BY <1>4, <2>6, <2>7, <2>8, <2>9, <2>10, <2>11, <2>12, <2>13, <2>14
<1>5. CASE BackupState \/ AdoptModes \/ WritePending \/ WriteRoute \/ Attach
           \/ CreateNetwork \/ WriteComplete
  BY <1>1, <1>5, OtherFields, QuietChange
     DEF BackupState, AdoptModes, WritePending, WriteRoute, Attach, CreateNetwork,
     WriteComplete, Commands, Running, ApplyCommands, EdgeIntended
<1>6. CASE BackupRoute
  <2>1. journal.routePre \/ host.routeBackup \in BOOLEAN
    BY <1>1 DEF Hosts, Journals
  <2> QED
    BY <1>1, <1>6, <2>1, OtherFields, QuietChange
       DEF BackupRoute, Commands, Running, ApplyCommands, EdgeIntended
<1>7. CASE WriteEnv \/ WriteStatic \/ WriteSingbox \/ WriteAcme
  <2>1. \A f \in EdgeFiles : SameTraefiks(WithFile(f))
    BY <1>1, OtherFields DEF WithFile, Hosts
  <2> QED
    BY <1>7, <2>1, QuietChange DEF WriteEnv, WriteStatic, WriteSingbox, WriteAcme,
       Commands, Running, ApplyCommands, EdgeIntended, EdgeFiles
<1>8. CASE CreateEdge
  BY <1>1, <1>8, TraefikFields
     DEF CreateEdge, ChangeHost, PortInv, TypeOK, OnePortOwner, ApplyCommands, EdgeIntended
<1>9. CASE StopLegacy
  BY <1>1, <1>9, TraefikFields
     DEF StopLegacy, ChangeHost, PortInv, TypeOK, OnePortOwner, ApplyCommands, EdgeIntended
<1>10. CASE StartEdge
  BY <1>1, <1>10, TraefikFields
     DEF StartEdge, ChangeHost, PortInv, TypeOK, OnePortOwner, ApplyCommands, EdgeIntended
<1> QED
  BY <1>2, <1>3, <1>4, <1>5, <1>6, <1>7, <1>8, <1>9, <1>10 DEF Apply

(* A restore stops the Edge before it starts the legacy Traefik.           *)
LEMMA RestorePreserves ==
  ASSUME PortInv, Restore
  PROVE  PortInv'
<1>1. host \in Hosts /\ journal \in Journals
  BY DEF PortInv, TypeOK
<1>2. SameTraefiks(host)
  BY <1>1 DEF SameTraefiks
<1>3. CASE StopEdge
  <2>1. journal.state # "none" /\ pc' = "startLegacy" /\ UNCHANGED <<origin, careful, journal, faults>>
    BY <1>3 DEF StopEdge, ChangeHost, PortInv, RestoreCommands
  <2>2. host' \in Hosts /\ host'.edge # "running" /\ host'.legacy = host.legacy
    BY <1>1, <1>3, <2>1, TraefikFields DEF StopEdge, EdgeKnown, ChangeHost, PortInv
  <2>3. host'.edge # "absent" => host.edge # "absent"
    BY <1>3 DEF StopEdge, EdgeKnown, ChangeHost
  <2> QED
    BY <2>1, <2>2, <2>3 DEF PortInv, TypeOK, OnePortOwner, RestoreCommands, EdgeIntended
<1>4. CASE StartLegacy
  BY <1>1, <1>4, TraefikFields
     DEF StartLegacy, ChangeHost, PortInv, TypeOK, OnePortOwner, RestoreCommands, EdgeIntended
<1>5. CASE Disconnect \/ RemoveNetwork
  <2>1. \A b \in BOOLEAN : (host.attached /\ b) \in BOOLEAN /\ (host.network /\ b) \in BOOLEAN
    OBVIOUS
  <2> QED
    BY <1>1, <1>5, <2>1, OtherFields, QuietChange DEF Disconnect, RemoveNetwork, Commands, Running,
       RestoreCommands, EdgeIntended
<1>6. CASE RestoreRoute
  <2>1. SameTraefiks([host EXCEPT !.route = "prior", !.routeBackup = FALSE])
    BY <1>1 DEF SameTraefiks, Hosts
  <2> QED
    BY <1>1, <1>2, <1>6, <2>1, OtherFields, QuietChange DEF RestoreRoute, Commands, Running,
       RestoreCommands, EdgeIntended
<1>7. CASE RemoveFiles \/ RemoveAcme
  <2>1. \A k : SameTraefiks([host EXCEPT !.files = @ \ k])
    BY <1>1, OtherFields DEF Hosts
  <2> QED
    BY <1>2, <1>7, <2>1, QuietChange DEF RemoveFiles, RemoveAcme, Commands, Running,
       RestoreCommands, EdgeIntended
<1>8. CASE RemoveEdge
  <2>1. pc = "removeEdge" /\ pc' = "removeNetwork" /\ UNCHANGED <<origin, careful, journal, faults>>
    BY <1>8 DEF RemoveEdge, ChangeHost
  <2>2. host' \in Hosts /\ host'.legacy = host.legacy /\ host'.edge \in {"absent", host.edge}
    BY <1>1, <1>8, TraefikFields DEF RemoveEdge, ChangeHost
  <2> QED
    BY <2>1, <2>2 DEF PortInv, TypeOK, OnePortOwner, RestoreCommands, EdgeIntended
<1>9. CASE RestoreState \/ RemoveBackup \/ RemoveMapping
  BY <1>1, <1>2, <1>9, OtherFields, QuietChange DEF RestoreState, RemoveBackup, RemoveMapping,
     Commands, Running, RestoreCommands, EdgeIntended
<1> QED
  BY <1>3, <1>4, <1>5, <1>6, <1>7, <1>8, <1>9 DEF Restore

(* A new journal is begun only while there is no Edge, and a restore only  *)
(* with a journal.                                                         *)
LEMMA OperatorPreserves ==
  ASSUME PortInv, PreparePreview \/ StartApply \/ StartRollback \/ RetireJournal \/ CleanRetired
  PROVE  PortInv'
<1>1. host \in Hosts /\ journal \in Journals
  BY DEF PortInv, TypeOK
<1>2. CASE PreparePreview \/ CleanRetired
  BY <1>1, <1>2, OtherFields, QuietChange DEF PreparePreview, CleanRetired, Commands, Running,
     ApplyCommands, RestoreCommands, EdgeIntended
<1>3. CASE StartApply
  BY <1>3 DEF StartApply, ApplyAccepted, SetJournal, PortInv, TypeOK, OnePortOwner,
     ApplyCommands, EdgeIntended, Journals, Hosts, Keys
<1>4. CASE StartRollback
  BY <1>4 DEF StartRollback, RollbackAccepted, PairOk, PortInv, TypeOK, OnePortOwner,
     RestoreCommands, EdgeIntended
<1>5. CASE RetireJournal
  BY <1>5 DEF RetireJournal, NoJournal, SetJournal, PortInv, TypeOK, OnePortOwner,
     ApplyCommands, RestoreCommands, EdgeIntended, Journals
<1> QED
  BY <1>2, <1>3, <1>4, <1>5

(* Faults change neither the host nor the journal.                         *)
LEMMA FaultPreserves ==
  ASSUME PortInv, Fail \/ Trap \/ Kill
  PROVE  PortInv'
BY BoundAssumption DEF PortInv, TypeOK, OnePortOwner, ApplyCommands, RestoreCommands,
   EdgeIntended, Fail, Trap, Kill

(* The invariant of the handover holds whatever fails, is killed and is    *)
(* recovered or tried again.                                               *)
THEOREM PortInvHolds == Spec => []PortInv
<1>1. Init => PortInv
  <2> SUFFICES ASSUME Init
               PROVE  PortInv
    OBVIOUS
  <2>1. host \in Hosts /\ host.edge = "absent" /\ origin = host
    BY PriorRoutesAssumption DEF Init, Hosts, EdgeFiles
  <2> QED
    BY <2>1, BoundAssumption DEF Init, PortInv, TypeOK, OnePortOwner, Journals, NoJournal,
       ApplyCommands, RestoreCommands, EdgeIntended
<1>2. PortInv /\ [Next]_vars => PortInv'
  <2> SUFFICES ASSUME PortInv, [Next]_vars
               PROVE  PortInv'
    OBVIOUS
  <2>1. CASE UNCHANGED vars
    BY <2>1 DEF vars, PortInv, TypeOK, OnePortOwner
  <2> QED
    BY <2>1, ApplyPreserves, RestorePreserves, OperatorPreserves, FaultPreserves DEF Next
<1> QED
  BY <1>1, <1>2, PTL DEF Spec

(* The legacy Traefik and the Edge never both hold ports 80 and 443.       *)
THEOREM PortsSafe == Spec => []OnePortOwner
<1>1. PortInv => OnePortOwner
  BY DEF PortInv
<1> QED
  BY <1>1, PortInvHolds, PTL

(* The host as adoption found it, field by field.                          *)
SameFields ==
    /\ host.deploy = origin.deploy
    /\ host.files = origin.files
    /\ host.route = origin.route
    /\ host.network = origin.network
    /\ host.edge = origin.edge
    /\ host.attached = origin.attached
    /\ host.legacy = origin.legacy

(* That is what AsFound says, now and in the next state.                   *)
LEMMA AsFoundFields == TypeOK => (AsFound <=> SameFields)
BY DEF AsFound, SameFields, TypeOK, Hosts

(* The same of the next state.                                             *)
LEMMA AsFoundNext == TypeOK' => (AsFound' <=> SameFields')
BY AsFoundFields, PTL

(* A command that is not followed by one of a restore leaves a restore     *)
(* nothing to keep.                                                        *)
LEMMA NoRestore ==
  ASSUME pc' \notin RestoreCommands \ {"stopEdge", "startLegacy"}
  PROVE  RestoreInv'
BY DEF RestoreInv, RestoreCommands, LegacyBack, Detached, RouteBack, FilesGone,
   AcmeBack, EdgeGone, NetworkGone, StateBack

(* The journal and the mapping remain a pair a recovery accepts: the first *)
(* commands of an apply.                                                   *)
LEMMA PrepareJournal ==
  ASSUME PortInv, PortInv', RecoveryInv,
         Modes \/ BackupState \/ RecordBackup \/ AdoptModes \/ WritePending \/ RecordPending
  PROVE  JournalInv'
<1> TypeOK /\ TypeOK'
  BY DEF PortInv
<1> USE DEF ChangeHost, SetJournal, WithKeys, JournalInv, PairOk, Preparing, Staging,
   Completing, ApplyCommands, RestoreCommands, RecoveryInv, TypeOK, Hosts, Journals
<1>1. CASE Modes
  BY <1>1 DEF Modes
<1>2. CASE BackupState
  BY <1>2 DEF BackupState
<1>3. CASE RecordBackup
  BY <1>3 DEF RecordBackup
<1>4. CASE AdoptModes
  BY <1>4 DEF AdoptModes
<1>5. CASE WritePending
  BY <1>5 DEF WritePending
<1>6. CASE RecordPending
  BY <1>6 DEF RecordPending
<1> QED
  BY <1>1, <1>2, <1>3, <1>4, <1>5, <1>6

(* The journal and the mapping remain a pair a recovery accepts: the       *)
(* Edge's files.                                                           *)
LEMMA WriteJournal ==
  ASSUME PortInv, PortInv', RecoveryInv,
         IntendEnv \/ WriteEnv \/ IntendConfig \/ WriteStatic \/ WriteSingbox \/
             IntendAcme \/ WriteAcme
  PROVE  JournalInv'
<1> TypeOK /\ TypeOK'
  BY DEF PortInv
<1> USE DEF ChangeHost, SetJournal, WithKeys, WithFile, JournalInv, PairOk, Preparing,
   Staging, Completing, ApplyCommands, RestoreCommands, RecoveryInv, TypeOK, Hosts, Journals
<1>1. CASE IntendEnv
  BY <1>1 DEF IntendEnv
<1>2. CASE WriteEnv
  BY <1>2 DEF WriteEnv
<1>3. CASE IntendConfig
  BY <1>3 DEF IntendConfig
<1>4. CASE WriteStatic
  BY <1>4 DEF WriteStatic
<1>5. CASE WriteSingbox
  BY <1>5 DEF WriteSingbox
<1>6. CASE IntendAcme
  BY <1>6 DEF IntendAcme
<1>7. CASE WriteAcme
  BY <1>7 DEF WriteAcme
<1> QED
  BY <1>1, <1>2, <1>3, <1>4, <1>5, <1>6, <1>7

(* The journal and the mapping remain a pair a recovery accepts: the       *)
(* Edge's network, container and route.                                    *)
LEMMA CreateJournal ==
  ASSUME PortInv, PortInv', RecoveryInv,
         BackupRoute \/ IntendEdge \/ CreateNetwork \/ CreateEdge \/ IntendAttach \/
             Attach \/ WriteRoute
  PROVE  JournalInv'
<1> TypeOK /\ TypeOK'
  BY DEF PortInv
<1> USE DEF ChangeHost, SetJournal, WithKeys, JournalInv, PairOk, Preparing, Staging,
   Completing, ApplyCommands, RestoreCommands, RecoveryInv, TypeOK, Hosts, Journals
<1>1. CASE BackupRoute
  BY <1>1 DEF BackupRoute
<1>2. CASE IntendEdge
  BY <1>2 DEF IntendEdge
<1>3. CASE CreateNetwork
  BY <1>3 DEF CreateNetwork
<1>4. CASE CreateEdge
  BY <1>4 DEF CreateEdge
<1>5. CASE IntendAttach
  BY <1>5 DEF IntendAttach
<1>6. CASE Attach
  BY <1>6 DEF Attach
<1>7. CASE WriteRoute
  BY <1>7 DEF WriteRoute
<1> QED
  BY <1>1, <1>2, <1>3, <1>4, <1>5, <1>6, <1>7

(* The journal and the mapping remain a pair a recovery accepts: the       *)
(* handover of the ports.                                                  *)
LEMMA HandOverJournal ==
  ASSUME PortInv, PortInv', RecoveryInv,
         StopLegacy \/ StartEdge \/ Probe \/ RecordCompleting \/ WriteComplete \/
             RecordComplete
  PROVE  JournalInv'
<1> TypeOK /\ TypeOK'
  BY DEF PortInv
<1> USE DEF ChangeHost, SetJournal, JournalInv, PairOk, Preparing, Staging, Completing,
   ApplyCommands, RestoreCommands, RecoveryInv, TypeOK, Hosts, Journals
<1>1. CASE StopLegacy
  BY <1>1 DEF StopLegacy
<1>2. CASE StartEdge
  BY <1>2 DEF StartEdge
<1>3. CASE Probe
  BY <1>3 DEF Probe
<1>4. CASE RecordCompleting
  BY <1>4 DEF RecordCompleting
<1>5. CASE WriteComplete
  BY <1>5 DEF WriteComplete
<1>6. CASE RecordComplete
  BY <1>6 DEF RecordComplete
<1> QED
  BY <1>1, <1>2, <1>3, <1>4, <1>5, <1>6

(* The journal and the mapping remain a pair a recovery accepts: the first *)
(* half of a restore.                                                      *)
LEMMA UndoJournal ==
  ASSUME PortInv, PortInv', RecoveryInv,
         StopEdge \/ StartLegacy \/ Disconnect \/ RestoreRoute \/ RemoveFiles \/ RemoveAcme
  PROVE  JournalInv'
<1> TypeOK /\ TypeOK'
  BY DEF PortInv
<1> USE DEF ChangeHost, EdgeKnown, JournalInv, PairOk, Preparing, Staging, Completing,
   ApplyCommands, RestoreCommands, RecoveryInv, TypeOK, Hosts, Journals
<1>1. CASE StopEdge
  BY <1>1 DEF StopEdge
<1>2. CASE StartLegacy
  BY <1>2 DEF StartLegacy
<1>3. CASE Disconnect
  BY <1>3 DEF Disconnect
<1>4. CASE RestoreRoute
  BY <1>4 DEF RestoreRoute
<1>5. CASE RemoveFiles
  BY <1>5 DEF RemoveFiles
<1>6. CASE RemoveAcme
  BY <1>6 DEF RemoveAcme
<1> QED
  BY <1>1, <1>2, <1>3, <1>4, <1>5, <1>6

(* The journal and the mapping remain a pair a recovery accepts: the       *)
(* second half of a restore.                                               *)
LEMMA ClearJournal ==
  ASSUME PortInv, PortInv', RecoveryInv,
         RemoveEdge \/ RemoveNetwork \/ RestoreState \/ RemoveBackup \/ RemoveMapping
  PROVE  JournalInv'
<1> TypeOK /\ TypeOK'
  BY DEF PortInv
<1> USE DEF ChangeHost, EdgeKnown, OwnsBackup, JournalInv, PairOk, Preparing, Staging,
   Completing, ApplyCommands, RestoreCommands, RecoveryInv, TypeOK, Hosts, Journals
<1>1. CASE RemoveEdge
  BY <1>1 DEF RemoveEdge
<1>2. CASE RemoveNetwork
  BY <1>2 DEF RemoveNetwork
<1>3. CASE RestoreState
  BY <1>3 DEF RestoreState
<1>4. CASE RemoveBackup
  BY <1>4 DEF RemoveBackup
<1>5. CASE RemoveMapping
  BY AsFoundFields, AsFoundNext, <1>5 DEF RemoveMapping, SameFields, OriginInv, RestoreInv,
     LegacyBack, Detached, RouteBack, FilesGone, AcmeBack, EdgeGone, NetworkGone, StateBack
<1> QED
  BY <1>1, <1>2, <1>3, <1>4, <1>5

(* The journal and the mapping remain a pair a recovery accepts: the       *)
(* operator's commands.                                                    *)
LEMMA OperatorJournal ==
  ASSUME PortInv, PortInv', RecoveryInv, careful,
         PreparePreview \/ StartApply \/ StartRollback \/ RetireJournal \/ CleanRetired
  PROVE  JournalInv'
<1> TypeOK /\ TypeOK'
  BY DEF PortInv
<1> USE DEF ChangeHost, SetJournal, ApplyAccepted, RollbackAccepted, OwnedResources,
   NoJournal, JournalInv, PairOk, Preparing, Staging, Completing, ApplyCommands,
   RestoreCommands, RecoveryInv, TypeOK, Hosts, Journals
<1>1. CASE PreparePreview
  BY AsFoundFields, AsFoundNext, <1>1 DEF PreparePreview, SameFields
<1>2. CASE StartApply
  BY AsFoundFields, AsFoundNext, <1>2 DEF StartApply, SameFields
<1>3. CASE StartRollback
  BY <1>3 DEF StartRollback
<1>4. CASE RetireJournal
  BY <1>4 DEF RetireJournal
<1>5. CASE CleanRetired
  BY <1>5 DEF CleanRetired
<1> QED
  BY <1>1, <1>2, <1>3, <1>4, <1>5

(* The journal and the mapping remain a pair a recovery accepts: faults.   *)
LEMMA FaultJournal ==
  ASSUME PortInv, PortInv', RecoveryInv,
         Fail \/ Trap \/ Kill
  PROVE  JournalInv'
<1> TypeOK /\ TypeOK'
  BY DEF PortInv
<1> USE DEF RollbackAccepted, OwnedResources, JournalInv, PairOk, Preparing, Staging,
   Completing, ApplyCommands, RestoreCommands, RecoveryInv, TypeOK, Hosts, Journals
<1>1. CASE Fail
  BY <1>1 DEF Fail
<1>2. CASE Trap
  BY <1>2 DEF Trap
<1>3. CASE Kill
  BY AsFoundFields, AsFoundNext, <1>3 DEF Kill, SameFields
<1> QED
  BY <1>1, <1>2, <1>3

(* Every intent is in the journal before its mutation: the first commands  *)
(* of an apply.                                                            *)
LEMMA PrepareIntent ==
  ASSUME PortInv, PortInv', RecoveryInv,
         Modes \/ BackupState \/ RecordBackup \/ AdoptModes \/ WritePending \/ RecordPending
  PROVE  IntentInv'
<1> TypeOK /\ TypeOK'
  BY DEF PortInv
<1> USE DEF ChangeHost, SetJournal, WithKeys, IntentInv, OriginInv, JournalInv, Preparing,
   Staging, Completing, ApplyCommands, RestoreCommands, RecoveryInv, TypeOK, Hosts, Journals
<1>1. CASE Modes
  BY <1>1 DEF Modes
<1>2. CASE BackupState
  BY <1>2 DEF BackupState
<1>3. CASE RecordBackup
  BY <1>3 DEF RecordBackup
<1>4. CASE AdoptModes
  BY <1>4 DEF AdoptModes
<1>5. CASE WritePending
  BY <1>5 DEF WritePending
<1>6. CASE RecordPending
  BY <1>6 DEF RecordPending
<1> QED
  BY <1>1, <1>2, <1>3, <1>4, <1>5, <1>6

(* Every intent is in the journal before its mutation: the Edge's files.   *)
LEMMA WriteIntent ==
  ASSUME PortInv, PortInv', RecoveryInv,
         IntendEnv \/ WriteEnv \/ IntendConfig \/ WriteStatic \/ WriteSingbox \/
             IntendAcme \/ WriteAcme
  PROVE  IntentInv'
<1> TypeOK /\ TypeOK'
  BY DEF PortInv
<1> USE DEF ChangeHost, SetJournal, WithKeys, WithFile, IntentInv, OriginInv, JournalInv,
   Preparing, Staging, Completing, ApplyCommands, RestoreCommands, RecoveryInv, TypeOK,
   Hosts, Journals
<1>1. CASE IntendEnv
  BY <1>1 DEF IntendEnv
<1>2. CASE WriteEnv
  BY <1>2 DEF WriteEnv
<1>3. CASE IntendConfig
  BY <1>3 DEF IntendConfig
<1>4. CASE WriteStatic
  BY <1>4 DEF WriteStatic
<1>5. CASE WriteSingbox
  BY <1>5 DEF WriteSingbox
<1>6. CASE IntendAcme
  BY <1>6 DEF IntendAcme
<1>7. CASE WriteAcme
  BY <1>7 DEF WriteAcme
<1> QED
  BY <1>1, <1>2, <1>3, <1>4, <1>5, <1>6, <1>7

(* Every intent is in the journal before its mutation: the Edge's network, *)
(* container and route.                                                    *)
LEMMA CreateIntent ==
  ASSUME PortInv, PortInv', RecoveryInv,
         BackupRoute \/ IntendEdge \/ CreateNetwork \/ CreateEdge \/ IntendAttach \/
             Attach \/ WriteRoute
  PROVE  IntentInv'
<1> TypeOK /\ TypeOK'
  BY DEF PortInv
<1> USE DEF ChangeHost, SetJournal, WithKeys, IntentInv, OriginInv, JournalInv, Preparing,
   Staging, Completing, ApplyCommands, RestoreCommands, RecoveryInv, TypeOK, Hosts, Journals
<1>1. CASE BackupRoute
  BY <1>1 DEF BackupRoute
<1>2. CASE IntendEdge
  BY <1>2 DEF IntendEdge
<1>3. CASE CreateNetwork
  BY <1>3 DEF CreateNetwork
<1>4. CASE CreateEdge
  BY <1>4 DEF CreateEdge
<1>5. CASE IntendAttach
  BY <1>5 DEF IntendAttach
<1>6. CASE Attach
  BY <1>6 DEF Attach
<1>7. CASE WriteRoute
  BY <1>7 DEF WriteRoute
<1> QED
  BY <1>1, <1>2, <1>3, <1>4, <1>5, <1>6, <1>7

(* Every intent is in the journal before its mutation: the handover of the *)
(* ports.                                                                  *)
LEMMA HandOverIntent ==
  ASSUME PortInv, PortInv', RecoveryInv,
         StopLegacy \/ StartEdge \/ Probe \/ RecordCompleting \/ WriteComplete \/
             RecordComplete
  PROVE  IntentInv'
<1> TypeOK /\ TypeOK'
  BY DEF PortInv
<1> USE DEF ChangeHost, SetJournal, IntentInv, OriginInv, JournalInv, Preparing, Staging,
   Completing, ApplyCommands, RestoreCommands, RecoveryInv, TypeOK, Hosts, Journals
<1>1. CASE StopLegacy
  BY <1>1 DEF StopLegacy
<1>2. CASE StartEdge
  BY <1>2 DEF StartEdge
<1>3. CASE Probe
  BY <1>3 DEF Probe
<1>4. CASE RecordCompleting
  BY <1>4 DEF RecordCompleting
<1>5. CASE WriteComplete
  BY <1>5 DEF WriteComplete
<1>6. CASE RecordComplete
  BY <1>6 DEF RecordComplete
<1> QED
  BY <1>1, <1>2, <1>3, <1>4, <1>5, <1>6

(* Every intent is in the journal before its mutation: the first half of a *)
(* restore.                                                                *)
LEMMA UndoIntent ==
  ASSUME PortInv, PortInv', RecoveryInv,
         StopEdge \/ StartLegacy \/ Disconnect \/ RestoreRoute \/ RemoveFiles \/ RemoveAcme
  PROVE  IntentInv'
<1> TypeOK /\ TypeOK'
  BY DEF PortInv
<1> USE DEF ChangeHost, EdgeKnown, IntentInv, OriginInv, JournalInv, Preparing, Staging,
   Completing, ApplyCommands, RestoreCommands, RecoveryInv, TypeOK, Hosts, Journals
<1>1. CASE StopEdge
  BY <1>1 DEF StopEdge
<1>2. CASE StartLegacy
  BY <1>2 DEF StartLegacy
<1>3. CASE Disconnect
  BY <1>3 DEF Disconnect
<1>4. CASE RestoreRoute
  BY <1>4 DEF RestoreRoute
<1>5. CASE RemoveFiles
  BY <1>5 DEF RemoveFiles
<1>6. CASE RemoveAcme
  BY <1>6 DEF RemoveAcme
<1> QED
  BY <1>1, <1>2, <1>3, <1>4, <1>5, <1>6

(* Every intent is in the journal before its mutation: the second half of  *)
(* a restore.                                                              *)
LEMMA ClearIntent ==
  ASSUME PortInv, PortInv', RecoveryInv,
         RemoveEdge \/ RemoveNetwork \/ RestoreState \/ RemoveBackup \/ RemoveMapping
  PROVE  IntentInv'
<1> TypeOK /\ TypeOK'
  BY DEF PortInv
<1> USE DEF ChangeHost, EdgeKnown, OwnsBackup, IntentInv, OriginInv, JournalInv, Preparing,
   Staging, Completing, ApplyCommands, RestoreCommands, RecoveryInv, TypeOK, Hosts, Journals
<1>1. CASE RemoveEdge
  BY <1>1 DEF RemoveEdge
<1>2. CASE RemoveNetwork
  BY <1>2 DEF RemoveNetwork
<1>3. CASE RestoreState
  BY <1>3 DEF RestoreState
<1>4. CASE RemoveBackup
  BY <1>4 DEF RemoveBackup
<1>5. CASE RemoveMapping
  BY <1>5 DEF RemoveMapping
<1> QED
  BY <1>1, <1>2, <1>3, <1>4, <1>5

(* Every intent is in the journal before its mutation: the operator's      *)
(* commands.                                                               *)
LEMMA OperatorIntent ==
  ASSUME PortInv, PortInv', RecoveryInv, careful,
         PreparePreview \/ StartApply \/ StartRollback \/ RetireJournal \/ CleanRetired
  PROVE  IntentInv'
<1> TypeOK /\ TypeOK'
  BY DEF PortInv
<1> USE DEF ChangeHost, SetJournal, ApplyAccepted, RollbackAccepted, OwnedResources,
   NoJournal, IntentInv, OriginInv, JournalInv, Preparing, Staging, Completing,
   ApplyCommands, RestoreCommands, RecoveryInv, TypeOK, Hosts, Journals
<1>1. CASE PreparePreview
  BY <1>1 DEF PreparePreview
<1>2. CASE StartApply
  BY AsFoundFields, AsFoundNext, <1>2 DEF StartApply, SameFields
<1>3. CASE StartRollback
  BY <1>3 DEF StartRollback
<1>4. CASE RetireJournal
  BY <1>4 DEF RetireJournal
<1>5. CASE CleanRetired
  BY <1>5 DEF CleanRetired
<1> QED
  BY <1>1, <1>2, <1>3, <1>4, <1>5

(* Every intent is in the journal before its mutation: faults.             *)
LEMMA FaultIntent ==
  ASSUME PortInv, PortInv', RecoveryInv,
         Fail \/ Trap \/ Kill
  PROVE  IntentInv'
<1> TypeOK /\ TypeOK'
  BY DEF PortInv
<1> USE DEF RollbackAccepted, OwnedResources, IntentInv, OriginInv, JournalInv, Preparing,
   Staging, Completing, ApplyCommands, RestoreCommands, RecoveryInv, TypeOK, Hosts, Journals
<1>1. CASE Fail
  BY <1>1 DEF Fail
<1>2. CASE Trap
  BY <1>2 DEF Trap
<1>3. CASE Kill
  BY <1>3 DEF Kill
<1> QED
  BY <1>1, <1>2, <1>3

(* What the host had before is kept or backed up: the first commands of an *)
(* apply.                                                                  *)
LEMMA PrepareBackup ==
  ASSUME PortInv, PortInv', RecoveryInv,
         Modes \/ BackupState \/ RecordBackup \/ AdoptModes \/ WritePending \/ RecordPending
  PROVE  BackupInv'
<1> TypeOK /\ TypeOK'
  BY DEF PortInv
<1> USE DEF ChangeHost, SetJournal, WithKeys, BackupInv, IntentInv, JournalInv, OriginInv,
   Preparing, Staging, Completing, ApplyCommands, EdgeIntended, RecoveryInv, TypeOK, Hosts,
   Journals
<1>1. CASE Modes
  BY <1>1 DEF Modes
<1>2. CASE BackupState
  BY <1>2 DEF BackupState
<1>3. CASE RecordBackup
  BY <1>3 DEF RecordBackup
<1>4. CASE AdoptModes
  BY <1>4 DEF AdoptModes
<1>5. CASE WritePending
  BY <1>5 DEF WritePending
<1>6. CASE RecordPending
  BY <1>6 DEF RecordPending
<1> QED
  BY <1>1, <1>2, <1>3, <1>4, <1>5, <1>6

(* What the host had before is kept or backed up: the Edge's files.        *)
LEMMA WriteBackup ==
  ASSUME PortInv, PortInv', RecoveryInv,
         IntendEnv \/ WriteEnv \/ IntendConfig \/ WriteStatic \/ WriteSingbox \/
             IntendAcme \/ WriteAcme
  PROVE  BackupInv'
<1> TypeOK /\ TypeOK'
  BY DEF PortInv
<1> USE DEF ChangeHost, SetJournal, WithKeys, WithFile, BackupInv, IntentInv, JournalInv,
   OriginInv, Preparing, Staging, Completing, ApplyCommands, EdgeIntended, RecoveryInv,
   TypeOK, Hosts, Journals
<1>1. CASE IntendEnv
  BY <1>1 DEF IntendEnv
<1>2. CASE WriteEnv
  BY <1>2 DEF WriteEnv
<1>3. CASE IntendConfig
  BY <1>3 DEF IntendConfig
<1>4. CASE WriteStatic
  BY <1>4 DEF WriteStatic
<1>5. CASE WriteSingbox
  BY <1>5 DEF WriteSingbox
<1>6. CASE IntendAcme
  BY <1>6 DEF IntendAcme
<1>7. CASE WriteAcme
  BY <1>7 DEF WriteAcme
<1> QED
  BY <1>1, <1>2, <1>3, <1>4, <1>5, <1>6, <1>7

(* What the host had before is kept or backed up: the Edge's network,      *)
(* container and route.                                                    *)
LEMMA CreateBackup ==
  ASSUME PortInv, PortInv', RecoveryInv,
         BackupRoute \/ IntendEdge \/ CreateNetwork \/ CreateEdge \/ IntendAttach \/
             Attach \/ WriteRoute
  PROVE  BackupInv'
<1> TypeOK /\ TypeOK'
  BY DEF PortInv
<1> USE DEF ChangeHost, SetJournal, WithKeys, BackupInv, IntentInv, JournalInv, OriginInv,
   Preparing, Staging, Completing, ApplyCommands, EdgeIntended, RecoveryInv, TypeOK, Hosts,
   Journals
<1>1. CASE BackupRoute
  BY <1>1 DEF BackupRoute
<1>2. CASE IntendEdge
  BY <1>2 DEF IntendEdge
<1>3. CASE CreateNetwork
  BY <1>3 DEF CreateNetwork
<1>4. CASE CreateEdge
  BY <1>4 DEF CreateEdge
<1>5. CASE IntendAttach
  BY <1>5 DEF IntendAttach
<1>6. CASE Attach
  BY <1>6 DEF Attach
<1>7. CASE WriteRoute
  BY <1>7 DEF WriteRoute
<1> QED
  BY <1>1, <1>2, <1>3, <1>4, <1>5, <1>6, <1>7

(* What the host had before is kept or backed up: the handover of the      *)
(* ports.                                                                  *)
LEMMA HandOverBackup ==
  ASSUME PortInv, PortInv', RecoveryInv,
         StopLegacy \/ StartEdge \/ Probe \/ RecordCompleting \/ WriteComplete \/
             RecordComplete
  PROVE  BackupInv'
<1> TypeOK /\ TypeOK'
  BY DEF PortInv
<1> USE DEF ChangeHost, SetJournal, BackupInv, IntentInv, JournalInv, OriginInv, Preparing,
   Staging, Completing, ApplyCommands, EdgeIntended, RecoveryInv, TypeOK, Hosts, Journals
<1>1. CASE StopLegacy
  BY <1>1 DEF StopLegacy
<1>2. CASE StartEdge
  BY <1>2 DEF StartEdge
<1>3. CASE Probe
  BY <1>3 DEF Probe
<1>4. CASE RecordCompleting
  BY <1>4 DEF RecordCompleting
<1>5. CASE WriteComplete
  BY <1>5 DEF WriteComplete
<1>6. CASE RecordComplete
  BY <1>6 DEF RecordComplete
<1> QED
  BY <1>1, <1>2, <1>3, <1>4, <1>5, <1>6

(* What the host had before is kept or backed up: the first half of a      *)
(* restore.                                                                *)
LEMMA UndoBackup ==
  ASSUME PortInv, PortInv', RecoveryInv,
         StopEdge \/ StartLegacy \/ Disconnect \/ RestoreRoute \/ RemoveFiles \/ RemoveAcme
  PROVE  BackupInv'
<1> TypeOK /\ TypeOK'
  BY DEF PortInv
<1> USE DEF ChangeHost, EdgeKnown, BackupInv, IntentInv, JournalInv, OriginInv, Preparing,
   Staging, Completing, ApplyCommands, EdgeIntended, RecoveryInv, TypeOK, Hosts, Journals
<1>1. CASE StopEdge
  BY <1>1 DEF StopEdge
<1>2. CASE StartLegacy
  BY <1>2 DEF StartLegacy
<1>3. CASE Disconnect
  BY <1>3 DEF Disconnect
<1>4. CASE RestoreRoute
  BY <1>4 DEF RestoreRoute
<1>5. CASE RemoveFiles
  BY <1>5 DEF RemoveFiles
<1>6. CASE RemoveAcme
  BY <1>6 DEF RemoveAcme
<1> QED
  BY <1>1, <1>2, <1>3, <1>4, <1>5, <1>6

(* What the host had before is kept or backed up: the second half of a     *)
(* restore.                                                                *)
LEMMA ClearBackup ==
  ASSUME PortInv, PortInv', RecoveryInv,
         RemoveEdge \/ RemoveNetwork \/ RestoreState \/ RemoveBackup \/ RemoveMapping
  PROVE  BackupInv'
<1> TypeOK /\ TypeOK'
  BY DEF PortInv
<1> USE DEF ChangeHost, EdgeKnown, OwnsBackup, BackupInv, IntentInv, JournalInv, OriginInv,
   Preparing, Staging, Completing, ApplyCommands, EdgeIntended, RecoveryInv, TypeOK, Hosts,
   Journals
<1>1. CASE RemoveEdge
  BY <1>1 DEF RemoveEdge
<1>2. CASE RemoveNetwork
  BY <1>2 DEF RemoveNetwork
<1>3. CASE RestoreState
  BY <1>3 DEF RestoreState
<1>4. CASE RemoveBackup
  BY <1>4 DEF RemoveBackup, RestoreInv, StateBack
<1>5. CASE RemoveMapping
  BY <1>5 DEF RemoveMapping
<1> QED
  BY <1>1, <1>2, <1>3, <1>4, <1>5

(* What the host had before is kept or backed up: the operator's commands. *)
LEMMA OperatorBackup ==
  ASSUME PortInv, PortInv', RecoveryInv, careful,
         PreparePreview \/ StartApply \/ StartRollback \/ RetireJournal \/ CleanRetired
  PROVE  BackupInv'
<1> TypeOK /\ TypeOK'
  BY DEF PortInv
<1> USE DEF ChangeHost, SetJournal, ApplyAccepted, RollbackAccepted, OwnedResources,
   NoJournal, BackupInv, IntentInv, JournalInv, OriginInv, Preparing, Staging, Completing,
   ApplyCommands, EdgeIntended, RecoveryInv, TypeOK, Hosts, Journals
<1>1. CASE PreparePreview
  BY <1>1 DEF PreparePreview
<1>2. CASE StartApply
  BY AsFoundFields, AsFoundNext, <1>2 DEF StartApply, SameFields
<1>3. CASE StartRollback
  BY <1>3 DEF StartRollback
<1>4. CASE RetireJournal
  BY <1>4 DEF RetireJournal
<1>5. CASE CleanRetired
  BY <1>5 DEF CleanRetired
<1> QED
  BY <1>1, <1>2, <1>3, <1>4, <1>5

(* What the host had before is kept or backed up: faults.                  *)
LEMMA FaultBackup ==
  ASSUME PortInv, PortInv', RecoveryInv,
         Fail \/ Trap \/ Kill
  PROVE  BackupInv'
<1> TypeOK /\ TypeOK'
  BY DEF PortInv
<1> USE DEF RollbackAccepted, OwnedResources, BackupInv, IntentInv, JournalInv, OriginInv,
   Preparing, Staging, Completing, ApplyCommands, EdgeIntended, RecoveryInv, TypeOK, Hosts,
   Journals
<1>1. CASE Fail
  BY <1>1 DEF Fail
<1>2. CASE Trap
  BY <1>2 DEF Trap
<1>3. CASE Kill
  BY <1>3 DEF Kill
<1> QED
  BY <1>1, <1>2, <1>3

(* What a restore has put back stays so: the first half of a restore.      *)
LEMMA UndoRestored ==
  ASSUME PortInv, PortInv', RecoveryInv,
         StopEdge \/ StartLegacy \/ Disconnect \/ RestoreRoute \/ RemoveFiles \/ RemoveAcme
  PROVE  RestoreInv'
<1> TypeOK /\ TypeOK'
  BY DEF PortInv
<1> USE DEF ChangeHost, EdgeKnown, RestoreInv, LegacyBack, Detached, RouteBack, FilesGone,
   AcmeBack, EdgeGone, NetworkGone, StateBack, JournalInv, IntentInv, BackupInv, OriginInv,
   PortInv, RecoveryInv, TypeOK, Hosts, Journals
<1>1. CASE StopEdge
  BY <1>1 DEF StopEdge
<1>2. CASE StartLegacy
  BY <1>2 DEF StartLegacy
<1>3. CASE Disconnect
  BY <1>3 DEF Disconnect
<1>4. CASE RestoreRoute
  BY <1>4 DEF RestoreRoute
<1>5. CASE RemoveFiles
  BY <1>5 DEF RemoveFiles
<1>6. CASE RemoveAcme
  <2>1. pc = "removeAcme" /\ pc' = "removeEdge" /\ origin' = origin /\ origin \in Hosts
    BY <1>6 DEF RemoveAcme
  <2>2. /\ journal.acmePre <=> "acme" \in origin.files
        /\ host.files \ origin.files \subseteq journal.keys
        /\ origin.files \subseteq host.files
        /\ host.files \subseteq {"acme"}
        /\ host.legacy /\ ~host.attached /\ host.route = origin.route
    BY <2>1
  <2>3. host' = [host EXCEPT !.files = host'.files]
    BY <1>6 DEF RemoveAcme
  <2>4. host'.files = origin.files
    <3>1. CASE "acme" \in journal.keys /\ ~journal.acmePre
      BY <1>6, <2>2, <3>1 DEF RemoveAcme
    <3>2. CASE ~("acme" \in journal.keys /\ ~journal.acmePre)
      BY <1>6, <2>2, <3>2 DEF RemoveAcme
    <3> QED
      BY <3>1, <3>2
  <2> QED
    BY <2>1, <2>2, <2>3, <2>4
<1> QED
  BY <1>1, <1>2, <1>3, <1>4, <1>5, <1>6

(* What a restore has put back stays so: the second half of a restore.     *)
LEMMA ClearRestored ==
  ASSUME PortInv, PortInv', RecoveryInv,
         RemoveEdge \/ RemoveNetwork \/ RestoreState \/ RemoveBackup \/ RemoveMapping
  PROVE  RestoreInv'
<1> TypeOK /\ TypeOK'
  BY DEF PortInv
<1> USE DEF ChangeHost, EdgeKnown, OwnsBackup, RestoreInv, LegacyBack, Detached, RouteBack,
   FilesGone, AcmeBack, EdgeGone, NetworkGone, StateBack, JournalInv, IntentInv, BackupInv,
   OriginInv, PortInv, RecoveryInv, TypeOK, Hosts, Journals
<1>1. CASE RemoveEdge
  BY <1>1 DEF RemoveEdge
<1>2. CASE RemoveNetwork
  BY <1>2 DEF RemoveNetwork
<1>3. CASE RestoreState
  BY <1>3 DEF RestoreState
<1>4. CASE RemoveBackup
  BY <1>4 DEF RemoveBackup
<1>5. CASE RemoveMapping
  BY <1>5 DEF RemoveMapping
<1> QED
  BY <1>1, <1>2, <1>3, <1>4, <1>5

(* Faults and the operator's steps leave no restore in progress but one    *)
(* that begins.                                                            *)
LEMMA FaultRestored ==
  ASSUME Fail \/ Trap \/ Kill
  PROVE  RestoreInv'
BY NoRestore DEF Fail, Trap, Kill, RestoreCommands

(* The operator stays the one he is.                                       *)
LEMMA CarefulStays ==
  ASSUME Next
  PROVE  careful' = careful /\ origin' = origin
BY DEF Next, PreparePreview, StartApply, StartRollback, RetireJournal, Apply, Modes, BackupState,
   RecordBackup, AdoptModes, WritePending, RecordPending, IntendEnv, WriteEnv, IntendConfig,
   WriteStatic, WriteSingbox, IntendAcme, WriteAcme, BackupRoute, IntendEdge, CreateNetwork,
   CreateEdge, IntendAttach, Attach, WriteRoute, StopLegacy, StartEdge, Probe,
   RecordCompleting, WriteComplete, RecordComplete, Fail, Trap, Restore, StopEdge,
   StartLegacy, Disconnect, RestoreRoute, RemoveFiles, RemoveAcme, RemoveEdge, RemoveNetwork,
   RestoreState, RemoveBackup, RemoveMapping, CleanRetired, Kill, ChangeHost, SetJournal

(* Hence the host of before stays what it was.                             *)
LEMMA OriginStays ==
  ASSUME OriginInv, Next
  PROVE  OriginInv'
BY CarefulStays DEF OriginInv

(* A careful operator's steps keep every part of the recovery invariant.   *)
LEMMA ApplyRecovers ==
  ASSUME PortInv, PortInv', RecoveryInv, Apply
  PROVE  RecoveryInv'
<1>1. pc' \in ApplyCommands \cup {"idle"}
  BY DEF Apply, ChangeHost, SetJournal, ApplyCommands, Modes, BackupState, RecordBackup,
     AdoptModes, WritePending, RecordPending, IntendEnv, WriteEnv, IntendConfig, WriteStatic,
     WriteSingbox, IntendAcme, WriteAcme, BackupRoute, IntendEdge, CreateNetwork, CreateEdge,
     IntendAttach, Attach, WriteRoute, StopLegacy, StartEdge, Probe, RecordCompleting,
     WriteComplete, RecordComplete
<1>2. OriginInv'
  BY OriginStays DEF Next, RecoveryInv
<1>3. RestoreInv'
  BY <1>1, NoRestore DEF ApplyCommands, RestoreCommands
<1>4. JournalInv' /\ IntentInv' /\ BackupInv'
  BY PrepareJournal, PrepareIntent, PrepareBackup, WriteJournal, WriteIntent, WriteBackup,
     CreateJournal, CreateIntent, CreateBackup, HandOverJournal, HandOverIntent,
     HandOverBackup DEF Apply
<1> QED
  BY <1>2, <1>3, <1>4 DEF RecoveryInv

(* So do the commands of a restore.                                        *)
LEMMA RestoreRecovers ==
  ASSUME PortInv, PortInv', RecoveryInv, Restore
  PROVE  RecoveryInv'
<1>1. OriginInv'
  BY OriginStays DEF Next, RecoveryInv
<1>2. JournalInv' /\ IntentInv' /\ BackupInv' /\ RestoreInv'
  BY UndoJournal, UndoIntent, UndoBackup, UndoRestored, ClearJournal, ClearIntent,
     ClearBackup, ClearRestored DEF Restore
<1> QED
  BY <1>1, <1>2 DEF RecoveryInv

(* And the operator's commands and the faults.                             *)
LEMMA OperatorRecovers ==
  ASSUME PortInv, PortInv', RecoveryInv, careful,
         \/ PreparePreview \/ StartApply \/ StartRollback \/ RetireJournal \/ CleanRetired
         \/ Fail \/ Trap \/ Kill
  PROVE  RecoveryInv'
<1>1. OriginInv'
  BY OriginStays DEF Next, RecoveryInv
<1>2. RestoreInv'
  <2>1. CASE Fail \/ Trap \/ Kill
    BY <2>1, FaultRestored
  <2>2. CASE ~(Fail \/ Trap \/ Kill)
    BY <2>2, NoRestore DEF PreparePreview, StartApply, StartRollback, RetireJournal,
       CleanRetired, ChangeHost, SetJournal, RestoreCommands
  <2> QED
    BY <2>1, <2>2
<1>3. JournalInv' /\ IntentInv' /\ BackupInv'
  BY OperatorJournal, OperatorIntent, OperatorBackup, FaultJournal, FaultIntent, FaultBackup
<1> QED
  BY <1>1, <1>2, <1>3 DEF RecoveryInv

(* Before any adoption there is no journal, and nothing to recover.        *)
LEMMA InitRecovers ==
  ASSUME Init
  PROVE  RecoveryInv
<1>1. OriginInv
  BY PriorRoutesAssumption DEF Init, OriginInv
<1>2. AsFound
  BY DEF Init, AsFound
<1>3. journal.state = "none" /\ pc = "idle"
  BY DEF Init, NoJournal
<1>4. JournalInv
  BY <1>2, <1>3 DEF JournalInv, Preparing, Staging, Completing, ApplyCommands
<1>5. RestoreInv
  BY <1>3 DEF RestoreInv, LegacyBack, Detached, RouteBack, FilesGone, AcmeBack, EdgeGone,
     NetworkGone, StateBack
<1> QED
  BY <1>1, <1>3, <1>4, <1>5 DEF RecoveryInv, IntentInv, BackupInv

(* The whole invariant of an adoption holds, whatever fails, is killed, is *)
(* rolled back or is tried again.                                          *)
THEOREM AdoptionInvHolds == Spec => []AdoptionInv
<1>1. Init => (careful => RecoveryInv)
  BY InitRecovers
<1>2. PortInv /\ PortInv' /\ (careful => RecoveryInv) /\ [Next]_vars => (careful => RecoveryInv)'
  <2> SUFFICES ASSUME PortInv, PortInv', careful => RecoveryInv, [Next]_vars, careful'
               PROVE  RecoveryInv'
    OBVIOUS
  <2>1. CASE UNCHANGED vars
    BY <2>1 DEF vars, RecoveryInv, OriginInv, JournalInv, PairOk, AsFound, IntentInv,
       BackupInv, RestoreInv
  <2>2. CASE Next
    <3>1. careful
      BY <2>2, CarefulStays
    <3> QED
      BY <2>2, <3>1, ApplyRecovers, RestoreRecovers, OperatorRecovers DEF Next
  <2> QED
    BY <2>1, <2>2
<1>3. AdoptionInv <=> PortInv /\ (careful => RecoveryInv)
  BY DEF AdoptionInv
<1> QED
  BY <1>1, <1>2, <1>3, PortInvHolds, PTL DEF Spec

(* Until the finished journal is retired, what is on the host beyond what  *)
(* adoption found is in the journal: each intent is written first.         *)
THEOREM IntentFirstHolds == Spec => []IntentFirst
<1>1. AdoptionInv => IntentFirst
  <2> SUFFICES ASSUME PortInv, RecoveryInv, ~(HandedOver /\ journal.state = "none")
               PROVE  /\ host.network => "network" \in journal.keys
                      /\ host.edge # "absent" => "edge" \in journal.keys
                      /\ host.attached => "attachment" \in journal.keys
                      /\ host.files \ origin.files \subseteq journal.keys
                      /\ ~host.legacy => journal.state \in {"pending", "completing", "complete"}
    BY DEF AdoptionInv, IntentFirst
  <2>1. CASE journal.state = "none"
    <3>1. AsFound /\ OriginInv
      BY <2>1 DEF RecoveryInv, JournalInv, HandedOver
    <3>2. SameFields
      BY <3>1, AsFoundFields DEF PortInv
    <3> QED
      BY <3>1, <3>2 DEF SameFields, OriginInv
  <2>2. CASE journal.state # "none"
    BY <2>2 DEF PortInv, TypeOK, Journals, RecoveryInv, IntentInv
  <2> QED
    BY <2>1, <2>2
<1> QED
  BY <1>1, AdoptionInvHolds, PTL

(* A restore that reaches its last command has put everything back.        *)
THEOREM RestoreRestoresHolds == Spec => []RestoreRestores
<1>1. AdoptionInv => RestoreRestores
  <2> SUFFICES ASSUME PortInv, RecoveryInv, pc = "removeMapping"
               PROVE  AsFound
    BY DEF AdoptionInv, RestoreRestores
  <2>1. SameFields
    BY DEF RecoveryInv, RestoreInv, OriginInv, SameFields, PortInv, TypeOK, Hosts, LegacyBack,
       Detached, RouteBack, FilesGone, AcmeBack, EdgeGone, NetworkGone, StateBack
  <2> QED
    BY <2>1, AsFoundFields DEF PortInv
<1> QED
  BY <1>1, AdoptionInvHolds, PTL

(* On a host that had no route, what no script works on is settled or can  *)
(* be rolled back.                                                         *)
THEOREM NeverStuckHolds == Spec => []NeverStuck
<1>1. AdoptionInv => NeverStuck
  BY DEF AdoptionInv, RecoveryInv, JournalInv, IntentInv, NeverStuck, FreshRoute, Recoverable,
     RollbackAccepted, OwnedResources, HandedOver
<1> QED
  BY <1>1, AdoptionInvHolds, PTL

(* No command of a script finds what Docker refuses: a Traefik to start    *)
(* finds its ports free, a network to remove is in use by nobody.          *)
Unrefused ==
    /\ pc = "startEdge" => ~host.legacy
    /\ pc = "startLegacy" => host.edge # "running"
    /\ careful /\ pc = "removeNetwork" /\ host.network => host.edge = "absent" /\ ~host.attached

(* A script that runs on is never blocked: this is what its liveness, that *)
(* an adoption settles, rests on besides the fairness.                     *)
THEOREM UnrefusedHolds == Spec => []Unrefused
<1>1. AdoptionInv => Unrefused
  BY DEF AdoptionInv, PortInv, RecoveryInv, RestoreInv, Unrefused, EdgeGone, AcmeBack,
     FilesGone, RouteBack, Detached
<1> QED
  BY <1>1, AdoptionInvHolds, PTL
=============================================================================
