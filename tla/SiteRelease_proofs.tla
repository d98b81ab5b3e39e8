------------------------ MODULE SiteRelease_proofs ------------------------
(***************************************************************************)
(* Theorems about SiteRelease for every set of images and modes, any       *)
(* number of interrupts, any drain and any reload time.  The inductive     *)
(* invariant is Inv of SiteRelease: one lemma per action shows that it is  *)
(* preserved, NextInv gathers them, and the theorems follow from it.       *)
(* UndisturbedInv is inductive with it and says more as long as no job was *)
(* cut short; TimersInv is too, and is why a drain protects.               *)
(***************************************************************************)
EXTENDS SiteRelease, TLAPS

(***************************************************************************)
(* Facts about the operators and about a running job.                      *)
(***************************************************************************)

(* There are two slots: the other slot's other slot is the slot itself.    *)

LEMMA OtherSlot ==
  \A s \in Slots : Other(s) \in Slots /\ Other(s) # s /\ Other(Other(s)) = s
BY DEF Slots, Other

(* Stopping a slot changes whether it runs and nothing else.               *)
LEMMA StoppedFacts ==
  ASSUME TypeOK, NEW slot \in Slots
  PROVE  /\ Stopped(slot) \in [Slots -> Containers]
         /\ ~Stopped(slot)[slot].up
         /\ \A s \in Slots : Stopped(slot)[s].image = cont[s].image
         /\ \A s \in Slots : s # slot => Stopped(slot)[s] = cont[s]
<1>1. cont[slot] \in Containers
  BY DEF TypeOK
<1>2. [cont[slot] EXCEPT !.up = FALSE] \in Containers
  BY <1>1 DEF Containers
<1>3. /\ ~[cont[slot] EXCEPT !.up = FALSE].up
      /\ [cont[slot] EXCEPT !.up = FALSE].image = cont[slot].image
  BY <1>1 DEF Containers
<1> QED
  BY <1>2, <1>3 DEF TypeOK, Stopped

(* Making a slot's container anew leaves the other one alone.              *)
LEMMA MadeFacts ==
  ASSUME TypeOK, NEW slot \in Slots, NEW made \in Containers
  PROVE  /\ [cont EXCEPT ![slot] = made] \in [Slots -> Containers]
         /\ [cont EXCEPT ![slot] = made][slot] = made
         /\ \A s \in Slots : s # slot => [cont EXCEPT ![slot] = made][s] = cont[s]
BY DEF TypeOK

(* The container a job asks for has the job's image, running or not.       *)
LEMMA WantedFacts ==
  ASSUME job \in Jobs, NEW runs \in BOOLEAN
  PROVE  /\ Wanted \in Containers
         /\ Wanted.up
         /\ Wanted.image = job.image
         /\ [Wanted EXCEPT !.up = runs] \in Containers
         /\ [Wanted EXCEPT !.up = runs].up = runs
         /\ [Wanted EXCEPT !.up = runs].image = job.image
<1>1. job.image \in Images /\ SwitchesSlots \in BOOLEAN
  BY DEF Jobs, SwitchesSlots
<1> QED
  BY <1>1 DEF Wanted, Containers

(* What Inv says of a job that is running.                                 *)
LEMMA JobFacts ==
  ASSUME Inv, pc # "idle"
  PROVE  /\ job \in Jobs
         /\ job.slot \in Slots
         /\ job.image \in Images
         /\ job.mode \in Modes
         /\ job.script # "bootstrap" => DeployedInv /\ deploy \in DeployStates
         /\ job.script = "bootstrap" => BootstrapInv
         /\ ProgressInv
BY DEF Inv, JobInv, Jobs, DeployedInv, Deployed, TypeOK

(***************************************************************************)
(* Every command preserves the invariant.                                  *)
(***************************************************************************)

(* runtime.env is rewritten for the recorded modes, or before a record.    *)
LEMMA RenderEnvStep ==
  ASSUME Inv, RenderEnv
  PROVE  Inv'
<1>0. pc # "idle"
  BY DEF RenderEnv
<1>1. TypeOK'
  BY <1>0, JobFacts DEF Inv, TypeOK, timers, RenderEnv, Goto, Commands
<1>2. JobInv'
  BY <1>0, JobFacts, NoneAssumption DEF JobInv, Wanted, ProgressInv, BootstrapInv,
     DeployedInv, SwitchesSlots, AfterStart, AfterRoute, Deployed,
     RenderEnv, Goto
<1>3. DataInv' /\ RecordIsUsable' /\ NeverWedged'
  BY <1>0, JobFacts, NoneAssumption DEF Inv, DataInv, RecordIsUsable,
     NeverWedged, Deployed, RenderEnv, BootstrapInv, DeployedInv
<1> QED
  BY <1>1, <1>2, <1>3 DEF Inv

(* Data services are started for the recorded modes, or before a record.   *)
LEMMA StartDataStep ==
  ASSUME Inv, StartData
  PROVE  Inv'
<1>0. pc # "idle"
  BY DEF StartData
<1>1. TypeOK'
  BY <1>0, JobFacts DEF Inv, TypeOK, timers, StartData, Goto, Commands
<1>2. JobInv'
  BY <1>0, JobFacts, NoneAssumption DEF JobInv, Wanted, ProgressInv, BootstrapInv,
     DeployedInv, SwitchesSlots, AfterStart, AfterRoute, Deployed,
     StartData, Goto
<1>3. DataInv' /\ RecordIsUsable' /\ NeverWedged'
  BY DEF Inv, DataInv, RecordIsUsable, NeverWedged, Deployed, StartData
<1> QED
  BY <1>1, <1>2, <1>3 DEF Inv

(* A switch or rollback stops the slot that is not recorded as active.     *)
LEMMA StopTargetStep ==
  ASSUME Inv, StopTarget
  PROVE  Inv'
<1>0. pc # "idle"
  BY DEF StopTarget
<1>1. TypeOK'
  BY <1>0, JobFacts, StoppedFacts DEF Inv, TypeOK, timers, StopTarget, Goto, Commands
<1>2. JobInv'
  BY <1>0, JobFacts, NoneAssumption, StoppedFacts, OtherSlot DEF JobInv, Wanted,
     ProgressInv, BootstrapInv, DeployedInv, SwitchesSlots, AfterStart,
     AfterRoute, Deployed, StopTarget, Goto, Inv, RecordIsUsable, Jobs,
     Scripts
<1>3. DataInv' /\ RecordIsUsable' /\ NeverWedged'
  BY <1>0, JobFacts, StoppedFacts DEF Inv, DataInv, RecordIsUsable, NeverWedged,
     Deployed, StopTarget, TypeOK, DeployStates
<1> QED
  BY <1>1, <1>2, <1>3 DEF Inv

(* Stopping a container for its recreation changes no image.               *)
LEMMA RecreateSlotStep ==
  ASSUME Inv, RecreateSlot
  PROVE  Inv'
<1>0. pc # "idle"
  BY DEF RecreateSlot
<1>1. TypeOK'
  BY <1>0, JobFacts, StoppedFacts DEF Inv, TypeOK, timers, RecreateSlot
<1>2. JobInv'
  BY <1>0, JobFacts, NoneAssumption DEF JobInv, Wanted, ProgressInv, BootstrapInv,
     DeployedInv, SwitchesSlots, AfterStart, AfterRoute, Deployed, RecreateSlot
<1>3. DataInv' /\ RecordIsUsable' /\ NeverWedged'
  BY <1>0, JobFacts, StoppedFacts DEF Inv, DataInv, RecordIsUsable, NeverWedged,
     Deployed, RecreateSlot, TypeOK, DeployStates
<1> QED
  BY <1>1, <1>2, <1>3 DEF Inv

(* The recorded slot is installed, so the copy makes the target so.        *)
LEMMA CopyDataStep ==
  ASSUME Inv, CopyData
  PROVE  Inv'
<1>0. pc # "idle"
  BY DEF CopyData
<1>1. TypeOK'
  BY <1>0, JobFacts DEF Inv, TypeOK, timers, CopyData, Goto, Commands
<1>2. JobInv'
  BY <1>0, JobFacts, NoneAssumption DEF JobInv, Wanted, ProgressInv, BootstrapInv,
     DeployedInv, SwitchesSlots, AfterStart, AfterRoute, Deployed,
     CopyData, Goto, Inv, RecordIsUsable
<1>3. DataInv' /\ RecordIsUsable' /\ NeverWedged'
  BY DEF Inv, DataInv, RecordIsUsable, NeverWedged, Deployed, CopyData
<1> QED
  BY <1>1, <1>2, <1>3 DEF Inv

(* The internal probe only chooses how the job goes on.                    *)
LEMMA ProbeInternalStep ==
  ASSUME Inv, ProbeInternal
  PROVE  Inv'
<1>0. pc # "idle"
  BY DEF ProbeInternal
<1>1. TypeOK'
  BY <1>0, JobFacts DEF Inv, TypeOK, timers, ProbeInternal, Goto, Commands
<1>2. JobInv'
  BY <1>0, JobFacts, NoneAssumption DEF JobInv, Wanted, ProgressInv, BootstrapInv,
     DeployedInv, SwitchesSlots, AfterStart, AfterRoute, Deployed,
     ProbeInternal, Goto
<1>3. DataInv' /\ RecordIsUsable' /\ NeverWedged'
  BY DEF Inv, DataInv, RecordIsUsable, NeverWedged, Deployed,
     ProbeInternal
<1> QED
  BY <1>1, <1>2, <1>3 DEF Inv

(* A failed public probe only chooses how the job goes on.                 *)
LEMMA ProbePublicFailsStep ==
  ASSUME Inv, ProbePublicFails
  PROVE  Inv'
<1>0. pc # "idle"
  BY DEF ProbePublicFails
<1>1. TypeOK'
  BY <1>0, JobFacts DEF Inv, TypeOK, timers, ProbePublicFails, Goto, Commands
<1>2. JobInv'
  BY <1>0, JobFacts, NoneAssumption DEF JobInv, Wanted, ProgressInv, BootstrapInv,
     DeployedInv, SwitchesSlots, AfterStart, AfterRoute, Deployed,
     ProbePublicFails, Goto
<1>3. DataInv' /\ RecordIsUsable' /\ NeverWedged'
  BY DEF Inv, DataInv, RecordIsUsable, NeverWedged, Deployed,
     ProbePublicFails
<1> QED
  BY <1>1, <1>2, <1>3 DEF Inv

(* Draining only waits.                                                    *)
LEMMA DrainStep ==
  ASSUME Inv, Drain
  PROVE  Inv'
<1>0. pc # "idle"
  BY DEF Drain
<1>1. TypeOK'
  BY <1>0, JobFacts DEF Inv, TypeOK, timers, Drain, Goto, Commands
<1>2. JobInv'
  BY <1>0, JobFacts, NoneAssumption DEF JobInv, Wanted, ProgressInv, BootstrapInv,
     DeployedInv, SwitchesSlots, AfterStart, AfterRoute, Deployed, Drain,
     Goto
<1>3. DataInv' /\ RecordIsUsable' /\ NeverWedged'
  BY DEF Inv, DataInv, RecordIsUsable, NeverWedged, Deployed, Drain
<1> QED
  BY <1>1, <1>2, <1>3 DEF Inv

(* A passed public probe only chooses how the job goes on.                 *)
LEMMA ProbePublicPassesStep ==
  ASSUME Inv, ProbePublicPasses
  PROVE  Inv'
<1>0. pc # "idle"
  BY DEF ProbePublicPasses
<1>1. TypeOK'
  BY <1>0, JobFacts, BoundAssumption DEF Inv, TypeOK, ProbePublicPasses, Goto, Exit, Commands
<1>2. JobInv'
  BY <1>0, JobFacts, NoneAssumption DEF JobInv, Wanted, ProgressInv, BootstrapInv,
     DeployedInv, SwitchesSlots, AfterStart, AfterRoute, Deployed,
     ProbePublicPasses, Goto, Exit
<1>3. DataInv' /\ RecordIsUsable' /\ NeverWedged'
  BY DEF Inv, DataInv, RecordIsUsable, NeverWedged, Deployed,
     ProbePublicPasses
<1> QED
  BY <1>1, <1>2, <1>3 DEF Inv

(* The route moves to the slot the job started.                            *)
LEMMA WriteRouteStep ==
  ASSUME Inv, WriteRoute
  PROVE  Inv'
<1>0. pc # "idle"
  BY DEF WriteRoute
<1>1. TypeOK'
  BY <1>0, JobFacts, BoundAssumption DEF Inv, TypeOK, ToRoute, Jobs, WriteRoute, Commands
<1>2. JobInv'
  BY <1>0, JobFacts, NoneAssumption DEF JobInv, Wanted, ProgressInv, BootstrapInv,
     DeployedInv, SwitchesSlots, AfterStart, AfterRoute, Deployed,
     WriteRoute, ToRoute, Jobs, Inv, TypeOK
<1>3. DataInv' /\ RecordIsUsable' /\ NeverWedged'
  BY DEF Inv, DataInv, RecordIsUsable, NeverWedged, Deployed, WriteRoute
<1> QED
  BY <1>1, <1>2, <1>3 DEF Inv

(* The route moves back and the job leaves its probed commands.            *)
LEMMA RestoreRouteStep ==
  ASSUME Inv, RestoreRoute
  PROVE  Inv'
<1>0. pc # "idle"
  BY DEF RestoreRoute
<1>1. TypeOK'
  BY <1>0, JobFacts, BoundAssumption DEF Inv, TypeOK, ToRoute, Jobs, RestoreRoute, Goto,
     Exit, Commands
<1>2. JobInv'
  BY <1>0, JobFacts, NoneAssumption DEF JobInv, Wanted, ProgressInv, BootstrapInv,
     DeployedInv, SwitchesSlots, AfterStart, AfterRoute, Deployed,
     RestoreRoute, Goto, Exit
<1>3. DataInv' /\ RecordIsUsable' /\ NeverWedged'
  BY DEF Inv, DataInv, RecordIsUsable, NeverWedged, Deployed, RestoreRoute
<1> QED
  BY <1>1, <1>2, <1>3 DEF Inv

(* Stopping the slot of a failed run changes no image.                     *)
LEMMA StopFailedStep ==
  ASSUME Inv, StopFailed
  PROVE  Inv'
<1>0. pc # "idle"
  BY DEF StopFailed
<1>1. TypeOK'
  BY <1>0, JobFacts, StoppedFacts DEF Inv, TypeOK, timers, StopFailed, Exit
<1>2. JobInv'
  BY DEF JobInv, Exit, StopFailed
<1>3. DataInv' /\ RecordIsUsable' /\ NeverWedged'
  BY <1>0, JobFacts, StoppedFacts DEF Inv, DataInv, RecordIsUsable, NeverWedged,
     Deployed, StopFailed, TypeOK, DeployStates
<1> QED
  BY <1>1, <1>2, <1>3 DEF Inv

(* The marker is written by a bootstrap that has its record.               *)
LEMMA WriteMarkerStep ==
  ASSUME Inv, WriteMarker
  PROVE  Inv'
<1>0. pc # "idle"
  BY DEF WriteMarker
<1>1. TypeOK'
  BY <1>0, JobFacts DEF Inv, TypeOK, timers, WriteMarker, Exit
<1>2. JobInv'
  BY DEF JobInv, Exit, WriteMarker
<1>3. DataInv' /\ RecordIsUsable' /\ NeverWedged'
  BY <1>0, JobFacts, NoneAssumption DEF Inv, DataInv, RecordIsUsable,
     NeverWedged, Deployed, WriteMarker, BootstrapInv, DeployedInv,
     SwitchesSlots, Jobs, Scripts
<1> QED
  BY <1>1, <1>2, <1>3 DEF Inv

(* A job that is cut short leaves a host that satisfies the invariant.     *)
LEMMA InterruptStep ==
  ASSUME Inv, Interrupt
  PROVE  Inv'
<1>0. pc # "idle"
  BY DEF Interrupt
<1>1. TypeOK'
  BY <1>0, JobFacts, BoundAssumption DEF Inv, TypeOK, timers, Interrupt, Exit
<1>2. JobInv'
  BY DEF JobInv, Exit, Interrupt
<1>3. DataInv' /\ RecordIsUsable' /\ NeverWedged'
  BY DEF Inv, DataInv, RecordIsUsable, NeverWedged, Deployed, Interrupt
<1> QED
  BY <1>1, <1>2, <1>3 DEF Inv

(* Reloading the route concerns no part of the invariant but its type.     *)
LEMMA TraefikReloadStep ==
  ASSUME Inv, TraefikReload
  PROVE  Inv'
<1>1. TypeOK'
  BY BoundAssumption DEF Inv, TypeOK, TraefikReload
<1>2. JobInv'
  BY DEF Inv, JobInv, Wanted, ProgressInv, BootstrapInv, DeployedInv,
     SwitchesSlots, AfterStart, AfterRoute, Deployed, TraefikReload
<1>3. DataInv' /\ RecordIsUsable' /\ NeverWedged'
  BY DEF Inv, DataInv, RecordIsUsable, NeverWedged, Deployed,
     TraefikReload
<1> QED
  BY <1>1, <1>2, <1>3 DEF Inv

(* Passing time concerns no part of the invariant but its type.            *)
LEMMA TickStep ==
  ASSUME Inv, Tick
  PROVE  Inv'
<1>1. TypeOK'
  BY BoundAssumption DEF Inv, TypeOK, Tick, Less
<1>2. JobInv'
  BY DEF Inv, JobInv, Wanted, ProgressInv, BootstrapInv, DeployedInv,
     SwitchesSlots, AfterStart, AfterRoute, Deployed, Tick
<1>3. DataInv' /\ RecordIsUsable' /\ NeverWedged'
  BY DEF Inv, DataInv, RecordIsUsable, NeverWedged, Deployed, Tick
<1> QED
  BY <1>1, <1>2, <1>3 DEF Inv

(* A slot started by the job carries the job's image, and only a reconcile *)
(* starts the recorded slot, with the recorded image.                      *)
LEMMA StartedRecord ==
  ASSUME Inv, pc = "start", Deployed, NEW made \in Containers, made.image = job.image,
         cont' = [cont EXCEPT ![job.slot] = made], UNCHANGED deploy
  PROVE  cont'[deploy.activeSlot].image = deploy.activeImage
<1>0. pc # "idle"
  OBVIOUS
<1>1. deploy.activeSlot \in Slots /\ job.slot \in Slots /\ TypeOK
  BY <1>0, JobFacts DEF Inv, TypeOK, Deployed, DeployStates
<1>2. DeployedInv /\ job.script \in Scripts
  BY <1>0, JobFacts DEF BootstrapInv, Jobs
<1>5. /\ cont'[job.slot] = made
      /\ \A s \in Slots : s # job.slot => cont'[s] = cont[s]
  BY <1>1, MadeFacts
<1>3. CASE job.script = "reconcile"
  BY <1>2, <1>3, <1>5 DEF DeployedInv
<1>4. CASE job.script # "reconcile"
  <2>1. job.slot # deploy.activeSlot
    BY <1>0, <1>1, <1>2, <1>4, JobFacts, OtherSlot
       DEF DeployedInv, BootstrapInv, SwitchesSlots, Scripts
  <2>2. cont'[deploy.activeSlot] = cont[deploy.activeSlot]
    BY <1>1, <1>5, <2>1
  <2> QED
    BY <2>2 DEF Inv, RecordIsUsable
<1> QED
  BY <1>3, <1>4

(* Starting a slot keeps the recorded image on the recorded slot.          *)
LEMMA StartSlotStep ==
  ASSUME Inv, StartSlot
  PROVE  Inv'
<1>0. pc # "idle" /\ TypeOK /\ job \in Jobs
  BY JobFacts DEF StartSlot, Inv
<1>1. /\ Wanted \in Containers /\ Wanted.image = job.image
      /\ cont' \in [Slots -> Containers]
      /\ cont'[job.slot] = Wanted
      /\ \A s \in Slots : s # job.slot => cont'[s] = cont[s]
  BY <1>0, JobFacts, WantedFacts, MadeFacts DEF StartSlot
<1>2. TypeOK'
  BY <1>0, <1>1, JobFacts DEF TypeOK, timers, StartSlot, Goto, Commands
<1>3. JobInv'
  BY <1>0, <1>1, JobFacts, NoneAssumption DEF JobInv, Wanted, ProgressInv,
     BootstrapInv, DeployedInv, SwitchesSlots, AfterStart, AfterRoute,
     Deployed, StartSlot, Goto, Inv
<1>4. DataInv' /\ NeverWedged'
  BY DEF Inv, DataInv, NeverWedged, Deployed, StartSlot
<1>5. RecordIsUsable'
  BY <1>1, StartedRecord DEF Inv, RecordIsUsable, Deployed, StartSlot
<1> QED
  BY <1>2, <1>3, <1>4, <1>5 DEF Inv

(* So does a start that fails, whatever it leaves behind.                  *)
LEMMA StartSlotFailsStep ==
  ASSUME Inv, StartSlotFails
  PROVE  Inv'
<1>0. pc # "idle" /\ TypeOK /\ job \in Jobs /\ job.slot \in Slots
  BY JobFacts DEF StartSlotFails, Inv
<1>1. PICK runs \in BOOLEAN : cont' = [cont EXCEPT ![job.slot] = [Wanted EXCEPT !.up = runs]]
  BY DEF StartSlotFails
<1>2. /\ [Wanted EXCEPT !.up = runs] \in Containers
      /\ [Wanted EXCEPT !.up = runs].image = job.image
      /\ cont' \in [Slots -> Containers]
  BY <1>0, <1>1, WantedFacts, MadeFacts
<1>3. installed' \in SUBSET Slots /\ installed \subseteq installed'
  BY <1>0 DEF StartSlotFails, TypeOK
<1>4. interrupts' \in 0..MaxInterrupts
  BY <1>0, BoundAssumption DEF StartSlotFails, TypeOK
<1>5. TypeOK'
  BY <1>0, <1>2, <1>3, <1>4 DEF TypeOK, timers, StartSlotFails, Exit
<1>6. JobInv'
  BY DEF JobInv, Exit, StartSlotFails
<1>7. DataInv' /\ NeverWedged'
  BY DEF Inv, DataInv, NeverWedged, Deployed, StartSlotFails
<1>8. Deployed => cont'[deploy.activeSlot].image = deploy.activeImage
  BY <1>1, <1>2, StartedRecord DEF StartSlotFails
<1>9. RecordIsUsable'
  BY <1>3, <1>8 DEF Inv, RecordIsUsable, Deployed, StartSlotFails
<1> QED
  BY <1>5, <1>6, <1>7, <1>9 DEF Inv

(* The slot a switch or rollback stops last is the recorded one; it stays  *)
(* the recorded one, with its image, until the record is written.          *)
LEMMA StopOldStep ==
  ASSUME Inv, StopOld
  PROVE  Inv'
<1>0. pc # "idle" /\ TypeOK
  BY DEF StopOld, Inv
<1>1. /\ Deployed /\ SwitchesSlots
      /\ job.old = deploy.activeSlot
      /\ job.old \in Slots
      /\ job.slot = Other(job.old)
  BY <1>0, JobFacts
     DEF StopOld, BootstrapInv, DeployedInv, SwitchesSlots, Jobs, Scripts, DeployStates
<1>2. /\ cont'[job.slot] = cont[job.slot]
      /\ ~cont'[job.old].up
      /\ cont'[job.old].image = cont[job.old].image
      /\ cont' \in [Slots -> Containers]
  BY <1>0, <1>1, JobFacts, OtherSlot, StoppedFacts DEF StopOld
<1>3. TypeOK'
  BY <1>0, <1>2 DEF TypeOK, timers, StopOld, Goto, Commands
<1>4. JobInv'
  BY <1>0, <1>1, <1>2, JobFacts DEF JobInv, Wanted, ProgressInv, BootstrapInv, DeployedInv,
     SwitchesSlots, AfterStart, AfterRoute, Deployed, StopOld, Goto
<1>5. DataInv' /\ RecordIsUsable' /\ NeverWedged'
  BY <1>1, <1>2 DEF Inv, DataInv, RecordIsUsable, NeverWedged, Deployed, StopOld
<1> QED
  BY <1>3, <1>4, <1>5 DEF Inv

(* The record a script writes is well formed and describes the slots as    *)
(* the job left them.                                                      *)
LEMMA WrittenRecord ==
  ASSUME Inv, pc = "writeState"
  PROVE  /\ RecordAfter \in DeployStates
         /\ RecordAfter.activeSlot = job.slot
         /\ RecordAfter.activeImage = job.image
         /\ RecordAfter.mode = job.mode
         /\ job.script = "bootstrap" => RecordAfter.previousSlot = None
         /\ job.script # "bootstrap" =>
               /\ SwitchesSlots
               /\ RecordAfter.previousSlot = deploy.activeSlot
               /\ RecordAfter.previousImage = deploy.activeImage
<1>0. pc # "idle"
  OBVIOUS
<1>1. CASE job.script = "bootstrap"
  BY <1>0, <1>1, JobFacts DEF RecordAfter, BootstrapInv, DeployStates, Slots
<1>2. CASE job.script = "switch"
  BY <1>0, <1>2, JobFacts
     DEF RecordAfter, DeployedInv, DeployStates, SwitchesSlots
<1>3. CASE job.script = "rollback"
  BY <1>0, <1>3, JobFacts
     DEF RecordAfter, DeployedInv, DeployStates, SwitchesSlots
<1> QED
  BY <1>0, <1>1, <1>2, <1>3, JobFacts DEF Jobs, Scripts, DeployedInv

(* Writing the record: the new active slot carries the job's image, and    *)
(* the old one becomes the slot a rollback can use.                        *)
LEMMA WriteStateStep ==
  ASSUME Inv, WriteState
  PROVE  Inv'
<1>0. pc = "writeState" /\ pc # "idle" /\ TypeOK
  BY DEF WriteState, Inv
<1>1. deploy' \in DeployStates /\ Deployed'
  BY <1>0, WrittenRecord, NoneAssumption DEF WriteState, Deployed
<1>2. TypeOK'
  BY <1>0, <1>1, NoneAssumption DEF TypeOK, timers, WriteState, Goto, Exit, Commands
<1>3. JobInv'
  <2>1. CASE job.script = "bootstrap"
    BY <1>0, <1>1, <2>1, JobFacts, WrittenRecord
       DEF WriteState, Goto, JobInv, Wanted, ProgressInv, BootstrapInv, SwitchesSlots,
       AfterStart, AfterRoute
  <2>2. CASE job.script # "bootstrap"
    BY <2>2 DEF WriteState, JobInv, Exit
  <2> QED
    BY <2>1, <2>2
<1>4. DataInv'
  <2>1. CASE job.script = "bootstrap"
    BY <1>0, <1>1, <2>1, JobFacts, WrittenRecord, NoneAssumption
       DEF WriteState, DataInv, ProgressInv
  <2>2. CASE job.script # "bootstrap"
    BY <1>0, <1>1, <2>2, JobFacts, WrittenRecord
       DEF WriteState, Inv, DataInv, DeployedInv
  <2> QED
    BY <2>1, <2>2
<1>5. NeverWedged'
  BY <1>1 DEF NeverWedged
<1>6. RecordIsUsable'
  <2>0. pc \in AfterStart /\ UNCHANGED <<cont, installed>>
    BY <1>0 DEF AfterStart, WriteState
  <2>1. cont'[job.slot].image = job.image /\ job.slot \in installed'
    BY <1>0, <2>0, JobFacts, WantedFacts DEF ProgressInv
  <2>2. CASE job.script = "bootstrap"
    BY <1>0, <2>1, <2>2, WrittenRecord DEF WriteState, RecordIsUsable
  <2>3. CASE job.script # "bootstrap"
    <3>1. /\ deploy.activeSlot = Other(job.slot)
          /\ deploy.activeImage # None
          /\ deploy.activeSlot \in installed
      BY <1>0, <2>3, JobFacts, WrittenRecord, OtherSlot, NoneAssumption
         DEF Inv, RecordIsUsable, DeployedInv, DeployStates
    <3> QED
      BY <1>0, <2>1, <2>3, <3>1, WrittenRecord DEF WriteState, RecordIsUsable
  <2> QED
    BY <2>2, <2>3
<1> QED
  BY <1>2, <1>3, <1>4, <1>5, <1>6 DEF Inv

(***************************************************************************)
(* The steps that start a script, and the initial states.                  *)
(***************************************************************************)

(* A bootstrap starts only where there is no record.                       *)
LEMMA StartBootstrapStep ==
  ASSUME Inv, NEW image \in Images, NEW mode \in Modes, StartBootstrap(image, mode)
  PROVE  Inv'
<1>1. /\ job' \in Jobs
      /\ job'.script = "bootstrap"
      /\ job'.slot = "blue"
  BY DEF StartBootstrap, Begin, Jobs, Scripts, Slots
<1>2. TypeOK'
  BY <1>1 DEF Inv, TypeOK, timers, StartBootstrap, Begin, Commands
<1>3. JobInv'
  BY <1>1 DEF StartBootstrap, Begin, JobInv, BootstrapInv, ProgressInv,
     SwitchesSlots, AfterStart, AfterRoute, Deployed
<1>4. DataInv' /\ RecordIsUsable' /\ NeverWedged'
  BY DEF Inv, DataInv, RecordIsUsable, NeverWedged, Deployed, StartBootstrap, Begin
<1> QED
  BY <1>2, <1>3, <1>4 DEF Inv

(* A switch works on the slot that is not recorded as active.              *)
LEMMA StartSwitchStep ==
  ASSUME Inv, NEW image \in Images, NEW mode \in Modes, StartSwitch(image, mode)
  PROVE  Inv'
<1>0. Deployed /\ deploy.mode = mode /\ deploy.activeSlot \in Slots
  BY DEF Inv, TypeOK, timers, StartSwitch, ModesMatch, Deployed, DeployStates
<1>1. /\ job' \in Jobs
      /\ job'.script = "switch"
      /\ job'.slot = Other(deploy.activeSlot)
      /\ job'.old = deploy.activeSlot
      /\ job'.image = image
      /\ job'.mode = mode
  BY <1>0, OtherSlot DEF StartSwitch, Begin, Jobs, Scripts
<1>2. TypeOK'
  BY <1>1 DEF Inv, TypeOK, timers, StartSwitch, Begin, Commands
<1>3. JobInv'
  BY <1>0, <1>1 DEF StartSwitch, Begin, JobInv, DeployedInv, ProgressInv,
     SwitchesSlots, AfterStart, AfterRoute, Deployed
<1>4. DataInv' /\ RecordIsUsable' /\ NeverWedged'
  BY DEF Inv, DataInv, RecordIsUsable, NeverWedged, Deployed, StartSwitch, Begin
<1> QED
  BY <1>2, <1>3, <1>4 DEF Inv

(* A reconcile works on the recorded slot and image.                       *)
LEMMA StartReconcileStep ==
  ASSUME Inv, NEW mode \in Modes, StartReconcile(mode)
  PROVE  Inv'
<1>0. Deployed /\ deploy.mode = mode /\ deploy \in DeployStates
  BY DEF Inv, TypeOK, timers, StartReconcile, ModesMatch, Deployed
<1>1. /\ job' \in Jobs
      /\ job'.script = "reconcile"
      /\ job'.slot = deploy.activeSlot
      /\ job'.image = deploy.activeImage
      /\ job'.mode = mode
  BY <1>0 DEF StartReconcile, Begin, Jobs, Scripts, DeployStates
<1>2. TypeOK'
  BY <1>1 DEF Inv, TypeOK, timers, StartReconcile, Begin, Commands
<1>3. JobInv'
  BY <1>0, <1>1 DEF StartReconcile, Begin, JobInv, DeployedInv, ProgressInv,
     SwitchesSlots, AfterStart, AfterRoute, Deployed
<1>4. DataInv' /\ RecordIsUsable' /\ NeverWedged'
  BY DEF Inv, DataInv, RecordIsUsable, NeverWedged, Deployed, StartReconcile, Begin
<1> QED
  BY <1>2, <1>3, <1>4 DEF Inv

(* A rollback works on the recorded previous slot, which is the other one. *)
LEMMA StartRollbackStep ==
  ASSUME Inv, NEW mode \in Modes, StartRollback(mode)
  PROVE  Inv'
<1>0. /\ Deployed /\ deploy.mode = mode /\ deploy \in DeployStates
      /\ deploy.previousSlot # None /\ deploy.previousImage # None
  BY DEF Inv, TypeOK, timers, StartRollback, ModesMatch, Deployed
<1>1. /\ job' \in Jobs
      /\ job'.script = "rollback"
      /\ job'.slot = deploy.previousSlot
      /\ job'.old = deploy.activeSlot
      /\ job'.image = deploy.previousImage
      /\ job'.mode = mode
  BY <1>0 DEF StartRollback, Begin, Jobs, Scripts, DeployStates
<1>2. TypeOK'
  BY <1>1 DEF Inv, TypeOK, timers, StartRollback, Begin, Commands
<1>3. job'.slot = Other(deploy.activeSlot)
  BY <1>0, <1>1 DEF Inv, RecordIsUsable
<1>4. JobInv'
  BY <1>0, <1>1, <1>3 DEF StartRollback, Begin, JobInv, DeployedInv, ProgressInv,
     SwitchesSlots, AfterStart, AfterRoute, Deployed
<1>5. DataInv' /\ RecordIsUsable' /\ NeverWedged'
  BY DEF Inv, DataInv, RecordIsUsable, NeverWedged, Deployed, StartRollback, Begin
<1> QED
  BY <1>2, <1>4, <1>5 DEF Inv

(* Adopting the modes completes the record and changes nothing else.       *)
LEMMA AdoptModesStep ==
  ASSUME Inv, NEW mode \in Modes, AdoptModes(mode)
  PROVE  Inv'
<1>1. /\ deploy' \in DeployStates
      /\ deploy'.mode = mode
      /\ deploy'.activeSlot = deploy.activeSlot
      /\ deploy'.activeImage = deploy.activeImage
      /\ deploy'.previousSlot = deploy.previousSlot
      /\ deploy'.previousImage = deploy.previousImage
  BY DEF Inv, TypeOK, timers, AdoptModes, Deployed, DeployStates
<1>2. TypeOK' /\ JobInv'
  BY <1>1 DEF Inv, TypeOK, timers, JobInv, AdoptModes
<1>3. DataInv' /\ RecordIsUsable' /\ NeverWedged'
  BY <1>1, NoneAssumption
     DEF Inv, DataInv, RecordIsUsable, NeverWedged, Deployed, AdoptModes
<1> QED
  BY <1>2, <1>3 DEF Inv

(* Both kinds of hosts the scripts start from satisfy the invariant.       *)
LEMMA InitInv ==
  ASSUME Init
  PROVE  Inv
<1>1. /\ pc = "idle" /\ job = None /\ interrupts = 0 /\ loaded = route
      /\ interrupts \in 0..MaxInterrupts
      /\ due \in 0..ReloadSeconds
      /\ rest \in 0..DrainSeconds
  BY BoundAssumption DEF Init
<1>2. CASE InitNew
  BY <1>1, <1>2, NoneAssumption DEF InitNew, Inv, TypeOK, JobInv, DataInv, RecordIsUsable,
     NeverWedged, Deployed, Absent, Containers, Slots
<1>3. CASE InitLegacy
  <2>1. PICK i \in Images, m \in Modes, setup \in BOOLEAN :
          /\ deploy = [activeSlot |-> "blue", activeImage |-> i, mode |-> None,
                       previousSlot |-> None, previousImage |-> None]
          /\ marker = TRUE
          /\ env = m
          /\ dataUp = {m}
          /\ route = "blue"
          /\ cont = [s \in Slots |->
                       IF s = "blue" THEN [up |-> TRUE, image |-> i, setup |-> setup]
                       ELSE Absent]
          /\ installed = {"blue"}
    BY <1>3 DEF InitLegacy
  <2>2. deploy \in DeployStates
    BY <2>1 DEF DeployStates, Slots
  <2>3. cont \in [Slots -> Containers] /\ cont["blue"].image = i
    BY <2>1 DEF Containers, Absent, Slots
  <2>4. TypeOK
    BY <1>1, <2>1, <2>2, <2>3 DEF TypeOK, Slots
  <2> QED
    BY <1>1, <2>1, <2>2, <2>3, <2>4, NoneAssumption
       DEF Inv, JobInv, DataInv, RecordIsUsable, NeverWedged, Deployed
<1> QED
  BY <1>2, <1>3 DEF Init

(***************************************************************************)
(* The theorems.                                                           *)
(***************************************************************************)

(* The invariant is inductive.                                             *)
LEMMA NextInv ==
  ASSUME Inv, [Next]_vars
  PROVE  Inv'
<1>1. CASE StartJob
  BY <1>1, StartBootstrapStep, StartSwitchStep, StartReconcileStep, StartRollbackStep,
     AdoptModesStep DEF StartJob
<1>2. CASE Command
  BY <1>2, RenderEnvStep, StartDataStep, StopTargetStep, CopyDataStep,
     RecreateSlotStep, StartSlotStep,
     ProbeInternalStep, WriteRouteStep, ProbePublicPassesStep, ProbePublicFailsStep,
     RestoreRouteStep, StopFailedStep, DrainStep, StopOldStep, WriteStateStep,
     WriteMarkerStep DEF Command
<1>3. CASE StartSlotFails \/ Interrupt \/ TraefikReload \/ Tick
  BY <1>3, StartSlotFailsStep, InterruptStep, TraefikReloadStep, TickStep
<1>4. CASE UNCHANGED vars
  BY <1>4 DEF vars, timers, Inv, TypeOK, JobInv, Wanted, ProgressInv, BootstrapInv, DeployedInv,
     SwitchesSlots, DataInv, RecordIsUsable, NeverWedged, Deployed
<1> QED
  BY <1>1, <1>2, <1>3, <1>4 DEF Next

(* Whatever runs, in whatever order and wherever it is cut short, the      *)
(* record describes the slots truly, a rollback has a usable slot to go    *)
(* to, no marker outlives its record and the data is where the record says.*)
THEOREM InvHolds == Spec => []Inv
<1>1. Init => Inv
  BY InitInv
<1>2. Inv /\ [Next]_vars => Inv'
  BY NextInv
<1> QED
  BY <1>1, <1>2, PTL DEF Spec

(* The parts of Inv a reader asks for.                                     *)
THEOREM RecordUsable == Spec => [](RecordIsUsable /\ NeverWedged)
<1>1. Inv => RecordIsUsable /\ NeverWedged
  BY DEF Inv
<1> QED
  BY <1>1, InvHolds, PTL

(* switch-slot.sh:32 holds, and a slot started without AUTO_SETUP always   *)
(* finds an installed application.                                         *)
THEOREM SlotDataSafe == Spec => []SwitchDataSafe
<1>1. Inv => SwitchDataSafe
  <2>1. ASSUME Inv, pc \in {"copyData", "start"}
        PROVE  ProgressInv
    BY <2>1, JobFacts
  <2> QED
    BY <2>1 DEF SwitchDataSafe, CopyIntoStoppedSlot, StartsInstalled, ProgressInv
<1> QED
  BY <1>1, InvHolds, PTL

(***************************************************************************)
(* The data of a deployed Site stays where it is.                          *)
(***************************************************************************)
DataStep ==
    Deployed => /\ Deployed'
                /\ deploy.mode # None => deploy'.mode = deploy.mode
                /\ env' = env
                /\ dataUp' = dataUp

(* Only runtime.env's and the record's writers touch the data, and both    *)
(* write the recorded modes.                                               *)
LEMMA DataStepHolds ==
  ASSUME Inv, [Next]_vars
  PROVE  DataStep
<1>1. CASE RenderEnv
  <2>1. pc # "idle" /\ pc = "renderEnv"
    BY <1>1 DEF RenderEnv
  <2>2. Deployed => job.script # "bootstrap"
    BY <2>1, JobFacts DEF BootstrapInv
  <2>3. Deployed => job.mode = env
    BY <2>1, <2>2, JobFacts, NoneAssumption DEF DeployedInv, Inv, DataInv
  <2> QED
    BY <1>1, <2>3 DEF RenderEnv, DataStep, Deployed
<1>2. CASE StartData
  <2>1. pc # "idle" /\ pc = "startData"
    BY <1>2 DEF StartData
  <2>2. Deployed => job.script # "bootstrap"
    BY <2>1, JobFacts DEF BootstrapInv
  <2>3. Deployed => job.mode \in dataUp
    BY <2>1, <2>2, JobFacts, NoneAssumption DEF DeployedInv, Inv, DataInv
  <2> QED
    BY <1>2, <2>3 DEF StartData, DataStep, Deployed
<1>3. CASE WriteState
  <2>1. pc # "idle" /\ pc = "writeState"
    BY <1>3 DEF WriteState
  <2>2. deploy' = RecordAfter /\ RecordAfter \in DeployStates /\ RecordAfter.mode = job.mode
    BY <1>3, <2>1, WrittenRecord DEF WriteState
  <2>3. Deployed => job.mode = deploy.mode
    BY <2>1, JobFacts DEF BootstrapInv, DeployedInv
  <2> QED
    BY <1>3, <2>2, <2>3, NoneAssumption DEF WriteState, DataStep, Deployed
<1>4. CASE \E m \in Modes : AdoptModes(m)
  <2>1. PICK m \in Modes : AdoptModes(m)
    BY <1>4
  <2>2. deploy' \in DeployStates
    BY <2>1 DEF Inv, TypeOK, timers, AdoptModes, Deployed, DeployStates
  <2> QED
    BY <2>1, <2>2, NoneAssumption DEF AdoptModes, DataStep, Deployed
<1>5. CASE UNCHANGED <<deploy, env, dataUp>>
  BY <1>5 DEF DataStep, Deployed
<1>6. CASE StartJob
  BY <1>4, <1>5, <1>6 DEF StartJob, StartBootstrap, StartSwitch, StartReconcile,
     StartRollback, Begin
<1>7. CASE Command
  BY <1>1, <1>2, <1>3, <1>5, <1>7 DEF Command, StopTarget, CopyData, RecreateSlot, StartSlot,
     ProbeInternal,
     WriteRoute, ProbePublicPasses, ProbePublicFails, RestoreRoute, StopFailed,
     Drain, StopOld, WriteMarker
<1> QED
  BY <1>5, <1>6, <1>7 DEF Next, StartSlotFails, Interrupt, TraefikReload, Tick, vars

(* No request, whatever modes it names, moves the data of a deployed Site. *)
THEOREM DataStaysPutHolds == Spec => DataStaysPut
<1>1. Inv /\ [Next]_vars => [DataStep]_vars
  BY DataStepHolds
<1> QED
  BY <1>1, InvHolds, PTL DEF Spec, DataStaysPut, DataStep

(***************************************************************************)
(* A completed run heals.                                                  *)
(***************************************************************************)
HealStep ==
    Completes /\ interrupts' = interrupts =>
        /\ Deployed'
        /\ route' = deploy'.activeSlot
        /\ cont'[deploy'.activeSlot].up
        /\ cont'[deploy'.activeSlot].image = deploy'.activeImage
        /\ SwitchesSlots => ~cont'[Other(deploy'.activeSlot)].up

(* The three commands that end a completed run find the job's slot started *)
(* and routed.                                                             *)
LEMMA HealStepHolds ==
  ASSUME Inv, [Next]_vars
  PROVE  HealStep
<1> SUFFICES ASSUME Completes, interrupts' = interrupts
             PROVE  /\ Deployed'
                    /\ route' = deploy'.activeSlot
                    /\ cont'[deploy'.activeSlot].up
                    /\ cont'[deploy'.activeSlot].image = deploy'.activeImage
                    /\ SwitchesSlots => ~cont'[Other(deploy'.activeSlot)].up
  BY DEF HealStep
<1>0. pc # "idle" /\ pc' = "idle" /\ interrupts' # interrupts + 1
  BY DEF Completes, Inv, TypeOK
<1>1. pc \in AfterRoute /\ pc \in AfterStart
  BY DEF Completes, AfterRoute, AfterStart
<1>2. /\ route = job.slot
      /\ cont[job.slot].up
      /\ cont[job.slot].image = job.image
  BY <1>0, <1>1, JobFacts, WantedFacts DEF ProgressInv
<1>3. CASE WriteState
  <2>1. pc = "writeState" /\ job.script # "bootstrap" /\ deploy' = RecordAfter
    BY <1>0, <1>3 DEF WriteState, Goto
  <2>2. ~cont[job.old].up /\ job.old = Other(job.slot)
    BY <1>0, <2>1, JobFacts, WrittenRecord, OtherSlot
       DEF ProgressInv, DeployedInv, DeployStates, Deployed
  <2> QED
    BY <1>2, <1>3, <2>1, <2>2, WrittenRecord, NoneAssumption DEF WriteState, Deployed
<1>4. CASE WriteMarker
  <2>1. job.script = "bootstrap"
    BY <1>0, <1>4, JobFacts DEF WriteMarker, DeployedInv, SwitchesSlots, Jobs, Scripts
  <2>2. Deployed /\ deploy.activeSlot = job.slot /\ deploy.activeImage = job.image
    BY <1>0, <1>4, <2>1, JobFacts DEF WriteMarker, BootstrapInv
  <2> QED
    BY <1>2, <1>4, <2>1, <2>2 DEF WriteMarker, SwitchesSlots, Deployed
<1>5. CASE ProbePublicPasses
  <2>1. job.script = "reconcile"
    BY <1>0, <1>5 DEF ProbePublicPasses, Goto
  <2>2. Deployed /\ deploy.activeSlot = job.slot /\ deploy.activeImage = job.image
    BY <1>0, <2>1, JobFacts DEF DeployedInv
  <2> QED
    BY <1>2, <1>5, <2>1, <2>2 DEF ProbePublicPasses, SwitchesSlots, Deployed
<1>6. WriteState \/ WriteMarker \/ ProbePublicPasses
  <2>1. ~StartJob
    BY <1>0 DEF StartJob, StartBootstrap, StartSwitch, StartReconcile, StartRollback,
       AdoptModes, Begin
  <2>2. ~(UNCHANGED vars) /\ ~TraefikReload /\ ~Tick /\ ~StartSlotFails /\ ~Interrupt
    BY <1>0 DEF vars, TraefikReload, Tick, StartSlotFails, Interrupt
  <2>3. Command
    BY <2>1, <2>2 DEF Next
  <2> QED
    BY <1>0, <2>3 DEF Completes, Command, RenderEnv, StartData, StopTarget, CopyData,
       RecreateSlot, StartSlot, ProbeInternal, WriteRoute, ProbePublicFails, RestoreRoute,
       StopFailed, Drain, StopOld, Goto
<1> QED
  BY <1>3, <1>4, <1>5, <1>6

(* Whatever earlier runs left behind, a run that completes leaves record,  *)
(* route and containers in agreement.                                      *)
THEOREM CompletionHealsHolds == Spec => CompletionHeals
<1>1. Inv /\ [Next]_vars => [HealStep]_vars
  BY HealStepHolds
<1> QED
  BY <1>1, InvHolds, PTL DEF Spec, CompletionHeals, HealStep

(***************************************************************************)
(* The scripts implement the atomic transitions of SlotRecord.             *)
(***************************************************************************)

(* Only writing the record and adopting the modes change it, each by a     *)
(* transition of SlotRecord.                                               *)
LEMMA RecordStep ==
  ASSUME Inv, [Next]_vars
  PROVE  [Record!Next]_deploy
<1>1. CASE WriteState
  <2>0. pc = "writeState" /\ pc # "idle" /\ deploy' = RecordAfter
    BY <1>1 DEF WriteState
  <2>1. CASE job.script = "bootstrap"
    <3>1. ~Deployed /\ job.image \in Images /\ job.mode \in Modes
      BY <2>0, <2>1, JobFacts DEF BootstrapInv
    <3>2. Record!Bootstrap(job.image, job.mode)
      BY <2>0, <2>1, <3>1 DEF RecordAfter, Record!Bootstrap, Record!NextSlot, Deployed
    <3> QED
      BY <3>1, <3>2 DEF Record!Next
  <2>2. CASE job.script # "bootstrap"
    <3>1. /\ Deployed /\ deploy \in DeployStates /\ deploy.mode = job.mode
          /\ deploy.mode # None
          /\ job.slot = Other(deploy.activeSlot)
          /\ job.image \in Images
          /\ job.script \in {"switch", "rollback"}
      BY <2>0, <2>2, JobFacts, NoneAssumption
         DEF DeployedInv, SwitchesSlots, Jobs, Scripts
    <3>2. CASE job.script = "switch"
      <4>1. job.image # deploy.activeImage
        BY <2>0, <3>2, JobFacts DEF DeployedInv
      <4>2. deploy' = Record!TransitionState(deploy, job.slot, job.image)
        BY <2>0, <3>1, <3>2 DEF RecordAfter, DeployStates, Record!TransitionState
      <4>3. job.slot = Record!NextSlot(deploy)
        BY <3>1 DEF Other, Record!NextSlot, Deployed
      <4>4. Record!Release(job.image)
        BY <3>1, <4>1, <4>2, <4>3 DEF Record!Release, Deployed
      <4> QED
        BY <3>1, <4>4 DEF Record!Next
    <3>3. CASE job.script = "rollback"
      <4>1. deploy.previousSlot # None
        BY <2>0, <3>3, JobFacts, NoneAssumption DEF DeployedInv
      <4>2. deploy' = Record!TransitionState(deploy, deploy.previousSlot, deploy.previousImage)
        BY <2>0, <3>1, <3>3 DEF RecordAfter, DeployStates, Record!TransitionState
      <4>3. Record!Rollback
        BY <3>1, <4>1, <4>2 DEF Record!Rollback, Deployed
      <4> QED
        BY <4>3 DEF Record!Next
    <3> QED
      BY <3>1, <3>2, <3>3
  <2> QED
    BY <2>1, <2>2
<1>2. CASE \E m \in Modes : AdoptModes(m)
  BY <1>2 DEF AdoptModes, Deployed, Record!AdoptModes, Record!Next
<1>3. CASE UNCHANGED deploy
  BY <1>3
<1>4. CASE StartJob
  BY <1>2, <1>3, <1>4 DEF StartJob, StartBootstrap, StartSwitch, StartReconcile,
     StartRollback, Begin
<1>5. CASE Command
  BY <1>1, <1>3, <1>5 DEF Command, RenderEnv, StartData, StopTarget, CopyData, RecreateSlot,
     StartSlot,
     ProbeInternal, WriteRoute, ProbePublicPasses, ProbePublicFails, RestoreRoute,
     StopFailed, Drain, StopOld, WriteMarker
<1> QED
  BY <1>3, <1>4, <1>5 DEF Next, StartSlotFails, Interrupt, TraefikReload, Tick, vars

(* Every run of the scripts, cut short anywhere and retried, changes the   *)
(* record only by a transition of slot-state.ts.                           *)
THEOREM Implements == Spec => RecordTransitions
<1>1. Init => Record!Init
  BY DEF Init, InitNew, InitLegacy, Record!Init
<1>2. Inv /\ [Next]_vars => [Record!Next]_deploy
  BY RecordStep
<1> QED
  BY <1>1, <1>2, InvHolds, PTL DEF Spec, RecordTransitions, Record!Spec

(***************************************************************************)
(* Runs that nothing cut short, and the drain.                             *)
(***************************************************************************)

(* A job starts on a Site at rest.                                         *)
LEMMA UndisturbedStart ==
  ASSUME Inv, UndisturbedInv, interrupts = 0, StartJob
  PROVE  UndisturbedInv'
<1> TypeOK
  BY DEF Inv
<1> USE NoneAssumption DEF UndisturbedInv, AtRest, FoundRoute, Deployed, AfterRoute, Begin,
   ModesMatch
<1>1. CASE \E i \in Images, m \in Modes : StartBootstrap(i, m)
  BY <1>1 DEF StartBootstrap
<1>2. CASE \E i \in Images, m \in Modes : StartSwitch(i, m)
  BY <1>2 DEF StartSwitch
<1>3. CASE \E m \in Modes : StartReconcile(m)
  BY <1>3 DEF StartReconcile
<1>4. CASE \E m \in Modes : StartRollback(m)
  BY <1>4 DEF StartRollback
<1>5. CASE \E m \in Modes : AdoptModes(m)
  BY <1>5 DEF AdoptModes, DeployStates, TypeOK
<1> QED
  BY <1>1, <1>2, <1>3, <1>4, <1>5 DEF StartJob

(* The commands that change neither the containers nor the record, and     *)
(* with them the route, leave the slot that was found running.             *)
LEMMA UndisturbedRoute ==
  ASSUME Inv, UndisturbedInv, interrupts = 0,
         \/ RenderEnv \/ StartData \/ CopyData \/ ProbeInternal \/ WriteRoute
         \/ ProbePublicPasses \/ ProbePublicFails \/ RestoreRoute \/ Drain \/ WriteMarker
  PROVE  UndisturbedInv'
<1>1. pc # "idle"
  BY DEF RenderEnv, StartData, CopyData, ProbeInternal, WriteRoute, ProbePublicPasses,
     ProbePublicFails, RestoreRoute, Drain, WriteMarker
<1>2. /\ job \in Jobs /\ ProgressInv
      /\ job.script # "bootstrap" => DeployedInv /\ deploy \in DeployStates
      /\ job.script = "bootstrap" => BootstrapInv
      /\ pc \in AfterStart => cont[job.slot].up
  BY <1>1, JobFacts, WantedFacts DEF ProgressInv
<1> USE <1>1, <1>2 DEF UndisturbedInv, AtRest, FoundRoute, Deployed, AfterRoute, AfterStart,
   SwitchesSlots, Jobs, Scripts, DeployedInv, BootstrapInv, ProgressInv, Goto, Exit
<1>3. CASE RenderEnv
  BY <1>3 DEF RenderEnv
<1>4. CASE StartData
  BY <1>4 DEF StartData
<1>5. CASE CopyData
  BY <1>5 DEF CopyData
<1>6. CASE ProbeInternal
  BY <1>6 DEF ProbeInternal
<1>7. CASE WriteRoute
  BY <1>7 DEF WriteRoute, ToRoute
<1>8. CASE ProbePublicPasses
  BY <1>8 DEF ProbePublicPasses
<1>9. CASE ProbePublicFails
  BY <1>9 DEF ProbePublicFails
<1>10. CASE RestoreRoute
  BY <1>10 DEF RestoreRoute, ToRoute
<1>11. CASE Drain
  BY <1>11 DEF Drain
<1>12. CASE WriteMarker
  BY <1>12, OtherSlot DEF WriteMarker, Other
<1> QED
  BY <1>3, <1>4, <1>5, <1>6, <1>7, <1>8, <1>9, <1>10, <1>11, <1>12

(* A started slot runs, and no other slot is touched.                      *)
LEMMA UndisturbedStarted ==
  ASSUME Inv, UndisturbedInv, interrupts = 0, StartSlot
  PROVE  UndisturbedInv'
<1>1. /\ cont' = [cont EXCEPT ![job.slot] = Wanted]
      /\ pc = "start" /\ pc' \in {"probeInternal", "writeRoute"}
      /\ UNCHANGED <<deploy, job, route>>
  BY DEF StartSlot, Goto
<1>2. /\ job \in Jobs /\ TypeOK
      /\ job.script # "bootstrap" => DeployedInv /\ deploy \in DeployStates
      /\ job.script = "bootstrap" => BootstrapInv
  BY <1>1, JobFacts DEF Inv
<1>3. /\ cont'[job.slot].up
      /\ \A s \in Slots : s # job.slot => cont'[s] = cont[s]
  <2>1. Wanted \in Containers /\ Wanted.up
    BY <1>2, WantedFacts
  <2> QED
    BY <1>1, <1>2, <2>1, MadeFacts DEF Jobs
<1> USE DEF UndisturbedInv
<1>4. job.script = "bootstrap" => ~cont'["green"].up
  BY <1>1, <1>2, <1>3 DEF BootstrapInv, Slots
<1>5. job.script = "reconcile" => ~cont'[Other(job.slot)].up
  BY <1>1, <1>2, <1>3, OtherSlot DEF Jobs
<1>6. job.script # "bootstrap" => cont'[deploy.activeSlot].up
  <2>1. CASE job.script = "reconcile"
    BY <1>2, <1>3, <2>1 DEF DeployedInv
  <2>2. CASE job.script \notin {"reconcile", "bootstrap"}
    BY <1>1, <1>2, <1>3, <2>2 DEF DeployStates
  <2> QED
    BY <2>1, <2>2
<1>7. ~Deployed => job.script = "bootstrap"
  BY <1>2 DEF DeployedInv
<1> QED
  BY <1>1, <1>4, <1>5, <1>6, <1>7 DEF AtRest, FoundRoute, Deployed, AfterRoute

(* Nothing cut short, a container made anew is the reconciled one: a       *)
(* bootstrap finds none, a switch or rollback stopped its target.          *)
LEMMA UndisturbedRecreated ==
  ASSUME Inv, UndisturbedInv, interrupts = 0, RecreateSlot
  PROVE  UndisturbedInv'
<1>1. /\ pc = "start" /\ pc # "idle" /\ cont' = Stopped(job.slot)
      /\ UNCHANGED <<deploy, job, route, pc>>
  BY DEF RecreateSlot
<1>2. /\ job \in Jobs /\ TypeOK
      /\ job.script # "bootstrap" => DeployedInv /\ deploy \in DeployStates
      /\ job.script = "bootstrap" => BootstrapInv
  BY <1>1, JobFacts DEF Inv
<1>3. /\ ~cont'[job.slot].up
      /\ \A s \in Slots : s # job.slot => cont'[s] = cont[s]
  BY <1>1, <1>2, StoppedFacts DEF Jobs
<1> USE DEF UndisturbedInv
<1>4. job.script = "bootstrap" => ~cont'["green"].up
  BY <1>1, <1>2, <1>3 DEF BootstrapInv, Slots
<1>5. job.script = "reconcile" => ~cont'[Other(job.slot)].up
  BY <1>1, <1>2, <1>3, OtherSlot DEF Jobs
<1>6. job.script \notin {"bootstrap", "reconcile"} => cont'[deploy.activeSlot].up
  BY <1>1, <1>2, <1>3, OtherSlot DEF DeployedInv, SwitchesSlots, DeployStates, Jobs, Scripts
<1>7. ~Deployed => job.script = "bootstrap"
  BY <1>2 DEF DeployedInv
<1> QED
  BY <1>1, <1>4, <1>5, <1>6, <1>7 DEF AtRest, FoundRoute, Deployed, AfterRoute

(* A stopped slot is the target, before it is routed or after it failed,   *)
(* or the old slot when the new one is routed.                             *)
LEMMA UndisturbedStopped ==
  ASSUME Inv, UndisturbedInv, interrupts = 0, StopTarget \/ StopFailed \/ StopOld
  PROVE  UndisturbedInv'
<1>1. pc # "idle"
  BY DEF StopTarget, StopFailed, StopOld
<1>2. /\ job \in Jobs /\ ProgressInv /\ TypeOK
      /\ job.script # "bootstrap" => DeployedInv /\ deploy \in DeployStates
      /\ job.script = "bootstrap" => BootstrapInv
  BY <1>1, JobFacts DEF Inv
<1> USE <1>1, <1>2, StoppedFacts, OtherSlot
    DEF UndisturbedInv, AtRest, FoundRoute, Deployed, AfterRoute, SwitchesSlots, Jobs, Scripts,
        DeployedInv, BootstrapInv, ProgressInv, DeployStates
<1>3. CASE StopTarget
  BY <1>3 DEF StopTarget, Goto
<1>4. CASE StopFailed
  BY <1>4 DEF StopFailed, Exit
<1>5. CASE StopOld
  BY <1>5 DEF StopOld, Goto
<1> QED
  BY <1>3, <1>4, <1>5

(* The record is written when the new slot is routed and the old stopped.  *)
LEMMA UndisturbedRecord ==
  ASSUME Inv, UndisturbedInv, interrupts = 0, WriteState
  PROVE  UndisturbedInv'
<1>1. /\ pc = "writeState" /\ UNCHANGED <<cont, route>>
      /\ deploy' \in DeployStates /\ deploy'.activeSlot = job.slot
  BY WrittenRecord DEF WriteState
<1>2. deploy' # None
  BY <1>1, NoneAssumption
<1>3. /\ job \in Jobs /\ ProgressInv
      /\ job.script # "bootstrap" => DeployedInv /\ deploy \in DeployStates
  BY <1>1, JobFacts
<1>4. CASE job.script = "bootstrap"
  <2>1. pc' = "writeMarker" /\ UNCHANGED job
    BY <1>4 DEF WriteState, Goto
  <2> QED
    BY <1>1, <1>2, <1>4, <2>1 DEF UndisturbedInv, AtRest, Deployed, AfterRoute
<1>5. CASE job.script # "bootstrap"
  <2>1. pc' = "idle"
    BY <1>5 DEF WriteState, Exit
  <2>2. route = job.slot /\ cont[job.slot].up
    BY <1>1, <1>3, WantedFacts DEF ProgressInv, AfterRoute, AfterStart
  <2>3. ~cont[Other(job.slot)].up
    BY <1>1, <1>3, <1>5, OtherSlot, WrittenRecord DEF ProgressInv, DeployedInv, DeployStates
  <2> QED
    BY <1>1, <1>2, <2>1, <2>2, <2>3 DEF UndisturbedInv, AtRest, Deployed
<1> QED
  BY <1>4, <1>5

(* What an undisturbed run relies on stays so.                             *)
LEMMA NextUndisturbed ==
  ASSUME Inv, UndisturbedInv, [Next]_vars
  PROVE  UndisturbedInv'
<1> SUFFICES ASSUME interrupts' = 0
             PROVE  UndisturbedInv'
  BY DEF UndisturbedInv
<1>1. interrupts \in Nat /\ ~StartSlotFails /\ ~Interrupt
  BY DEF Inv, TypeOK, timers, StartSlotFails, Interrupt
<1>2. CASE UNCHANGED vars
  BY <1>2 DEF vars, UndisturbedInv, AtRest, Deployed, FoundRoute
<1>3. CASE TraefikReload \/ Tick
  BY <1>3 DEF TraefikReload, Tick, UndisturbedInv, AtRest, Deployed, FoundRoute
<1>4. CASE StartJob
  <2>1. interrupts = 0
    BY <1>4 DEF StartJob, StartBootstrap, StartSwitch, StartReconcile, StartRollback,
       AdoptModes, Begin
  <2> QED
    BY <1>4, <2>1, UndisturbedStart
<1>5. CASE Command
  <2>1. interrupts = 0
    BY <1>5 DEF Command, RenderEnv, StartData, StopTarget, CopyData, RecreateSlot, StartSlot,
       ProbeInternal,
       WriteRoute, ProbePublicPasses, ProbePublicFails, RestoreRoute, StopFailed, Drain,
       StopOld, WriteState, WriteMarker
  <2> QED
    BY <1>5, <2>1, UndisturbedRoute, UndisturbedRecreated, UndisturbedStarted,
       UndisturbedStopped, UndisturbedRecord DEF Command
<1> QED
  BY <1>1, <1>2, <1>3, <1>4, <1>5 DEF Next

(* A second off both timers keeps what one is ahead of the other.          *)
LEMMA OneSecondLess ==
  \A a, b, c, m, n \in Nat :
     a > 0 /\ a + m <= b + n /\ b <= c + 1 => (a - 1) + m <= c + n
OBVIOUS

(* A drain that Traefik is late for has lasted as long as Traefik was      *)
(* late: it starts after the route was written, and both timers run.       *)
LEMMA NextTimers ==
  ASSUME Inv, TimersInv, [Next]_vars
  PROVE  TimersInv'
<1>0. /\ due \in 0..ReloadSeconds /\ rest \in 0..DrainSeconds
      /\ ReloadSeconds \in Nat /\ DrainSeconds \in Nat
  BY BoundAssumption DEF Inv, TypeOK
<1> SUFFICES ASSUME pc' = "drain", loaded' # route'
             PROVE  due' + DrainSeconds <= rest' + ReloadSeconds
  BY DEF TimersInv
<1>1. CASE Tick
  <2>1. due > 0 /\ due' = due - 1 /\ rest <= rest' + 1 /\ rest' \in Nat
    BY <1>0, <1>1 DEF Tick, Less
  <2>2. due + DrainSeconds <= rest + ReloadSeconds
    BY <1>1 DEF Tick, TimersInv
  <2>3. due \in Nat /\ rest \in Nat
    BY <1>0
  <2> QED
    BY <1>0, <2>1, <2>2, <2>3, OneSecondLess
<1>2. CASE TraefikReload
  BY <1>2 DEF TraefikReload
<1>3. CASE UNCHANGED vars
  BY <1>3 DEF vars, timers, TimersInv
<1>4. CASE ProbePublicPasses
  <2>1. rest' = DrainSeconds /\ due' = due
    BY <1>4 DEF ProbePublicPasses, Goto, Exit
  <2> QED
    BY <1>0, <2>1
<1>5. ~StartJob /\ ~StartSlotFails /\ ~Interrupt
  <2>1. ~(\E m \in Modes : AdoptModes(m))
    BY DEF AdoptModes
  <2> QED
    BY <2>1 DEF StartJob, StartBootstrap, StartSwitch, StartReconcile, StartRollback, Begin,
       StartSlotFails, Interrupt, Exit
<1>6. Command => ProbePublicPasses
  BY DEF Command, RenderEnv, StartData, StopTarget, CopyData, RecreateSlot, StartSlot,
     ProbeInternal, WriteRoute, ProbePublicFails, RestoreRoute, StopFailed, Drain, StopOld,
     WriteState, WriteMarker, Goto, Exit
<1> QED
  BY <1>1, <1>2, <1>3, <1>4, <1>5, <1>6 DEF Next

(* The whole invariant of a Site's scripts: what holds wherever they are   *)
(* cut short, what holds as long as they are not, and the timers.          *)
THEOREM ReleaseInvHolds == Spec => []ReleaseInv
<1>1. Init => UndisturbedInv
  <2> SUFFICES ASSUME Init
               PROVE  UndisturbedInv
    OBVIOUS
  <2>1. pc = "idle"
    BY DEF Init
  <2>2. CASE InitNew
    BY <2>1, <2>2 DEF InitNew, UndisturbedInv, AtRest, Deployed, Absent, Slots
  <2>3. CASE InitLegacy
    <3>1. PICK i \in Images, m \in Modes, setup \in BOOLEAN :
            /\ deploy = [activeSlot |-> "blue", activeImage |-> i, mode |-> None,
                         previousSlot |-> None, previousImage |-> None]
            /\ route = "blue"
            /\ cont = [s \in Slots |->
                         IF s = "blue" THEN [up |-> TRUE, image |-> i, setup |-> setup]
                       ELSE Absent]
      BY <2>3 DEF InitLegacy
    <3>2. deploy # None /\ deploy.activeSlot = "blue"
      <4>1. deploy \in DeployStates
        BY <3>1 DEF DeployStates, Slots
      <4> QED
        BY <3>1, <4>1, NoneAssumption
    <3>3. cont["blue"].up /\ ~cont["green"].up
      BY <3>1 DEF Absent, Slots
    <3> QED
      BY <2>1, <3>1, <3>2, <3>3 DEF UndisturbedInv, AtRest, Deployed, Other
  <2> QED
    BY <2>2, <2>3 DEF Init
<1>2. Inv /\ UndisturbedInv /\ [Next]_vars => UndisturbedInv'
  BY NextUndisturbed
<1>3. Init => TimersInv
  BY DEF Init, TimersInv
<1>4. Inv /\ TimersInv /\ [Next]_vars => TimersInv'
  BY NextTimers
<1>5. ReleaseInv <=> Inv /\ UndisturbedInv /\ TimersInv
  BY DEF ReleaseInv
<1> QED
  BY <1>1, <1>2, <1>3, <1>4, <1>5, InvHolds, PTL DEF Spec

(* As long as no job was cut short, whatever probes fail, the slot the     *)
(* route file names is down only while a reconcile makes it anew.          *)
THEOREM OnlyReconcileStopsRoutedHolds ==
  Spec => [](interrupts = 0 => OnlyReconcileStopsRouted)
<1>1. ReleaseInv => (interrupts = 0 => OnlyReconcileStopsRouted)
  <2> SUFFICES ASSUME Inv, UndisturbedInv, interrupts = 0, route # None, ~cont[route].up
               PROVE  pc = "start" /\ job.script = "reconcile"
    BY DEF ReleaseInv, OnlyReconcileStopsRouted
  <2>1. CASE pc = "idle"
    BY <2>1 DEF UndisturbedInv, AtRest
  <2>2. CASE pc \in AfterRoute
    <3>1. route = job.slot /\ cont[job.slot] = Wanted /\ Wanted.up
      BY <2>2, JobFacts, WantedFacts DEF ProgressInv, AfterRoute, AfterStart
    <3> QED
      BY <3>1
  <2>3. CASE pc \notin AfterRoute \cup {"idle"}
    BY <2>3 DEF UndisturbedInv, FoundRoute, AfterRoute
  <2> QED
    BY <2>1, <2>2, <2>3
<1> QED
  BY <1>1, ReleaseInvHolds, PTL

(* As long as no job was cut short, record, route and containers agree     *)
(* between runs, after failed ones too.                                    *)
THEOREM AtRestHolds == Spec => [](interrupts = 0 => AtRest)
<1>1. ReleaseInv => (interrupts = 0 => AtRest)
  BY DEF ReleaseInv, UndisturbedInv
<1> QED
  BY <1>1, ReleaseInvHolds, PTL

(* If the drain is longer than Traefik takes to reload, a release stops    *)
(* the old slot only when Traefik has left it, however other jobs were cut *)
(* short before and whatever answered the public probe.                    *)
THEOREM DrainProtectsHolds == Spec => []((DrainSeconds > ReloadSeconds) => DrainProtects)
<1>1. Init => DrainProtects
  BY DEF Init, DrainProtects
<1>2. Inv /\ TimersInv /\ (DrainSeconds > ReloadSeconds => DrainProtects) /\ [Next]_vars
         => (DrainSeconds > ReloadSeconds => DrainProtects')
  <2> SUFFICES ASSUME Inv, TimersInv, DrainSeconds > ReloadSeconds, DrainProtects, [Next]_vars,
                      pc' \in {"stopOld", "writeState"}, job'.script = "switch"
               PROVE  loaded' = job'.slot
    BY DEF DrainProtects
  <2>1. pc \in {"drain", "stopOld", "writeState"} => route = job.slot
    BY JobFacts DEF ProgressInv, AfterRoute
  <2>2. CASE Drain
    <3>1. pc = "drain" /\ rest = 0 /\ loaded' = loaded /\ job' = job
      BY <2>2 DEF Drain, Goto
    <3>2. due \in Nat /\ DrainSeconds \in Nat /\ ReloadSeconds \in Nat
      BY BoundAssumption DEF Inv, TypeOK
    <3>3. loaded = route
      BY <3>1, <3>2 DEF TimersInv
    <3> QED
      BY <2>1, <3>1, <3>3
  <2>3. CASE TraefikReload
    BY <2>1, <2>3 DEF TraefikReload, DrainProtects
  <2>4. CASE UNCHANGED vars \/ Tick \/ StopOld
    BY <2>4 DEF vars, Tick, StopOld, Goto, DrainProtects
  <2>5. CASE ProbePublicPasses
    BY <2>5 DEF ProbePublicPasses, Goto, Exit
  <2>6. ~StartJob /\ ~StartSlotFails /\ ~Interrupt
    BY DEF StartJob, StartBootstrap, StartSwitch, StartReconcile, StartRollback, Begin,
       AdoptModes, StartSlotFails, Interrupt, Exit, DrainProtects
  <2>7. Command => Drain \/ ProbePublicPasses \/ StopOld
    BY DEF Command, RenderEnv, StartData, StopTarget, CopyData, RecreateSlot, StartSlot,
       ProbeInternal, WriteRoute, ProbePublicFails, RestoreRoute, StopFailed, WriteState,
       WriteMarker, Goto, Exit
  <2> QED
    BY <2>2, <2>3, <2>4, <2>5, <2>6, <2>7 DEF Next
<1>3. (DrainSeconds > ReloadSeconds => DrainProtects)'
         <=> (DrainSeconds > ReloadSeconds => DrainProtects')
  OBVIOUS
<1>4. ReleaseInv => Inv /\ TimersInv
  BY DEF ReleaseInv
<1> QED
  BY <1>1, <1>2, <1>3, <1>4, ReleaseInvHolds, PTL DEF Spec
=============================================================================
