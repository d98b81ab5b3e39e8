---------------------------- MODULE NeonEndpoint ----------------------------
(***************************************************************************)
(* reconcile-neon-endpoint.ts: one run of the command brings the settings  *)
(* of a Site's Neon endpoint (autoscaling limits and suspend timeout, here *)
(* one value) to those of the configuration: read, PATCH with retries,     *)
(* verify with retries.  Pulumi makes the runs, one at a time; a run that  *)
(* failed or was killed is made again by a later update, maybe for other   *)
(* settings.                                                               *)
(*                                                                         *)
(* Neon is external: a PATCH it accepted is in effect some time later; an  *)
(* error answer does not say whether the PATCH will be; and a PATCH of a   *)
(* run that has ended may still come into effect.  `inflight' counts the   *)
(* PATCHes of the present run that may do so, `stray' those of earlier     *)
(* runs.  A GET is answered from the settings in effect.                   *)
(***************************************************************************)
EXTENDS Naturals

CONSTANTS
    Settings,      \* values of the three settings together
    MaxChanges,    \* bound: how often the configuration is changed
    MaxFaults,     \* bound: kills and answers that are errors
    MaxInFlight    \* bound: PATCHes for the same settings that Neon has not handled

ASSUME BoundAssumption ==
    MaxChanges \in Nat /\ MaxFaults \in Nat /\ MaxInFlight \in Nat \ {0}

VARIABLES
    settings,   \* in effect in Neon
    want,       \* those of the configuration: what the run is for
    pc,         \* the request the run makes next, or how it ended
    attempt,    \* of the loop the run is in
    inflight, stray,
    clean,      \* history: no PATCH for other settings was left when the run began
    changes, faults

vars == <<settings, want, pc, attempt, inflight, stray, clean, changes, faults>>

Attempts == 5

Requests == {"list", "read", "patch", "sent", "verify"}

Ends == {"done", "failed", "killed"}

TypeOK ==
    /\ settings \in Settings /\ want \in Settings
    /\ pc \in Requests \cup Ends
    /\ attempt \in 0..Attempts - 1
    /\ inflight \in Nat /\ stray \in [Settings -> Nat]
    /\ clean \in BOOLEAN
    /\ changes \in 0..MaxChanges /\ faults \in 0..MaxFaults

Init ==
    /\ settings \in Settings /\ want \in Settings
    /\ pc = "list" /\ attempt = 0
    /\ inflight = 0 /\ stray = [s \in Settings |-> 0]
    /\ clean = TRUE
    /\ changes = 0 /\ faults = 0

NeonUnchanged == UNCHANGED <<settings, inflight, stray>>

RunUnchanged == UNCHANGED <<want, clean, changes>>

(* A new run: what its predecessors left in flight is stray.               *)
Begin(w) ==
    /\ pc \in Ends
    /\ want' = w
    /\ pc' = "list" /\ attempt' = 0
    /\ inflight' = 0
    /\ stray' = [stray EXCEPT ![want] = @ + inflight]
    /\ clean' = \A s \in Settings \ {w} : stray'[s] = 0
    /\ UNCHANGED <<settings, faults>>

Retry ==
    /\ pc \in {"failed", "killed"}
    /\ Begin(want)
    /\ UNCHANGED changes

Reconfigure(w) ==
    /\ changes < MaxChanges
    /\ changes' = changes + 1
    /\ Begin(w)

(* Mutant: the settings of the environment are strings, those of Neon      *)
(* numbers.                                                                *)
MatchesNever == FALSE

(* endpointSettingsMismatch(...) === null                                  *)
Matches == settings = want

(* The endpoint of the host is looked up, and its settings are read.       *)
List ==
    /\ pc = "list"
    /\ pc' = "read"
    /\ UNCHANGED <<attempt, faults>> /\ NeonUnchanged /\ RunUnchanged

Read ==
    /\ pc = "read"
    /\ pc' = IF Matches THEN "done" ELSE "patch"
    /\ UNCHANGED <<attempt, faults>> /\ NeonUnchanged /\ RunUnchanged

SendPatch ==
    /\ pc = "patch"
    /\ inflight + stray[want] < MaxInFlight
    /\ inflight' = inflight + 1
    /\ pc' = "sent"
    /\ UNCHANGED <<settings, stray, attempt, faults>> /\ RunUnchanged

(* Mutant: an accepted PATCH is success.                                   *)
PatchAcceptedDone ==
    /\ pc = "sent"
    /\ pc' = "done" /\ attempt' = 0
    /\ UNCHANGED faults /\ NeonUnchanged /\ RunUnchanged

PatchAccepted ==
    /\ pc = "sent"
    /\ pc' = "verify" /\ attempt' = 0
    /\ UNCHANGED faults /\ NeonUnchanged /\ RunUnchanged

(* The last attempt throws.                                                *)
NextAttempt(request) ==
    IF attempt = Attempts - 1
    THEN pc' = "failed" /\ UNCHANGED attempt
    ELSE pc' = request /\ attempt' = attempt + 1

(* Mutant: the error after the last verification is not thrown.            *)
VerifyGivesUp ==
    /\ pc = "verify"
    /\ IF Matches \/ attempt = Attempts - 1
       THEN pc' = "done" /\ UNCHANGED attempt ELSE NextAttempt("verify")
    /\ UNCHANGED faults /\ NeonUnchanged /\ RunUnchanged

Verify ==
    /\ pc = "verify"
    /\ IF Matches THEN pc' = "done" /\ UNCHANGED attempt ELSE NextAttempt("verify")
    /\ UNCHANGED faults /\ NeonUnchanged /\ RunUnchanged

Run == List \/ Read \/ SendPatch \/ PatchAccepted \/ Verify

(***************************************************************************)
(* Neon handles a PATCH, whether or not its sender waits.                  *)
(***************************************************************************)
Land ==
    /\ inflight > 0
    /\ inflight' = inflight - 1
    /\ settings' = want
    /\ UNCHANGED <<stray, pc, attempt, faults>> /\ RunUnchanged

LandStray(s) ==
    /\ stray[s] > 0
    /\ stray' = [stray EXCEPT ![s] = @ - 1]
    /\ settings' = s
    /\ UNCHANGED <<inflight, pc, attempt, faults>> /\ RunUnchanged

(***************************************************************************)
(* Faults.  After an error the PATCH may be in effect, still come into     *)
(* effect, or be dropped.                                                  *)
(***************************************************************************)
Fault == faults < MaxFaults /\ faults' = faults + 1

MaybeDropped ==
    /\ inflight' \in {inflight} \cup (IF inflight > 0 THEN {inflight - 1} ELSE {})
    /\ UNCHANGED <<settings, stray>>

(* 408, 412, 429 or 5xx                                                    *)
PatchTransient ==
    /\ pc = "sent"
    /\ Fault
    /\ NextAttempt("patch")
    /\ MaybeDropped /\ RunUnchanged

(* Any other status, or none: the connection broke.                        *)
PatchFails ==
    /\ pc = "sent"
    /\ Fault
    /\ pc' = "failed" /\ UNCHANGED attempt
    /\ MaybeDropped /\ RunUnchanged

(* 408, 429, 5xx or a broken connection, which is tried again here.        *)
VerifyTransient ==
    /\ pc = "verify"
    /\ Fault
    /\ NextAttempt("verify")
    /\ NeonUnchanged /\ RunUnchanged

ReadFails ==
    /\ pc \in {"list", "read", "verify"}
    /\ Fault
    /\ pc' = "failed" /\ UNCHANGED attempt
    /\ NeonUnchanged /\ RunUnchanged

Kill ==
    /\ pc \in Requests
    /\ Fault
    /\ pc' = "killed" /\ UNCHANGED attempt
    /\ NeonUnchanged /\ RunUnchanged

Next ==
    \/ Retry \/ Run \/ Land
    \/ \E s \in Settings : Reconfigure(s) \/ LandStray(s)
    \/ PatchTransient \/ PatchFails \/ VerifyTransient \/ ReadFails \/ Kill

Spec == Init /\ [][Next]_vars

(* Every request is answered in the end (fetch gives up by itself), Neon   *)
(* handles what it has, and an update that failed is run again.            *)
FairSpec ==
    /\ Spec
    /\ WF_vars(Run) /\ WF_vars(Retry)
    /\ WF_vars(Land \/ \E s \in Settings : LandStray(s))

(***************************************************************************)
(* Properties.                                                             *)
(***************************************************************************)

(* A run that reported success leaves its settings in effect until the     *)
(* next run, although answers got lost, PATCHes were sent more than once   *)
(* and some of them come into effect only afterwards.  Only a PATCH for    *)
(* other settings that an earlier run left behind can undo it.             *)
InEffect == pc = "done" /\ clean => settings = want

(* Why it holds: whatever may still come into effect asks for the same.    *)
EndpointInv ==
    /\ TypeOK
    /\ clean => \A s \in Settings \ {want} : stray[s] = 0
    /\ InEffect

(* When faults and changes of the configuration cease, so do the retries:  *)
(* a run succeeds and, unless there were such PATCHes, its settings stay.  *)
Converges == <>[](pc = "done" /\ (clean => settings = want))
=============================================================================
