------------------------ MODULE NeonEndpoint_proofs ------------------------
(***************************************************************************)
(* A successful run of the endpoint's reconciliation is in effect, for any *)
(* settings and any number of changes, faults and PATCHes in flight:       *)
(* EndpointInv is inductive.                                               *)
(***************************************************************************)
EXTENDS NeonEndpoint, TLAPS

(* A new run counts what was in flight among the strays, and is clean only *)
(* if none of them asks for other settings.                                *)
LEMMA BeginPreserves ==
  ASSUME EndpointInv, NEW w \in Settings, Begin(w), changes' \in 0..MaxChanges
  PROVE  EndpointInv'
<1>1. stray' \in [Settings -> Nat] /\ inflight' \in Nat
  BY DEF Begin, EndpointInv, TypeOK
<1>2. attempt' \in 0..Attempts - 1
  BY DEF Begin, Attempts
<1>3. TypeOK'
  BY <1>1, <1>2 DEF Begin, EndpointInv, TypeOK, Requests
<1>4. clean' => \A s \in Settings \ {want'} : stray'[s] = 0
  BY DEF Begin
<1>5. InEffect'
  BY DEF Begin, InEffect
<1> QED
  BY <1>3, <1>4, <1>5 DEF EndpointInv

(* The loops count to their bound.                                         *)
LEMMA NextAttemptType ==
  ASSUME TypeOK, NEW request \in {"patch", "verify"}, NextAttempt(request)
  PROVE  pc' \in {"failed", request} /\ attempt' \in 0..Attempts - 1
BY DEF NextAttempt, TypeOK, Attempts

(* A run reports success only where it has just seen its settings.         *)
LEMMA RunPreserves ==
  ASSUME EndpointInv, Run
  PROVE  EndpointInv'
<1>1. TypeOK
  BY DEF EndpointInv
<1>2. CASE List
  BY <1>1, <1>2 DEF List, NeonUnchanged, RunUnchanged, EndpointInv, TypeOK, InEffect, Requests
<1>3. CASE Read
  BY <1>1, <1>3 DEF Read, Matches, NeonUnchanged, RunUnchanged, EndpointInv, TypeOK, InEffect,
     Requests, Ends
<1>4. CASE SendPatch
  BY <1>1, <1>4 DEF SendPatch, RunUnchanged, EndpointInv, TypeOK, InEffect, Requests
<1>5. CASE PatchAccepted
  <2>1. attempt' \in 0..Attempts - 1
    BY <1>5 DEF PatchAccepted, Attempts
  <2> QED
    BY <1>1, <1>5, <2>1 DEF PatchAccepted, NeonUnchanged, RunUnchanged, EndpointInv, TypeOK,
       InEffect, Requests
<1>6. CASE Verify
  <2>1. CASE Matches
    BY <1>1, <1>6, <2>1 DEF Verify, Matches, NeonUnchanged, RunUnchanged, EndpointInv, TypeOK,
       InEffect, Ends
  <2>2. CASE ~Matches
    <3>1. pc' \in {"failed", "verify"} /\ attempt' \in 0..Attempts - 1
      BY <1>1, <1>6, <2>2, NextAttemptType DEF Verify
    <3> QED
      BY <1>1, <1>6, <3>1 DEF Verify, NeonUnchanged, RunUnchanged, EndpointInv, TypeOK,
         InEffect, Requests, Ends
  <2> QED
    BY <2>1, <2>2
<1> QED
  BY <1>2, <1>3, <1>4, <1>5, <1>6 DEF Run

(* Whatever comes into effect while the run is clean asks for its settings. *)
LEMMA LandPreserves ==
  ASSUME EndpointInv, Land \/ \E s \in Settings : LandStray(s)
  PROVE  EndpointInv'
<1>1. CASE Land
  BY <1>1 DEF Land, RunUnchanged, EndpointInv, TypeOK, InEffect
<1>2. ASSUME NEW s \in Settings, LandStray(s)
      PROVE  EndpointInv'
  <2>1. stray[s] \in Nat /\ stray[s] > 0
    BY <1>2 DEF LandStray, EndpointInv, TypeOK
  <2>2. stray' \in [Settings -> Nat]
    BY <1>2, <2>1 DEF LandStray, EndpointInv, TypeOK
  <2>3. clean => s = want
    BY <2>1, <1>2 DEF EndpointInv, LandStray
  <2>4. \A v \in Settings \ {s} : stray'[v] = stray[v]
    BY <1>2 DEF LandStray, EndpointInv, TypeOK
  <2>5. InEffect'
    BY <1>2, <2>3 DEF LandStray, RunUnchanged, InEffect
  <2>6. clean' => \A v \in Settings \ {want'} : stray'[v] = 0
    BY <1>2, <2>3, <2>4 DEF LandStray, RunUnchanged, EndpointInv
  <2> QED
    BY <1>2, <2>2, <2>5, <2>6 DEF LandStray, RunUnchanged, EndpointInv, TypeOK
<1> QED
  BY <1>1, <1>2

(* No error answer, and no kill, is taken for a success.                   *)
LEMMA FaultPreserves ==
  ASSUME EndpointInv, PatchTransient \/ PatchFails \/ VerifyTransient \/ ReadFails \/ Kill
  PROVE  EndpointInv'
<1>1. TypeOK
  BY DEF EndpointInv
<1>2. faults' \in 0..MaxFaults
  BY <1>1, BoundAssumption
     DEF PatchTransient, PatchFails, VerifyTransient, ReadFails, Kill, Fault, TypeOK
<1>3. pc' \in (Requests \cup Ends) \ {"done"} /\ attempt' \in 0..Attempts - 1
  BY <1>1, NextAttemptType
     DEF PatchTransient, PatchFails, VerifyTransient, ReadFails, Kill, Requests, Ends, TypeOK
<1>4. inflight' \in Nat /\ UNCHANGED <<settings, stray, want, clean, changes>>
  BY <1>1 DEF PatchTransient, PatchFails, VerifyTransient, ReadFails, Kill, MaybeDropped,
     NeonUnchanged, RunUnchanged, TypeOK
<1> QED
  BY <1>1, <1>2, <1>3, <1>4 DEF EndpointInv, TypeOK, InEffect

(* The invariant of the runs of reconcile-neon-endpoint.ts.                *)
THEOREM EndpointHolds == Spec => []EndpointInv
<1>1. Init => EndpointInv
  BY BoundAssumption DEF Init, EndpointInv, TypeOK, InEffect, Requests, Attempts
<1>2. EndpointInv /\ [Next]_vars => EndpointInv'
  <2> SUFFICES ASSUME EndpointInv, [Next]_vars
               PROVE  EndpointInv'
    OBVIOUS
  <2>1. CASE Retry
    BY <2>1, BeginPreserves DEF Retry, EndpointInv, TypeOK
  <2>2. ASSUME NEW s \in Settings, Reconfigure(s)
        PROVE  EndpointInv'
    <3>1. changes' \in 0..MaxChanges
      BY <2>2, BoundAssumption DEF Reconfigure, EndpointInv, TypeOK
    <3> QED
      BY <2>2, <3>1, BeginPreserves DEF Reconfigure
  <2>3. CASE UNCHANGED vars
    BY <2>3 DEF vars, EndpointInv, TypeOK, InEffect
  <2> QED
    BY <2>1, <2>2, <2>3, RunPreserves, LandPreserves, FaultPreserves DEF Next
<1> QED
  BY <1>1, <1>2, PTL DEF Spec

(* A run that reported success leaves its settings in effect, but for      *)
(* PATCHes that runs for other settings left behind.                       *)
THEOREM InEffectHolds == Spec => []InEffect
<1>1. EndpointInv => InEffect
  BY DEF EndpointInv
<1> QED
  BY <1>1, EndpointHolds, PTL
=============================================================================
