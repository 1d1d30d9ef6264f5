----------------------------- MODULE TunnelProofs -----------------------------
(***************************************************************************)
(* Proofs about module Tunnel, for every number of processes and probes and *)
(* for providers with and without the DNS fallback.                         *)
(***************************************************************************)
EXTENDS Tunnel, TLAPS

(* What the output files, s.publicURL and the probes hold in each phase of *)
(* the start: nothing runs outside "wait" and "healthy"; the files never   *)
(* name a process that did not run last; the probe that waitReady will     *)
(* accept has left a URL behind; and, unless a probe has crossed a         *)
(* Prepare, nothing but the URL of the last process is in any hand.        *)
PhaseInv ==
  /\ pc \notin {"wait", "healthy"} => live = 0
  /\ live \in {0, started}
  /\ output.url \in {NoURL, started}
  /\ pc = "launch" => output = Blank
  /\ pc \in {"truncate", "launch"} => started < MaxProcs

AnswerInv ==
  /\ \A k \in Probes : ppc[k] = "store" => text[k].url # NoURL
  /\ probe # 0 => pc = "wait"
  /\ probe # 0 /\ ppc[probe] \in {"dial", "ready"} => publicURL # NoURL
  /\ pc = "healthy" => publicURL # NoURL

CurrentInv ==
  ~crossed =>
    /\ publicURL \in {NoURL, started}
    /\ pc \in {"truncate", "launch"} => publicURL = NoURL
    /\ pc = "truncate" => \A k \in Probes : ~Underway(k)
    /\ \A k \in Probes : ppc[k] \in {"url", "store"} =>
         text[k].url \in (IF pc = "launch" THEN {NoURL} ELSE {NoURL, started})

Inv == TypeOK /\ PhaseInv /\ AnswerInv /\ CurrentInv

LEMMA InitInv == Init => Inv
<1> SUFFICES ASSUME Init PROVE Inv
  OBVIOUS
<1> USE TunnelAssumption DEF Init, NoURL, Blank, Probes
<1>1. TypeOK
  <2>1. Blank \in [url : 0..started, registered : BOOLEAN]
    OBVIOUS
  <2>2. text \in [Probes -> [url : 0..started, registered : BOOLEAN]]
    BY <2>1
  <2>3. output \in [url : 0..started, registered : BOOLEAN]
    BY <2>1
  <2>4. /\ ppc \in [Probes -> {"new", "output", "url", "store", "dial", "ready", "error"}]
        /\ found \in [Probes -> 0..started]
    OBVIOUS
  <2>5. /\ publicURL \in 0..started /\ live \in 0..started /\ started \in 0..MaxProcs
        /\ probe \in 0..probed /\ probed \in 0..MaxProbes
    OBVIOUS
  <2> QED BY <2>2, <2>3, <2>4, <2>5 DEF TypeOK
<1>2. PhaseInv
  BY DEF PhaseInv
<1>3. AnswerInv /\ CurrentInv
  BY DEF AnswerInv, CurrentInv, Underway
<1> QED BY <1>1, <1>2, <1>3 DEF Inv

(* startReadyMode and the monitor preserve the invariant.                  *)
LEMMA StartInv ==
  ASSUME Inv,
         \/ PrepareResetsURL \/ PrepareTruncates \/ StartFails \/ Launch
         \/ WaitReadyProbes \/ ProbeSucceeds \/ ProbeFails \/ NotReady \/ NoticeExit
  PROVE  Inv'
<1> USE TunnelAssumption DEF Inv, NoURL, Blank, Probes, Goto, procVars, probeVars
<1>1. CASE PrepareResetsURL
  BY <1>1
     DEF PrepareResetsURL, TypeOK, PhaseInv, AnswerInv, CurrentInv, Underway
<1>2. CASE PrepareTruncates
  BY <1>2
     DEF PrepareTruncates, TypeOK, PhaseInv, AnswerInv, CurrentInv, Underway
<1>3. CASE StartFails
  BY <1>3
     DEF StartFails, TypeOK, PhaseInv, AnswerInv, CurrentInv, Underway
<1>4. CASE Launch
  <2> USE <1>4 DEF Launch
  <2>1. TypeOK'
    <3>1. /\ started \in Nat /\ started < MaxProcs
          /\ 0..started \subseteq 0..(started + 1)
      BY DEF TypeOK, PhaseInv
    <3>2. text' \in [Probes -> [url : 0..started', registered : BOOLEAN]]
      <4>1. ASSUME NEW k \in Probes
            PROVE  text[k] \in [url : 0..(started + 1), registered : BOOLEAN]
        BY <3>1 DEF TypeOK
      <4> QED BY <4>1 DEF TypeOK
    <3>3. found' \in [Probes -> 0..started']
      BY <3>1 DEF TypeOK
    <3>4. output' \in [url : 0..started', registered : BOOLEAN]
      BY <3>1 DEF TypeOK
    <3> QED BY <3>1, <3>2, <3>3, <3>4 DEF TypeOK
  <2>2. PhaseInv'
    BY DEF PhaseInv, TypeOK
  <2>3. AnswerInv'
    BY DEF AnswerInv, TypeOK
  <2>4. CurrentInv'
    BY DEF CurrentInv, TypeOK, Underway
  <2> QED BY <2>1, <2>2, <2>3, <2>4 DEF Inv
<1>5. CASE WaitReadyProbes
  <2> USE <1>5 DEF WaitReadyProbes
  <2>1. TypeOK'
    BY DEF TypeOK
  <2>2. PhaseInv'
    BY DEF PhaseInv, TypeOK
  <2>3. AnswerInv'
    BY DEF AnswerInv, TypeOK
  <2>4. CurrentInv'
    BY DEF CurrentInv, AnswerInv, PhaseInv, TypeOK, Underway
  <2> QED BY <2>1, <2>2, <2>3, <2>4 DEF Inv
<1>6. CASE ProbeSucceeds
  BY <1>6
     DEF ProbeSucceeds, TypeOK, PhaseInv, AnswerInv, CurrentInv, Underway
<1>7. CASE ProbeFails
  BY <1>7
     DEF ProbeFails, TypeOK, PhaseInv, AnswerInv, CurrentInv, Underway
<1>8. CASE NotReady
  BY <1>8
     DEF NotReady, TypeOK, PhaseInv, AnswerInv, CurrentInv, Underway
<1>9. CASE NoticeExit
  BY <1>9
     DEF NoticeExit, TypeOK, PhaseInv, AnswerInv, CurrentInv, Underway
<1> QED BY <1>1, <1>2, <1>3, <1>4, <1>5, <1>6, <1>7, <1>8, <1>9

(* So do the probes, whoever runs them,                                    *)
LEMMA ProbeInv ==
  ASSUME Inv, DoctorProbes \/ \E k \in Probes : ProbeStep(k) PROVE Inv'
<1> USE TunnelAssumption DEF Inv, NoURL, Blank, Probes, Advance, procVars, probeVars
<1>1. CASE DoctorProbes
  <2> USE <1>1 DEF DoctorProbes
  <2>1. TypeOK'
    BY DEF TypeOK
  <2>2. PhaseInv'
    BY DEF PhaseInv, TypeOK
  <2>3. AnswerInv'
    BY DEF AnswerInv, TypeOK
  <2>4. CurrentInv'
    BY DEF CurrentInv, AnswerInv, PhaseInv, TypeOK, Underway
  <2> QED BY <2>1, <2>2, <2>3, <2>4 DEF Inv
<1>2. ASSUME NEW k \in Probes, ReadOutput(k) PROVE Inv'
  <2> USE <1>2 DEF ReadOutput
  <2>1. TypeOK'
    BY DEF TypeOK
  <2>2. PhaseInv'
    BY DEF PhaseInv, TypeOK
  <2>3. AnswerInv'
    BY DEF AnswerInv, TypeOK
  <2>4. CurrentInv'
    BY DEF CurrentInv, AnswerInv, PhaseInv, TypeOK, Underway
  <2> QED BY <2>1, <2>2, <2>3, <2>4 DEF Inv
<1>3. ASSUME NEW k \in Probes, ReadURL(k) PROVE Inv'
  <2> USE <1>3 DEF ReadURL
  <2>1. TypeOK'
    BY DEF TypeOK
  <2>2. PhaseInv'
    BY DEF PhaseInv, TypeOK
  <2>3. AnswerInv'
    <3>1. \A j \in Probes : ppc'[j] = "store" => text'[j].url # NoURL
      BY DEF AnswerInv, TypeOK
    <3>2. probe' # 0 /\ ppc'[probe'] \in {"dial", "ready"} => publicURL' # NoURL
      BY DEF AnswerInv, TypeOK
    <3> QED BY <3>1, <3>2 DEF AnswerInv
  <2>4. CurrentInv'
    <3>1. ppc[k] = "url" /\ \A j \in Probes : ppc'[j] \in {"url", "store"} =>
                                 ppc[j] \in {"url", "store"}
      BY DEF TypeOK
    <3> QED BY <3>1 DEF CurrentInv, Underway
  <2> QED BY <2>1, <2>2, <2>3, <2>4 DEF Inv
<1>4. ASSUME NEW k \in Probes, StoreURL(k) PROVE Inv'
  <2> USE <1>4 DEF StoreURL
  <2>1. TypeOK'
    BY DEF TypeOK
  <2>2. PhaseInv'
    BY DEF PhaseInv, TypeOK
  <2>3. AnswerInv'
    BY DEF AnswerInv, TypeOK
  <2>4. CurrentInv'
    BY DEF CurrentInv, AnswerInv, PhaseInv, TypeOK, Underway
  <2> QED BY <2>1, <2>2, <2>3, <2>4 DEF Inv
<1>5. ASSUME NEW k \in Probes, Dial(k) PROVE Inv'
  <2> USE <1>5 DEF Dial
  <2>1. TypeOK'
    BY DEF TypeOK
  <2>2. PhaseInv'
    BY DEF PhaseInv, TypeOK
  <2>3. AnswerInv'
    BY DEF AnswerInv, TypeOK
  <2>4. CurrentInv'
    BY DEF CurrentInv, AnswerInv, PhaseInv, TypeOK, Underway
  <2> QED BY <2>1, <2>2, <2>3, <2>4 DEF Inv
<1> QED BY <1>1, <1>2, <1>3, <1>4, <1>5 DEF ProbeStep

(* and the tunnel process.                                                 *)
LEMMA ProcessInv ==
  ASSUME Inv, PrintsURL \/ PrintsRegistered \/ ProcessExits PROVE Inv'
<1> USE TunnelAssumption DEF Inv, NoURL, Blank, Probes, procVars, probeVars
<1>1. CASE PrintsURL
  <2> USE <1>1 DEF PrintsURL
  <2>1. TypeOK'
    BY DEF TypeOK
  <2>2. PhaseInv'
    BY DEF PhaseInv, TypeOK
  <2>3. AnswerInv'
    BY DEF AnswerInv, TypeOK
  <2>4. CurrentInv'
    BY DEF CurrentInv, AnswerInv, PhaseInv, TypeOK, Underway
  <2> QED BY <2>1, <2>2, <2>3, <2>4 DEF Inv
<1>2. CASE PrintsRegistered
  <2> USE <1>2 DEF PrintsRegistered
  <2>1. TypeOK'
    BY DEF TypeOK
  <2>2. PhaseInv'
    BY DEF PhaseInv, TypeOK
  <2>3. AnswerInv'
    BY DEF AnswerInv, TypeOK
  <2>4. CurrentInv'
    BY DEF CurrentInv, AnswerInv, PhaseInv, TypeOK, Underway
  <2> QED BY <2>1, <2>2, <2>3, <2>4 DEF Inv
<1>3. CASE ProcessExits
  <2> USE <1>3 DEF ProcessExits
  <2>1. TypeOK'
    BY DEF TypeOK
  <2>2. PhaseInv'
    BY DEF PhaseInv, TypeOK
  <2>3. AnswerInv'
    BY DEF AnswerInv, TypeOK
  <2>4. CurrentInv'
    BY DEF CurrentInv, AnswerInv, PhaseInv, TypeOK, Underway
  <2> QED BY <2>1, <2>2, <2>3, <2>4 DEF Inv
<1> QED BY <1>1, <1>2, <1>3

(* The invariant holds of every behaviour of a tunnel.                     *)
THEOREM TunnelInvariant == Spec => []Inv
<1>1. Inv /\ UNCHANGED vars => Inv'
  BY DEF Inv, TypeOK, PhaseInv, AnswerInv, CurrentInv, NoURL, Blank, Probes, Underway,
         vars, procVars, probeVars
<1>2. Inv /\ [Next]_vars => Inv'
  BY <1>1, StartInv, ProbeInv, ProcessInv DEF Next
<1> QED BY InitInv, <1>2, PTL DEF Spec

(* Every variable keeps the values of its kind; no URL is invented.        *)
THEOREM TunnelTypes == Spec => []TypeOK
<1>1. Inv => TypeOK
  BY DEF Inv
<1> QED BY <1>1, TunnelInvariant, PTL

(* Prepare's truncation keeps the output of dead processes from probes.    *)
THEOREM OutputIsCurrentHolds == Spec => []OutputIsCurrent
<1>1. Inv => OutputIsCurrent
  BY DEF Inv, PhaseInv, OutputIsCurrent
<1> QED BY <1>1, TunnelInvariant, PTL

(* No interleaving of probes makes a tunnel Healthy without a URL.         *)
THEOREM HealthyHasURLHolds == Spec => []HealthyHasURL
<1>1. Inv => HealthyHasURL
  BY DEF Inv, AnswerInv, HealthyHasURL
<1> QED BY <1>1, TunnelInvariant, PTL

(* Only a probe that was under way during a Prepare can make a Healthy     *)
(* tunnel publish the URL of another process than its own.                 *)
THEOREM CurrentUnlessCrossedHolds == Spec => []CurrentUnlessCrossed
<1>1. Inv => CurrentUnlessCrossed
  BY DEF Inv, PhaseInv, AnswerInv, CurrentInv, CurrentUnlessCrossed, HealthyServesItsURL
<1> QED BY <1>1, TunnelInvariant, PTL

=============================================================================
