-------------------------------- MODULE Tunnel --------------------------------
(***************************************************************************)
(* One tunnel, internal/services/tunnel/service.go: how Prepare forgets the *)
(* URL and the output of the last process, how Probe discovers the URL the  *)
(* new process prints and decides that the tunnel is ready, and what the    *)
(* probes that run beside them do: waitReady leaves a probe behind when the *)
(* process exits or the deadline passes, and Doctor probes at any time.     *)
(*                                                                          *)
(* Processes are numbered 1, 2, ...; the number is also the public URL that *)
(* the provider gives the process, and 0 is no process, no URL.  One action *)
(* is one critical section of s.mu or one access to a file or the network.  *)
(***************************************************************************)
EXTENDS Integers

CONSTANTS
  Warmup,      (* the provider has ReadyDuringDNSWarmup (Cloudflare)       *)
  MaxProcs,    (* bound: processes started                                 *)
  MaxProbes    (* bound: probes started                                    *)

ASSUME TunnelAssumption ==
  Warmup \in BOOLEAN /\ MaxProcs \in Nat /\ MaxProbes \in Nat

NoURL  == 0
Probes == 1..MaxProbes
Blank  == [url |-> NoURL, registered |-> FALSE]

VARIABLES
  publicURL,  (* s.publicURL                                               *)
  output,     (* the output files: the URL, and the connector's evidence   *)
  live,       (* the process that runs, or 0                               *)
  started,    (* processes started                                         *)
  pc,         (* control point of startReadyMode and of the monitor        *)
  probe,      (* the probe that waitReady waits for, or 0                  *)
  probed,     (* probes started                                            *)
  ppc,        (* control point of each probe                               *)
  text,       (* the output it has read                                    *)
  found,      (* its local publicURL                                       *)
  crossed     (* history: a probe was under way during a Prepare           *)

procVars  == <<live, started>>
probeVars == <<ppc, text, found>>
vars      == <<publicURL, output, procVars, pc, probe, probed, probeVars, crossed>>

Init ==
  /\ publicURL = NoURL /\ output = Blank
  /\ live = 0 /\ started = 0
  /\ pc = "idle" /\ probe = 0 /\ probed = 0
  /\ ppc = [k \in Probes |-> "new"]
  /\ text = [k \in Probes |-> Blank]
  /\ found = [k \in Probes |-> NoURL]
  /\ crossed = FALSE

(* A probe that may still write s.publicURL.                               *)
Underway(k) == ppc[k] \in {"output", "url", "store"}

Goto(from, to)        == pc = from /\ pc' = to
Advance(k, from, to)  == ppc[k] = from /\ ppc' = [ppc EXCEPT ![k] = to]

-----------------------------------------------------------------------------
(* Faults: wrong versions of definitions below, to see each property fail. *)

(* Prepare keeps the URL,                                                  *)
PrepareKeepsURL ==
  /\ Goto("idle", "truncate") /\ started < MaxProcs
  /\ crossed' = (crossed \/ \E k \in Probes : Underway(k))
  /\ UNCHANGED <<publicURL, output, procVars, probe, probed, probeVars>>

(* or the output.                                                          *)
PrepareKeepsOutput ==
  /\ Goto("truncate", "launch")
  /\ UNCHANGED <<publicURL, output, procVars, probe, probed, probeVars, crossed>>

(* A probe answers for a URL that it has not found.                        *)
ReadURLOrSkip(k) ==
  /\ found' = [found EXCEPT ![k] = publicURL]
  /\ Advance(k, "url", "dial")
  /\ UNCHANGED <<publicURL, output, procVars, pc, probe, probed, text, crossed>>

(* The process handed out is not counted.                                  *)
LaunchUncounted ==
  /\ Goto("launch", "wait")
  /\ live' = started + 1
  /\ UNCHANGED <<publicURL, output, started, probe, probed, probeVars, crossed>>

-----------------------------------------------------------------------------
(* startReadyMode and monitor, as far as the tunnel sees them.             *)

PrepareResetsURL ==
  /\ Goto("idle", "truncate") /\ started < MaxProcs
  /\ publicURL' = NoURL
  /\ crossed' = (crossed \/ \E k \in Probes : Underway(k))
  /\ UNCHANGED <<output, procVars, probe, probed, probeVars>>

PrepareTruncates ==
  /\ Goto("truncate", "launch")
  /\ output' = Blank
  /\ UNCHANGED <<publicURL, procVars, probe, probed, probeVars, crossed>>

(* Prepare or runner.Start fails.                                          *)
StartFails ==
  /\ pc \in {"truncate", "launch"} /\ pc' = "idle"
  /\ UNCHANGED <<publicURL, output, procVars, probe, probed, probeVars, crossed>>

Launch ==
  /\ Goto("launch", "wait")
  /\ started' = started + 1 /\ live' = started + 1
  /\ UNCHANGED <<publicURL, output, probe, probed, probeVars, crossed>>

(* `go func() { probeResult <- service.Probe(probeCtx) }()`                *)
WaitReadyProbes ==
  /\ pc = "wait" /\ probe = 0 /\ probed < MaxProbes
  /\ probed' = probed + 1 /\ probe' = probed + 1
  /\ ppc' = [ppc EXCEPT ![probed + 1] = "output"]
  /\ UNCHANGED <<publicURL, output, procVars, pc, text, found, crossed>>

(* Its result arrives: Healthy, or another probe after an interval.        *)
ProbeSucceeds ==
  /\ Goto("wait", "healthy")
  /\ probe # 0 /\ ppc[probe] = "ready" /\ probe' = 0
  /\ UNCHANGED <<publicURL, output, procVars, probed, probeVars, crossed>>

ProbeFails ==
  /\ pc = "wait" /\ probe # 0 /\ ppc[probe] = "error" /\ probe' = 0
  /\ UNCHANGED <<publicURL, output, procVars, pc, probed, probeVars, crossed>>

(* The process exits or the deadline passes; waitReady leaves its probe,   *)
(* startReadyMode stops the process.                                       *)
NotReady ==
  /\ Goto("wait", "idle")
  /\ live' = 0 /\ probe' = 0
  /\ UNCHANGED <<publicURL, output, started, probed, probeVars, crossed>>

NoticeExit ==
  /\ live = 0 /\ Goto("healthy", "idle")
  /\ UNCHANGED <<publicURL, output, procVars, probe, probed, probeVars, crossed>>

-----------------------------------------------------------------------------
(* Service.Probe, by a goroutine of waitReady or by Doctor.                *)

DoctorProbes ==
  /\ probed < MaxProbes
  /\ probed' = probed + 1
  /\ ppc' = [ppc EXCEPT ![probed + 1] = "output"]
  /\ crossed' = (crossed \/ pc = "truncate")
  /\ UNCHANGED <<publicURL, output, procVars, pc, probe, text, found>>

ReadOutput(k) ==
  /\ Advance(k, "output", "url")
  /\ text' = [text EXCEPT ![k] = output]
  /\ UNCHANGED <<publicURL, output, procVars, pc, probe, probed, found, crossed>>

(* publicURL := s.publicURL; if there is none, DiscoverURL(output).        *)
ReadURL(k) ==
  /\ found' = [found EXCEPT ![k] = publicURL]
  /\ \/ publicURL # NoURL /\ Advance(k, "url", "dial")
     \/ publicURL = NoURL /\ text[k].url # NoURL /\ Advance(k, "url", "store")
     \/ publicURL = NoURL /\ text[k].url = NoURL /\ Advance(k, "url", "error")
  /\ UNCHANGED <<publicURL, output, procVars, pc, probe, probed, text, crossed>>

StoreURL(k) ==
  /\ Advance(k, "store", "dial")
  /\ publicURL' = text[k].url
  /\ found' = [found EXCEPT ![k] = text[k].url]
  /\ UNCHANGED <<output, procVars, pc, probe, probed, text, crossed>>

(* The request goes through when the process of that URL runs.  When the   *)
(* name is not found (the URL is too new, or of a process that is gone),   *)
(* the connector's evidence in the output is taken instead.                *)
Dial(k) ==
  /\ \/ (found[k] = live \/ (Warmup /\ text[k].registered)) /\ Advance(k, "dial", "ready")
     \/ Advance(k, "dial", "error")
  /\ UNCHANGED <<publicURL, output, procVars, pc, probe, probed, text, found, crossed>>

-----------------------------------------------------------------------------
(* The tunnel process.                                                     *)

PrintsURL ==
  /\ live # 0 /\ output = Blank
  /\ output' = [output EXCEPT !.url = live]
  /\ UNCHANGED <<publicURL, procVars, pc, probe, probed, probeVars, crossed>>

(* "Registered tunnel connection"                                          *)
PrintsRegistered ==
  /\ live # 0 /\ output.url # NoURL /\ ~output.registered
  /\ output' = [output EXCEPT !.registered = TRUE]
  /\ UNCHANGED <<publicURL, procVars, pc, probe, probed, probeVars, crossed>>

ProcessExits ==
  /\ live # 0 /\ live' = 0
  /\ UNCHANGED <<publicURL, output, started, pc, probe, probed, probeVars, crossed>>

-----------------------------------------------------------------------------
(* The specification.                                                      *)

ProbeStep(k) == ReadOutput(k) \/ ReadURL(k) \/ StoreURL(k) \/ Dial(k)

Next ==
  \/ PrepareResetsURL \/ PrepareTruncates \/ StartFails \/ Launch
  \/ WaitReadyProbes \/ ProbeSucceeds \/ ProbeFails \/ NotReady \/ NoticeExit
  \/ DoctorProbes \/ \E k \in Probes : ProbeStep(k)
  \/ PrintsURL \/ PrintsRegistered \/ ProcessExits

Spec == Init /\ [][Next]_vars

-----------------------------------------------------------------------------
(* Properties.                                                             *)

(* The values the variables range over: every URL is one a process has     *)
(* been given.                                                             *)
TypeOK ==
  /\ publicURL \in 0..started /\ live \in 0..started /\ started \in 0..MaxProcs
  /\ output \in [url : 0..started, registered : BOOLEAN]
  /\ pc \in {"idle", "truncate", "launch", "wait", "healthy"}
  /\ probe \in 0..probed /\ probed \in 0..MaxProbes
  /\ ppc \in [Probes -> {"new", "output", "url", "store", "dial", "ready", "error"}]
  /\ text \in [Probes -> [url : 0..started, registered : BOOLEAN]]
  /\ found \in [Probes -> 0..started]
  /\ crossed \in BOOLEAN

(* The output that probes read is never that of an earlier process: the    *)
(* old process is dead before Prepare truncates the files, and the new one *)
(* starts afterwards.                                                      *)
OutputIsCurrent == live # 0 => output.url \in {NoURL, live}

(* A Healthy tunnel has a public URL, whichever probe found it.            *)
HealthyHasURL == pc = "healthy" => publicURL # NoURL

(* A Healthy tunnel whose process runs publishes the URL of that process.  *)
(* design section 5.3: status and an idempotent up "must therefore return  *)
(* the current URL after recovery".                                        *)
HealthyServesItsURL == pc = "healthy" /\ live # 0 => publicURL = live

(* It does so unless a probe was under way while Prepare ran: only such a  *)
(* probe can bring back the URL that Prepare has forgotten.                *)
CurrentUnlessCrossed == ~crossed => HealthyServesItsURL

=============================================================================
