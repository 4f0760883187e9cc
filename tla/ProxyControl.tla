----------------------------- MODULE ProxyControl -----------------------------
(***************************************************************************)
(* AntigravityProxyControl.replace (control/runtime.py) over the Sidecar's *)
(* lifecycle: stop the Sidecar, write the proxy to its configuration file, *)
(* start it, and take the old setting back if it crashes on the new one.   *)
(*                                                                         *)
(* replace holds no lock of its own: requests overlap, with one another    *)
(* and with the start, stop and restart routes.  But it does not await     *)
(* between a call's return and the next one, so nothing of the event loop  *)
(* comes between a stop and the write that follows it.                     *)
(***************************************************************************)
EXTENDS SidecarLifecycle

CONSTANTS
    Replacer,    \* callers that replace the proxy, once each
    Proxy,       \* settings, "no proxy" among them
    NoProxy,     \* no child
    MaxFaults,   \* bound: writes and process starts that raise
    MaxCalls     \* bound: calls of the Sidecar's own routes

ASSUME ReplacerAssumption == Replacer \subseteq Caller
ASSUME ProxyAssumption == NoProxy \notin Proxy
ASSUME FaultAssumption == MaxFaults \in Nat /\ MaxCalls \in Nat

VARIABLES
    config,      \* the proxy-url of the Sidecar's configuration file
    launched,    \* the setting each child was started with
    at,          \* where each replace stands
    want,        \* its "normalized"
    previous,    \* its "previous"
    faults, calls,
    stopped      \* history: the stop route was called

pvars == <<vars, config, launched, at, want, previous, faults, calls, stopped>>
request == <<at, want, previous>>

ReplaceState == {"new", "stop", "start", "restart", "back", "ok", "refused"}
Finished == {"ok", "refused"}

PInit ==
    /\ Init
    /\ config \in Proxy
    /\ launched = [k \in Child |-> NoProxy]
    /\ at = [c \in Replacer |-> "new"]
    /\ want = [c \in Replacer |-> NoProxy]
    /\ previous = [c \in Replacer |-> NoProxy]
    /\ faults = 0 /\ calls = 0 /\ stopped = FALSE

(* A call of the lifecycle has returned to c, which runs on until its next *)
(* one: no other coroutine moves.                                          *)
Resumed(c) == pc[c] = "idle" /\ at[c] \in {"stop", "start", "restart", "back"}
LoopFree == \A c \in Replacer : ~Resumed(c)

Fault == faults < MaxFaults /\ faults' = faults + 1

-----------------------------------------------------------------------------
(* Mutant: the file is written before the Sidecar is stopped.              *)
MutBegin(c, v) ==
    /\ LoopFree
    /\ at[c] = "new"
    /\ want' = [want EXCEPT ![c] = v]
    /\ previous' = [previous EXCEPT ![c] = config]
    /\ config' = v
    /\ Call(c, "stop") /\ at' = [at EXCEPT ![c] = "stop"]
    /\ UNCHANGED <<launched, faults, calls, stopped>>

Begin(c, v) ==
    /\ LoopFree
    /\ at[c] = "new"
    /\ want' = [want EXCEPT ![c] = v]
    /\ previous' = [previous EXCEPT ![c] = config]
    /\ Call(c, "stop") /\ at' = [at EXCEPT ![c] = "stop"]
    /\ UNCHANGED <<config, launched, faults, calls, stopped>>

(* write_antigravity_proxy_url may raise before its rename or after it.    *)
Write(c) ==
    /\ Resumed(c) /\ at[c] = "stop"
    /\ \/ /\ config' = want[c]
          /\ at' = [at EXCEPT ![c] = "start"]
          /\ UNCHANGED faults
       \/ /\ Fault
          /\ config' \in {config, want[c]}
          /\ at' = [at EXCEPT ![c] = "restart"]
    /\ Call(c, "start")
    /\ UNCHANGED <<launched, want, previous, calls, stopped>>

(* The answer of start decides; what start raised is raised on.            *)
Judge(c) ==
    /\ Resumed(c) /\ at[c] = "start"
    /\ \/ /\ answer[c].state = "crashed"
          /\ Call(c, "stop") /\ at' = [at EXCEPT ![c] = "back"]
       \/ /\ answer[c].state = "raised"
          /\ at' = [at EXCEPT ![c] = "refused"] /\ UNCHANGED vars
       \/ /\ answer[c].state \in {"starting", "running"}
          /\ at' = [at EXCEPT ![c] = "ok"] /\ UNCHANGED vars
    /\ UNCHANGED <<config, launched, want, previous, faults, calls, stopped>>

(* Mutant: the old setting is back, but nobody starts the Sidecar.         *)
MutTakeBack(c) ==
    /\ Resumed(c) /\ at[c] = "back"
    /\ config' = previous[c]
    /\ at' = [at EXCEPT ![c] = "refused"]
    /\ UNCHANGED <<vars, launched, want, previous, faults, calls, stopped>>

TakeBack(c) ==
    /\ Resumed(c) /\ at[c] = "back"
    /\ \/ /\ config' = previous[c]
          /\ Call(c, "start") /\ at' = [at EXCEPT ![c] = "restart"]
          /\ UNCHANGED faults
       \/ /\ Fault
          /\ config' \in {config, previous[c]}
          /\ at' = [at EXCEPT ![c] = "refused"]
          /\ UNCHANGED vars
    /\ UNCHANGED <<launched, want, previous, calls, stopped>>

GiveUp(c) ==
    /\ Resumed(c) /\ at[c] = "restart"
    /\ at' = [at EXCEPT ![c] = "refused"]
    /\ UNCHANGED <<vars, config, launched, want, previous, faults, calls, stopped>>

Replace(c) == Write(c) \/ Judge(c) \/ TakeBack(c) \/ GiveUp(c)

-----------------------------------------------------------------------------
(* The lifecycle beneath: a child reads the file when it is started.       *)
Lifecycle(c) ==
    /\ LoopFree
    /\ \/ /\ Spawn(c)
          /\ launched' = [launched EXCEPT ![handle'] = config]
          /\ UNCHANGED faults
       \/ /\ SpawnRaises(c) /\ Fault
          /\ UNCHANGED launched
       \/ /\ \/ Acquire(c) \/ KeepChild(c) \/ CheckAnswer(c)
             \/ Ready(c) \/ NotReady(c) \/ NapEnds(c)
             \/ StopNone(c) \/ Terminate(c) \/ StillThere(c) \/ StopEnds(c)
          /\ UNCHANGED <<launched, faults>>
    /\ UNCHANGED <<config, request, calls, stopped>>

ApiCall(c, o) ==
    /\ LoopFree
    /\ calls < MaxCalls /\ calls' = calls + 1
    /\ Call(c, o)
    /\ stopped' = (stopped \/ o = "stop")
    /\ UNCHANGED <<config, launched, request, faults>>

ChildExit(k) == Exit(k) /\ UNCHANGED <<config, launched, request, faults, calls, stopped>>

PNext ==
    \/ \E c \in Replacer : \E v \in Proxy : Begin(c, v)
    \/ \E c \in Replacer : Replace(c)
    \/ \E c \in Caller : Lifecycle(c)
    \/ \E c \in Caller \ Replacer : \E o \in {"start", "stop", "restart"} : ApiCall(c, o)
    \/ \E k \in Child : ChildExit(k)

PSpec == PInit /\ [][PNext]_pvars

-----------------------------------------------------------------------------
(* Properties.                                                             *)

(* Every variable keeps its type: a request that has begun knows both the  *)
(* setting it wants and the one to go back to, and every child has one.    *)
PTypeOK ==
    /\ TypeOK
    /\ config \in Proxy
    /\ launched \in [Child -> Proxy \cup {NoProxy}]
    /\ \A k \in 1..spawned : launched[k] \in Proxy
    /\ at \in [Replacer -> ReplaceState]
    /\ want \in [Replacer -> Proxy \cup {NoProxy}]
    /\ previous \in [Replacer -> Proxy \cup {NoProxy}]
    /\ \A c \in Replacer : at[c] # "new" => want[c] \in Proxy /\ previous[c] \in Proxy
    /\ faults \in 0..MaxFaults /\ calls \in 0..MaxCalls /\ stopped \in BOOLEAN

(* The Sidecar never runs on a setting that is no longer the file's, though *)
(* neither replace nor the lifecycle's lock covers the write: it is always *)
(* made where a stop has just returned and nobody has run since.           *)
LiveChildRunsConfig == \A k \in alive \ terminated : launched[k] = config

(* When every replace is over, however they overlapped and whichever of    *)
(* them were taken back, the Sidecar has been started again, unless a call *)
(* raised or someone stopped it.                                           *)
Quiet == lock = NoCaller /\ waiting = <<>> /\ \A c \in Replacer : at[c] \in Finished
SidecarComesBack == Quiet /\ faults = 0 /\ ~stopped => handle # NoChild

(* "Persist and apply the optional Sidecar-only local HTTP proxy.": once   *)
(* nothing is going on, the setting is one that replace has answered for.  *)
AnsweredSettingPersists ==
    Quiet /\ faults = 0 /\ (\E c \in Replacer : at[c] = "ok")
      => \E c \in Replacer : at[c] = "ok" /\ config = want[c]

=============================================================================
