-------------------------- MODULE ProxyControlProofs --------------------------
(***************************************************************************)
(* Proofs, for any number of overlapping requests, that the Sidecar never  *)
(* runs on a proxy setting that is not the configuration file's, and that  *)
(* it has been started again when they are over.                           *)
(***************************************************************************)
EXTENDS ProxyControl, SidecarLifecycleProofs

(* Who waits for a child to be ready is starting one.                      *)
Starting == \A c \in Caller : pc[c] \in {"check", "ready", "nap", "last"} => op[c] = "start"

(* A replace that will write next has called stop.                         *)
Calling ==
    \A c \in Replacer : at[c] \in {"stop", "back"} /\ pc[c] # "idle" => op[c] = "stop"

(* One replace at a time has been resumed.                                 *)
Alone == \A c, d \in Replacer : Resumed(c) /\ Resumed(d) => c = d

(* When a replace may write, no child is left to run on the old setting.   *)
StopsFirst ==
    \A c \in Replacer : Resumed(c) /\ at[c] \in {"stop", "back"} => alive \ terminated = {}

PInv ==
    /\ IInv /\ PTypeOK /\ LiveChildRunsConfig
    /\ Starting /\ Calling /\ Alone /\ StopsFirst

USE ReplacerAssumption, ProxyAssumption, FaultAssumption
    DEF Finished, ReplaceState, request

-----------------------------------------------------------------------------
(* The lifecycle under replace is the lifecycle.                           *)
LEMMA PNextIsNext == PNext => [Next]_vars
  <1>1. ASSUME NEW c \in Replacer, NEW v \in Proxy, Begin(c, v) PROVE [Next]_vars
    BY <1>1 DEF Begin, Next, Operation
  <1>2. ASSUME NEW c \in Replacer, Replace(c) PROVE [Next]_vars
    BY <1>2 DEF Replace, Write, Judge, TakeBack, GiveUp, Next, Operation
  <1>3. ASSUME NEW c \in Caller, Lifecycle(c) PROVE [Next]_vars
    BY <1>3 DEF Lifecycle, Next, Step
  <1>4. ASSUME NEW c \in Caller, NEW o \in {"start", "stop", "restart"}, ApiCall(c, o)
        PROVE  [Next]_vars
    BY <1>4 DEF ApiCall, Next, Operation
  <1>5. ASSUME NEW k \in Child, ChildExit(k) PROVE [Next]_vars
    BY <1>5 DEF ChildExit, Next
  <1>6. QED
    BY <1>1, <1>2, <1>3, <1>4, <1>5 DEF PNext

LEMMA PInitPInv == PInit => PInv
  <1> SUFFICES ASSUME PInit PROVE PInv
    OBVIOUS
  <1>1. IInv
    BY InitIInv DEF PInit
  <1>2. PTypeOK
    <2>1. TypeOK /\ spawned = 0
      BY <1>1 DEF PInit, IInv, Init
    <2>2. at \in [Replacer -> ReplaceState] /\ \A c \in Replacer : at[c] = "new"
      BY DEF PInit
    <2>3. /\ launched \in [Child -> Proxy \cup {NoProxy}]
          /\ want \in [Replacer -> Proxy \cup {NoProxy}]
          /\ previous \in [Replacer -> Proxy \cup {NoProxy}]
      BY DEF PInit
    <2>4. \A k \in 1..spawned : launched[k] \in Proxy
      BY <2>1
    <2>5. config \in Proxy /\ faults \in 0..MaxFaults /\ calls \in 0..MaxCalls
      BY DEF PInit
    <2>6. stopped \in BOOLEAN
      BY Zenon DEF PInit
    <2>7. QED
      BY <2>1, <2>2, <2>3, <2>4, <2>5, <2>6 DEF PTypeOK
  <1>3. LiveChildRunsConfig /\ Starting /\ Calling /\ Alone /\ StopsFirst
    BY DEF PInit, Init, LiveChildRunsConfig, Starting, Calling, Alone, StopsFirst, Resumed
  <1>4. QED
    BY <1>1, <1>2, <1>3 DEF PInv

(* A step of the event loop's own code moves one replace, which then waits *)
(* for the lock or is over.                                                *)
LEMMA ReplaceKeepsPInv ==
    ASSUME PInv, IInv', NEW c \in Replacer,
           (\E v \in Proxy : Begin(c, v)) \/ Replace(c)
    PROVE  PInv'
  <1> USE DEF PInv
  <1>1. c \in Caller /\ UNCHANGED <<processes, launched>>
    BY DEF Begin, Replace, Write, Judge, TakeBack, GiveUp, Call, vars, processes
  <1>2. /\ \A d \in Replacer \ {c} : at'[d] = at[d] /\ want'[d] = want[d] /\ previous'[d] = previous[d]
        /\ \A d \in Caller \ {c} : pc'[d] = pc[d] /\ op'[d] = op[d]
        /\ ~Resumed(c)'
        /\ at'[c] \in {"stop", "back"} => op'[c] = "stop"
        /\ pc'[c] \in {"queued", "idle"}
    BY <1>1
    DEF IInv, TypeOK, PTypeOK, Begin, Replace, Write, Judge, TakeBack, GiveUp, Call, Go,
        vars, Resumed
  <1>3. \A d \in Replacer : ~Resumed(d)'
    <2>1. \A d \in Replacer \ {c} : ~Resumed(d)
      BY DEF Alone, LoopFree, Begin, Replace, Write, Judge, TakeBack, GiveUp
    <2>2. QED
      BY <1>1, <1>2, <2>1 DEF Resumed
  <1>4. config' = config \/ alive \ terminated = {}
    BY DEF StopsFirst, Begin, Replace, Write, Judge, TakeBack, GiveUp
  <1>5. LiveChildRunsConfig'
    BY <1>1, <1>4 DEF LiveChildRunsConfig, processes
  <1>6. Starting' /\ Calling'
    BY <1>1, <1>2 DEF Starting, Calling
  <1>7. Alone' /\ StopsFirst'
    BY <1>3 DEF Alone, StopsFirst
  <1>8. PTypeOK'
    <2>1. /\ at' \in [Replacer -> ReplaceState] /\ config' \in Proxy
          /\ faults' \in 0..MaxFaults /\ UNCHANGED <<calls, stopped>>
      BY DEF PTypeOK, Begin, Replace, Write, Judge, TakeBack, GiveUp, Fault, pvars
    <2>2. /\ want' \in [Replacer -> Proxy \cup {NoProxy}]
          /\ previous' \in [Replacer -> Proxy \cup {NoProxy}]
          /\ want'[c] \in Proxy /\ previous'[c] \in Proxy
      BY DEF PTypeOK, Begin, Replace, Write, Judge, TakeBack, GiveUp
    <2>3. QED
      BY <1>1, <1>2, <2>1, <2>2 DEF PTypeOK, IInv, processes
  <1>9. QED
    BY <1>5, <1>6, <1>7, <1>8

-----------------------------------------------------------------------------
(* A step of the lifecycle resumes at most its own caller, and resumes a   *)
(* caller of stop only when the child has been told to end.                *)
LEMMA LifecycleKeepsPInv ==
    ASSUME PInv, IInv', NEW c \in Caller, Lifecycle(c)
    PROVE  PInv'
  <1> USE DEF PInv
  <1>1. LoopFree /\ UNCHANGED <<config, request, calls, stopped>>
    BY DEF Lifecycle
  <1>2. \A d \in Caller \ {c} : pc'[d] = pc[d] /\ op'[d] = op[d]
    <2>1. \A d \in Caller \ {c} : pc'[d] = pc[d]
      BY OthersStay DEF Lifecycle, Step
    <2>2. \A d \in Caller \ {c} : op'[d] = op[d]
      BY DEF Lifecycle, Acquire, KeepChild, CheckAnswer, Spawn, SpawnRaises, Ready,
             NotReady, NapEnds, StopNone, Terminate, StillThere, StopEnds, Stopped,
             Inquire, Return, IInv, TypeOK
    <2>3. QED
      BY <2>1, <2>2
  <1>3. \A d \in Replacer \ {c} : ~Resumed(d)'
    BY <1>1, <1>2 DEF LoopFree, Resumed
  <1>4. Alone'
    BY <1>3 DEF Alone
  <1>5. CASE StopNone(c) \/ StopEnds(c)
    <2>1. alive \ terminated = {}
      BY <1>5 DEF IInv, OneChild, Stopping, StopNone, StopEnds, At
    <2>2. UNCHANGED <<spawned, alive, terminated>>
      BY <1>5 DEF StopNone, StopEnds
    <2>3. UNCHANGED <<launched, faults>>
      BY <1>5, <2>2 DEF Lifecycle, Spawn, SpawnRaises, At, StopNone, StopEnds, IInv, TypeOK
    <2>4. LiveChildRunsConfig' /\ StopsFirst'
      BY <2>1, <2>2 DEF LiveChildRunsConfig, StopsFirst
    <2>5. pc'[c] \in {"idle", "enter"} /\ (op[c] = "stop" => op'[c] = "stop")
      BY <1>5 DEF StopNone, StopEnds, Stopped, Return, Go, IInv, TypeOK
    <2>6. Starting' /\ Calling'
      BY <1>1, <1>2, <1>5, <2>5
      DEF Starting, Calling, LoopFree, Resumed, StopNone, StopEnds, At
    <2>7. PTypeOK'
      BY <1>1, <2>2, <2>3 DEF PTypeOK, IInv
    <2>8. QED
      BY <1>4, <2>4, <2>6, <2>7
  <1>6. CASE Spawn(c)
    <2>1. /\ alive \ terminated = {} /\ spawned + 1 \in Child /\ op[c] = "start"
          /\ spawned' = spawned + 1 /\ alive' = alive \cup {spawned + 1}
          /\ handle' = spawned + 1 /\ terminated' = terminated
      BY <1>6 DEF Spawn, IInv, TypeOK, OneChild
    <2>2. launched' = [launched EXCEPT ![spawned + 1] = config] /\ UNCHANGED faults
      BY <1>6, <2>1 DEF Lifecycle, Spawn, SpawnRaises, Acquire, KeepChild, CheckAnswer,
        Ready, NotReady, NapEnds, StopNone, Terminate, StillThere, StopEnds, processes,
        Stopped, At, IInv, TypeOK
    <2>3. LiveChildRunsConfig'
      BY <1>1, <2>1, <2>2 DEF LiveChildRunsConfig, PTypeOK
    <2>4. pc'[c] = "ready" /\ op' = op
      BY <1>6 DEF Spawn, Go, IInv, TypeOK
    <2>5. Starting' /\ Calling' /\ StopsFirst'
      BY <1>1, <1>2, <1>3, <1>6, <2>1, <2>4
      DEF Starting, Calling, StopsFirst, LoopFree, Resumed, Spawn, At
    <2>6. PTypeOK'
      BY <1>1, <2>1, <2>2 DEF PTypeOK, IInv, TypeOK
    <2>7. QED
      BY <1>4, <2>3, <2>5, <2>6
  <1>7. CASE /\ UNCHANGED <<spawned, alive, launched>> /\ terminated \subseteq terminated'
             /\ pc[c] # "idle" /\ op' = op
             /\ faults' \in 0..MaxFaults
             /\ pc'[c] = "idle" => op[c] = "start"
             /\ pc'[c] \in {"check", "ready", "nap", "last"} => op[c] = "start"
    <2>1. LiveChildRunsConfig'
      BY <1>1, <1>7 DEF LiveChildRunsConfig
    <2>2. Starting' /\ Calling' /\ StopsFirst'
      BY <1>1, <1>2, <1>3, <1>7 DEF Starting, Calling, StopsFirst, LoopFree, Resumed
    <2>3. PTypeOK'
      BY <1>1, <1>7 DEF PTypeOK, IInv
    <2>4. QED
      BY <1>4, <2>1, <2>2, <2>3
  <1>8. CASE Acquire(c) \/ Terminate(c) \/ StillThere(c)
    <2>1. UNCHANGED <<spawned, alive, launched, op, faults>> /\ terminated \subseteq terminated'
      BY <1>8 DEF Lifecycle, Acquire, Terminate, StillThere, Spawn, SpawnRaises, At, processes,
        IInv, TypeOK
    <2>2. pc[c] \in {"queued", "enter", "wait"}
      BY <1>8 DEF Acquire, Terminate, StillThere, At
    <2>3. pc'[c] \in {"enter", "wait"}
      BY <1>8 DEF Acquire, Terminate, StillThere, At, Go, IInv, TypeOK
    <2>4. QED
      BY <1>7, <2>1, <2>2, <2>3 DEF PTypeOK
  <1>9. CASE KeepChild(c) \/ CheckAnswer(c) \/ SpawnRaises(c) \/ Ready(c) \/ NotReady(c)
             \/ NapEnds(c)
    <2>1. UNCHANGED processes /\ op' = op
      BY <1>9 DEF KeepChild, CheckAnswer, SpawnRaises, Ready, NotReady, NapEnds, Inquire,
                  Return
    <2>2. \/ pc[c] = "enter" /\ op[c] = "start"
          \/ pc[c] \in {"check", "ready", "nap", "last"}
      BY <1>9 DEF KeepChild, CheckAnswer, SpawnRaises, Ready, NotReady, NapEnds, At
    <2>3. UNCHANGED launched /\ faults' \in 0..MaxFaults
      BY <2>1 DEF Lifecycle, Spawn, Fault, PTypeOK, processes, IInv, TypeOK
    <2>4. op[c] = "start" /\ pc[c] # "idle"
      BY <2>2 DEF Starting
    <2>5. UNCHANGED <<spawned, alive, launched>> /\ terminated \subseteq terminated'
      BY <2>1, <2>3 DEF processes
    <2>6. QED
      BY <1>7, <2>1, <2>3, <2>4, <2>5
  <1>10. QED
    BY <1>5, <1>6, <1>8, <1>9 DEF Lifecycle

LEMMA PNextPInv == PInv /\ [PNext]_pvars => PInv'
  <1> SUFFICES ASSUME PInv, [PNext]_pvars PROVE PInv'
    OBVIOUS
  <1>1. IInv'
    BY NextIInv, PNextIsNext DEF PInv, pvars, vars
  <1>2. ASSUME NEW c \in Replacer, (\E v \in Proxy : Begin(c, v)) \/ Replace(c) PROVE PInv'
    BY <1>1, <1>2, ReplaceKeepsPInv
  <1>3. ASSUME NEW c \in Caller, Lifecycle(c) PROVE PInv'
    BY <1>1, <1>3, LifecycleKeepsPInv
  <1>4. ASSUME NEW c \in Caller \ Replacer, NEW o \in {"start", "stop", "restart"},
               ApiCall(c, o)
        PROVE  PInv'
    <2>1. /\ \A d \in Caller \ {c} : pc'[d] = pc[d] /\ op'[d] = op[d]
          /\ pc'[c] = "queued"
          /\ UNCHANGED <<processes, config, launched, request, faults>>
          /\ calls' \in 0..MaxCalls /\ stopped' \in BOOLEAN
      BY <1>4 DEF ApiCall, Call, Go, PInv, IInv, TypeOK, PTypeOK
    <2>2. PTypeOK' /\ LiveChildRunsConfig'
      BY <1>1, <2>1 DEF PInv, IInv, PTypeOK, LiveChildRunsConfig, processes
    <2>3. Starting' /\ Calling' /\ Alone' /\ StopsFirst'
      BY <2>1 DEF PInv, Starting, Calling, Alone, StopsFirst, Resumed, processes
    <2>4. QED
      BY <1>1, <2>2, <2>3 DEF PInv
  <1>5. ASSUME NEW k \in Child, ChildExit(k) PROVE PInv'
    <2>1. /\ alive' \subseteq alive
          /\ UNCHANGED <<spawned, terminated, pc, op, config, launched, request, faults, calls,
                        stopped>>
      BY <1>5 DEF ChildExit, Exit
    <2>2. PTypeOK' /\ LiveChildRunsConfig'
      BY <1>1, <2>1 DEF PInv, IInv, PTypeOK, LiveChildRunsConfig
    <2>3. Starting' /\ Calling' /\ Alone' /\ StopsFirst'
      BY <2>1 DEF PInv, Starting, Calling, Alone, StopsFirst, Resumed
    <2>4. QED
      BY <1>1, <2>2, <2>3 DEF PInv
  <1>6. CASE UNCHANGED pvars
    BY <1>1, <1>6
    DEF pvars, vars, PInv, IInv, PTypeOK, LiveChildRunsConfig, Starting, Calling, Alone,
        StopsFirst, Resumed
  <1>7. QED
    BY <1>2, <1>3, <1>4, <1>5, <1>6 DEF PNext

LEMMA PInvariance == PSpec => []PInv
  <1>1. PInv /\ [PNext]_pvars => PInv'
    BY PNextPInv
  <1>2. QED
    BY PInitPInv, <1>1, PTL DEF PSpec

-----------------------------------------------------------------------------
(* The variables of replace and of the lifecycle keep their types.         *)
THEOREM ProxyTypeCorrect == PSpec => []PTypeOK
  <1>1. PInv => PTypeOK
    BY DEF PInv
  <1>2. QED
    BY PInvariance, <1>1, PTL

(* However many requests overlap, and whatever raises, crashes or is taken *)
(* back, a Sidecar that was not told to end runs on the file's setting.    *)
THEOREM AppliedIsPersisted == PSpec => []LiveChildRunsConfig
  <1>1. PInv => LiveChildRunsConfig
    BY DEF PInv
  <1>2. QED
    BY PInvariance, <1>1, PTL

(* Replacing the proxy uses the lifecycle as any other caller does.        *)
THEOREM ReplaceUsesLifecycle == PSpec => Spec
  <1>1. PInit => Init
    BY DEF PInit
  <1>2. [PNext]_pvars => [Next]_vars
    BY PNextIsNext DEF pvars, vars
  <1>3. QED
    BY <1>1, <1>2, PTL DEF PSpec, Spec

-----------------------------------------------------------------------------
(* That the Sidecar comes back: whoever left it stopped will start it.     *)

(* Who asked for the lock waits for it.                                    *)
Queued == \A c \in Caller : pc[c] = "queued" => \E i \in 1..Len(waiting) : waiting[i] = c

(* Unless the stop route was called, it is a replace that stops.           *)
Stopper(c) == stopped \/ (c \in Replacer /\ at[c] \in {"stop", "back"})
Stoppers == \A c \in Caller : op[c] = "stop" /\ pc[c] # "idle" => Stopper(c)

(* A call, or a replace, that will start a child if there is none.         *)
WillStart(c) ==
    \/ pc[c] \in {"queued", "enter", "wait"} /\ op[c] \in {"start", "restart"}
    \/ c \in Replacer /\ at[c] \in {"new", "stop", "back"}
Coming ==
    faults = 0 /\ ~stopped => handle # NoChild \/ \E c \in Caller : WillStart(c)

Returning == Queued /\ Stoppers /\ Coming

LEMMA InitReturning == Replacer # {} /\ PInit => Returning
  <1> SUFFICES ASSUME Replacer # {}, PInit PROVE Returning
    OBVIOUS
  <1>1. Queued /\ Stoppers
    BY DEF PInit, Init, Queued, Stoppers
  <1>2. PICK c \in Replacer : at[c] = "new"
    BY DEF PInit
  <1>3. Coming
    BY <1>2 DEF Coming, WillStart
  <1> QED
    BY <1>1, <1>3 DEF Returning

(* A caller that asks for the lock is put at the queue's end.              *)
LEMMA AppendKeepsQueued ==
    ASSUME PInv, Queued, NEW c \in Caller, NEW o \in Operation, Call(c, o)
    PROVE  Queued' /\ pc'[c] = "queued" /\ op'[c] = o
           /\ \A d \in Caller \ {c} : pc'[d] = pc[d] /\ op'[d] = op[d]
  <1>1. /\ pc'[c] = "queued" /\ op'[c] = o
        /\ \A d \in Caller \ {c} : pc'[d] = pc[d] /\ op'[d] = op[d]
    BY DEF PInv, IInv, TypeOK, Call, Go
  <1>2. waiting \in Seq(Caller) /\ waiting' = Append(waiting, c)
    BY DEF PInv, IInv, TypeOK, Call
  <1>3. /\ Len(waiting') = Len(waiting) + 1 /\ waiting'[Len(waiting) + 1] = c
        /\ \A i \in 1..Len(waiting) : waiting'[i] = waiting[i]
        /\ Len(waiting) \in Nat
    BY <1>2
  <1>4. Queued'
    BY <1>1, <1>3 DEF Queued
  <1> QED
    BY <1>1, <1>4

LEMMA ReplaceKeepsReturning ==
    ASSUME PInv, Returning, NEW c \in Replacer,
           (\E v \in Proxy : Begin(c, v)) \/ Replace(c)
    PROVE  Returning'
  <1> USE DEF PInv, Returning
  <1>1. c \in Caller /\ UNCHANGED <<handle, stopped>>
    BY DEF Begin, Replace, Write, Judge, TakeBack, GiveUp, Call, vars, processes
  <1>2. \A d \in Replacer \ {c} : at'[d] = at[d]
    BY DEF PTypeOK, Begin, Replace, Write, Judge, TakeBack, GiveUp
  <1>3. faults \in Nat /\ (faults' = faults \/ faults' = faults + 1)
    BY DEF PTypeOK, Begin, Replace, Write, Judge, TakeBack, GiveUp, Fault
  <1>4. CASE Call(c, "stop") /\ at'[c] \in {"stop", "back"}
    <2>1. Queued' /\ pc'[c] = "queued" /\ op'[c] = "stop"
          /\ \A d \in Caller \ {c} : pc'[d] = pc[d] /\ op'[d] = op[d]
      BY <1>1, <1>4, AppendKeepsQueued DEF Operation
    <2>2. Stoppers'
      BY <1>1, <1>2, <1>4, <2>1 DEF Stoppers, Stopper
    <2>3. Coming'
      BY <1>1, <1>4 DEF Coming, WillStart
    <2> QED
      BY <2>1, <2>2, <2>3
  <1>5. CASE Call(c, "start")
    <2>1. Queued' /\ pc'[c] = "queued" /\ op'[c] = "start"
          /\ \A d \in Caller \ {c} : pc'[d] = pc[d] /\ op'[d] = op[d]
      BY <1>1, <1>5, AppendKeepsQueued DEF Operation
    <2>2. Stoppers'
      BY <1>1, <1>2, <2>1 DEF Stoppers, Stopper
    <2>3. Coming'
      BY <1>1, <2>1 DEF Coming, WillStart
    <2> QED
      BY <2>1, <2>2, <2>3
  <1>6. CASE /\ UNCHANGED vars /\ pc[c] = "idle"
             /\ at[c] \notin {"new", "stop", "back"} \/ faults' = faults + 1
    <2>1. Queued'
      BY <1>6 DEF Queued, vars
    <2>2. Stoppers'
      BY <1>1, <1>2, <1>6 DEF Stoppers, Stopper, vars
    <2>3. Coming'
      <3>1. CASE faults' = faults + 1
        BY <1>3, <3>1 DEF Coming
      <3>2. CASE at[c] \notin {"new", "stop", "back"}
        BY <1>1, <1>2, <1>3, <1>6, <3>2 DEF Coming, WillStart, vars
      <3> QED
        BY <1>6, <3>1, <3>2
    <2> QED
      BY <2>1, <2>2, <2>3
  <1>7. ASSUME NEW v \in Proxy, Begin(c, v) PROVE Returning'
    BY <1>4, <1>7 DEF Begin, PTypeOK
  <1>8. CASE Write(c)
    BY <1>5, <1>8 DEF Write
  <1>9. CASE Judge(c)
    BY <1>4, <1>6, <1>9 DEF Judge, Resumed, PTypeOK
  <1>10. CASE TakeBack(c)
    BY <1>5, <1>6, <1>10 DEF TakeBack, Resumed, Fault
  <1>11. CASE GiveUp(c)
    BY <1>6, <1>11 DEF GiveUp, Resumed
  <1> QED
    BY <1>7, <1>8, <1>9, <1>10, <1>11 DEF Replace

(* The child is stopped by who will start one, or by the stop route.       *)
LEMMA LifecycleKeepsReturning ==
    ASSUME PInv, Returning, NEW c \in Caller, Lifecycle(c)
    PROVE  Returning'
  <1> USE DEF PInv, Returning
  <1>1. UNCHANGED <<at, stopped>> /\ faults \in Nat
    BY DEF Lifecycle, PTypeOK
  <1>2. /\ \A d \in Caller \ {c} : pc'[d] = pc[d] /\ op'[d] = op[d]
        /\ pc[c] # "idle" /\ (op'[c] = "stop" => op[c] = "stop")
    <2>1. \A d \in Caller \ {c} : pc'[d] = pc[d]
      BY OthersStay DEF Lifecycle, Step
    <2>2. /\ \A d \in Caller \ {c} : op'[d] = op[d]
          /\ op'[c] = "stop" => op[c] = "stop"
      BY DEF Lifecycle, Acquire, KeepChild, CheckAnswer, Spawn, SpawnRaises, Ready,
             NotReady, NapEnds, StopNone, Terminate, StillThere, StopEnds, Stopped,
             Inquire, Return, IInv, TypeOK
    <2>3. pc[c] # "idle"
      BY DEF Lifecycle, Acquire, KeepChild, CheckAnswer, Spawn, SpawnRaises, Ready,
             NotReady, NapEnds, StopNone, Terminate, StillThere, StopEnds, At
    <2> QED
      BY <2>1, <2>2, <2>3
  <1>3. Stoppers'
    BY <1>1, <1>2 DEF Stoppers, Stopper
  <1>4. Queued'
    <2>1. CASE Acquire(c)
      <3>1. /\ waiting \in Seq(Caller) /\ waiting # <<>> /\ waiting' = Tail(waiting)
            /\ waiting[1] = c /\ pc'[c] = "enter"
        BY <2>1 DEF Acquire, Go, IInv, TypeOK
      <3>2. /\ Len(waiting) \in Nat \ {0} /\ Len(waiting') = Len(waiting) - 1
            /\ \A i \in 1..Len(waiting') : waiting'[i] = waiting[i + 1]
        BY <3>1
      <3>3. ASSUME NEW d \in Caller, pc'[d] = "queued"
            PROVE  \E i \in 1..Len(waiting') : waiting'[i] = d
        <4>1. PICK i \in 1..Len(waiting) : waiting[i] = d
          BY <1>2, <3>1, <3>3 DEF Queued
        <4>2. i # 1 /\ i - 1 \in 1..Len(waiting') /\ waiting'[i - 1] = waiting[i]
          BY <1>2, <3>1, <3>2, <3>3, <4>1
        <4> QED
          BY <4>1, <4>2
      <3> QED
        BY <3>3 DEF Queued
    <2>2. CASE ~Acquire(c)
      <3>1. UNCHANGED waiting /\ pc'[c] # "queued"
        BY <2>2 DEF Lifecycle, KeepChild, CheckAnswer, Spawn, SpawnRaises, Ready, NotReady,
               NapEnds, StopNone, Terminate, StillThere, StopEnds, Stopped, Inquire, Return, Go,
               At, IInv, TypeOK
      <3> QED
        BY <1>2, <3>1 DEF Queued
    <2> QED
      BY <2>1, <2>2
  <1>5. Coming'
    <2>1. CASE Spawn(c)
      <3>1. handle' = spawned + 1 /\ spawned \in Nat
        BY <2>1 DEF Spawn, IInv, TypeOK
      <3>2. handle' # NoChild
        BY <3>1 DEF NoChild
      <3> QED
        BY <3>2 DEF Coming
    <2>2. CASE SpawnRaises(c)
      <3>1. Fault
        BY <2>2 DEF Lifecycle, SpawnRaises, Spawn, Acquire, KeepChild, CheckAnswer, Ready,
               NotReady, NapEnds, StopNone, Terminate, StillThere, StopEnds, At, processes, IInv,
               TypeOK
      <3> QED
        BY <1>1, <3>1 DEF Fault, Coming
    <2>3. CASE StopNone(c) \/ StopEnds(c)
      <3>1. CASE op[c] = "stop"
        BY <1>1, <1>2, <3>1 DEF Stoppers, Stopper, Coming, WillStart
      <3>2. CASE op[c] # "stop"
        <4>1. pc'[c] = "enter" /\ op'[c] = "start"
          BY <2>3, <3>2 DEF StopNone, StopEnds, Stopped, Go, IInv, TypeOK
        <4> QED
          BY <4>1 DEF Coming, WillStart
      <3> QED
        BY <3>1, <3>2
    <2>4. CASE KeepChild(c)
      <3>1. handle' = handle /\ handle # NoChild
        BY <2>4 DEF KeepChild, IInv, TypeOK, processes, Child, NoChild
      <3> QED
        BY <3>1 DEF Coming
    <2>5. CASE Acquire(c) \/ Terminate(c) \/ StillThere(c)
      <3>1. /\ handle' = handle /\ op' = op /\ faults' = faults
            /\ pc'[c] \in {"enter", "wait"} /\ pc[c] \in {"queued", "enter", "wait"}
        BY <2>5 DEF Lifecycle, Acquire, Terminate, StillThere, Spawn, SpawnRaises, At, Go, processes,
          IInv, TypeOK
      <3> QED
        BY <1>1, <1>2, <3>1 DEF Coming, WillStart
    <2>6. CASE CheckAnswer(c) \/ Ready(c) \/ NotReady(c) \/ NapEnds(c)
      <3>1. /\ handle' = handle /\ faults' = faults
            /\ pc[c] \in {"check", "ready", "nap", "last"}
        BY <2>6 DEF Lifecycle, CheckAnswer, Ready, NotReady, NapEnds, Spawn, SpawnRaises, At, processes
      <3> QED
        BY <1>1, <1>2, <3>1 DEF Coming, WillStart
    <2> QED
      BY <2>1, <2>2, <2>3, <2>4, <2>5, <2>6 DEF Lifecycle
  <1> QED
    BY <1>3, <1>4, <1>5

LEMMA NextReturning ==
    ASSUME PInv, Returning, [PNext]_pvars
    PROVE  Returning'
  <1>1. ASSUME NEW c \in Replacer, (\E v \in Proxy : Begin(c, v)) \/ Replace(c) PROVE Returning'
    BY <1>1, ReplaceKeepsReturning
  <1>2. ASSUME NEW c \in Caller, Lifecycle(c) PROVE Returning'
    BY <1>2, LifecycleKeepsReturning
  <1>3. ASSUME NEW c \in Caller \ Replacer, NEW o \in {"start", "stop", "restart"},
               ApiCall(c, o)
        PROVE  Returning'
    <2>1. /\ UNCHANGED <<handle, at, faults>>
          /\ stopped => stopped'
          /\ o = "stop" => stopped'
          /\ stopped' => stopped \/ o = "stop"
      BY <1>3, Zenon DEF ApiCall, Call, processes, request
    <2>2. Queued' /\ pc'[c] = "queued" /\ op'[c] = o
          /\ \A d \in Caller \ {c} : pc'[d] = pc[d] /\ op'[d] = op[d]
      BY <1>3, AppendKeepsQueued DEF ApiCall, Returning, Operation
    <2>3. Stoppers'
      <3> SUFFICES ASSUME NEW d \in Caller, op'[d] = "stop", pc'[d] # "idle" PROVE Stopper(d)'
        BY DEF Stoppers
      <3>1. CASE d = c
        BY <2>1, <2>2, <3>1, Zenon DEF Stopper
      <3>2. CASE d # c
        <4>1. Stopper(d)
          BY <2>2, <3>2 DEF Returning, Stoppers
        <4> QED
          BY <2>1, <4>1, Zenon DEF Stopper
      <3> QED
        BY <3>1, <3>2
    <2>4. Coming'
      <3>1. CASE o = "stop"
        BY <2>1, <3>1, Zenon DEF Coming
      <3>2. CASE o # "stop"
        <4>1. WillStart(c)'
          BY <1>3, <2>2, <3>2 DEF WillStart
        <4> QED
          BY <4>1, Zenon DEF Coming
      <3> QED
        BY <3>1, <3>2
    <2> QED
      BY <2>2, <2>3, <2>4 DEF Returning
  <1>4. CASE UNCHANGED pvars \/ \E k \in Child : ChildExit(k)
    <2>1. UNCHANGED <<handle, waiting, pc, op, at, faults, stopped>>
      BY <1>4 DEF pvars, vars, ChildExit, Exit, request
    <2> QED
      BY <2>1 DEF Returning, Queued, Stoppers, Stopper, Coming, WillStart
  <1> QED
    BY <1>1, <1>2, <1>3, <1>4 DEF PNext

(* When every replace is over, however they overlapped and whichever were  *)
(* taken back, the Sidecar has been started again (the except clause and   *)
(* the last start of replace).                                             *)
THEOREM SidecarReturns ==
    ASSUME Replacer # {}
    PROVE  PSpec => []SidecarComesBack
  <1>1. PInit => Returning
    BY InitReturning
  <1>2. PInv /\ Returning /\ [PNext]_pvars => Returning'
    BY NextReturning
  <1>3. PInv /\ Returning => SidecarComesBack
    <2> SUFFICES ASSUME PInv, Returning, Quiet, faults = 0, ~stopped PROVE handle # NoChild
      BY DEF SidecarComesBack
    <2>1. \A c \in Caller : pc[c] \notin {"queued", "enter", "wait"}
      <3>1. \A c \in Caller : pc[c] # "queued"
        <4>1. waiting = <<>>
          BY DEF Quiet
        <4>2. 1..Len(waiting) = {}
          BY <4>1
        <4> QED
          BY <4>2 DEF Returning, Queued
      <3>2. \A c \in Caller : pc[c] \notin {"enter", "wait"}
        BY CallerAssumption DEF Quiet, PInv, IInv, Exclusive, Inside
      <3> QED
        BY <3>1, <3>2
    <2>2. \A c \in Caller : ~WillStart(c)
      BY <2>1 DEF WillStart, Quiet
    <2> QED
      BY <2>2 DEF Returning, Coming
  <1> QED
    BY PInvariance, <1>1, <1>2, <1>3, PTL DEF PSpec

=============================================================================
