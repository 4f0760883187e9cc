-------------------------- MODULE SidecarLifecycle --------------------------
(***************************************************************************)
(* CLIProxyAPILifecycle (sidecars/cliproxy/lifecycle.py): the one handle   *)
(* through which the Supervisor starts, stops and asks after its Sidecar.  *)
(*                                                                         *)
(* Every caller is a coroutine of one event loop and a step runs to its    *)
(* next await.  start, stop and restart hold an asyncio.Lock, which wakes  *)
(* its waiters in order; status takes no lock.  The child is a process of  *)
(* its own: it may exit at any time, and takes a while to once terminated. *)
(*                                                                         *)
(* The readiness probe asks a fixed URL, so its answer is not tied to the  *)
(* child: it is any answer at all.                                         *)
(***************************************************************************)
EXTENDS Naturals, Sequences

CONSTANTS
    Caller,      \* coroutines that use the lifecycle
    NoCaller,
    MaxSpawns,   \* bound: children ever started
    Attempts,    \* readiness_attempts
    StopPolls    \* how often stop polls within stop_timeout

Child == 1..MaxSpawns
NoChild == 0

ASSUME CallerAssumption == NoCaller \notin Caller
ASSUME BoundAssumption ==
    /\ MaxSpawns \in Nat
    /\ Attempts \in Nat \ {0}
    /\ StopPolls \in Nat

VARIABLES
    handle,      \* self._process
    spawned,     \* the children started so far are 1..spawned
    alive,       \* those whose poll() is None
    terminated,  \* those that terminate() or kill() was called on
    lock,        \* who holds _mutation_lock
    waiting,     \* who waits for it, in order
    pc, op,      \* where each caller stands, in which operation
    own,         \* its local "process"
    tries,       \* its local "attempt" or "elapsed"
    answer       \* the SidecarRuntimeState it was last given

processes == <<handle, spawned, alive, terminated>>
vars == <<handle, spawned, alive, terminated, lock, waiting, pc, op, own, tries, answer>>

Operation == {"start", "stop", "restart", "status"}
State == {"none", "stopped", "starting", "running", "crashed", "raised"}
Inside == {"enter", "check", "ready", "nap", "last", "wait"}
Location == {"idle", "queued", "status"} \cup Inside

None == [state |-> "none", pid |-> NoChild]

Init ==
    /\ handle = NoChild /\ spawned = 0 /\ alive = {} /\ terminated = {}
    /\ lock = NoCaller /\ waiting = <<>>
    /\ pc = [c \in Caller |-> "idle"]
    /\ op = [c \in Caller |-> "status"]
    /\ own = [c \in Caller |-> NoChild]
    /\ tries = [c \in Caller |-> 0]
    /\ answer = [c \in Caller |-> None]

At(c, place) == pc[c] = place
Go(c, place) == pc' = [pc EXCEPT ![c] = place]

(* The operation returns, and "async with" releases the lock.              *)
Return(c, state, pid) ==
    /\ Go(c, "idle")
    /\ answer' = [answer EXCEPT ![c] = [state |-> state, pid |-> pid]]
    /\ own' = [own EXCEPT ![c] = NoChild]
    /\ tries' = [tries EXCEPT ![c] = 0]
    /\ lock' = IF lock = c THEN NoCaller ELSE lock
    /\ UNCHANGED op

(* status(): a child that has exited is reported at once; a live one is    *)
(* remembered while the probe is awaited.                                  *)
Inquire(c, place, n) ==
    \/ handle = NoChild /\ Return(c, "stopped", NoChild)
    \/ /\ handle # NoChild /\ handle \notin alive
       /\ Return(c, "crashed", handle)
    \/ /\ handle \in alive
       /\ Go(c, place)
       /\ own' = [own EXCEPT ![c] = handle]
       /\ tries' = [tries EXCEPT ![c] = n]
       /\ UNCHANGED <<lock, op, answer>>

-----------------------------------------------------------------------------
(* Calls.                                                                  *)

Call(c, o) ==
    /\ pc[c] = "idle"
    /\ op' = [op EXCEPT ![c] = o]
    /\ Go(c, "queued")
    /\ waiting' = Append(waiting, c)
    /\ answer' = [answer EXCEPT ![c] = None]
    /\ UNCHANGED <<processes, lock, own, tries>>

Status(c) ==
    /\ pc[c] = "idle"
    /\ Inquire(c, "status", 0)
    /\ UNCHANGED <<processes, waiting>>

StatusAnswer(c) ==
    /\ At(c, "status")
    /\ \E ready \in BOOLEAN : Return(c, IF ready THEN "running" ELSE "starting", own[c])
    /\ UNCHANGED <<processes, waiting>>

(* Mutant: nothing is locked.                                              *)
MutAcquire(c) ==
    /\ At(c, "queued")
    /\ Go(c, "enter")
    /\ waiting' = SelectSeq(waiting, LAMBDA d : d # c)
    /\ lock' = c
    /\ UNCHANGED <<processes, op, own, tries, answer>>

Acquire(c) ==
    /\ At(c, "queued")
    /\ lock = NoCaller
    /\ waiting # <<>> /\ waiting[1] = c
    /\ lock' = c /\ waiting' = Tail(waiting)
    /\ Go(c, "enter")
    /\ UNCHANGED <<processes, op, own, tries, answer>>

-----------------------------------------------------------------------------
(* _start_unlocked: a live child is asked once, and kept.                  *)

KeepChild(c) ==
    /\ At(c, "enter") /\ op[c] = "start"
    /\ handle \in alive
    /\ Inquire(c, "check", 0)
    /\ UNCHANGED <<processes, waiting>>

CheckAnswer(c) ==
    /\ At(c, "check")
    /\ \E ready \in BOOLEAN : Return(c, IF ready THEN "running" ELSE "starting", own[c])
    /\ UNCHANGED <<processes, waiting>>

(* Else a new child is started and asked for the first time.               *)
Spawn(c) ==
    /\ At(c, "enter") /\ op[c] = "start"
    /\ handle \notin alive
    /\ spawned < MaxSpawns
    /\ spawned' = spawned + 1
    /\ handle' = spawned' /\ alive' = alive \cup {spawned'}
    /\ Go(c, "ready")
    /\ own' = [own EXCEPT ![c] = spawned']
    /\ tries' = [tries EXCEPT ![c] = 1]
    /\ UNCHANGED <<terminated, lock, waiting, op, answer>>

(* A missing file, or a process that cannot be created.                    *)
SpawnRaises(c) ==
    /\ At(c, "enter") /\ op[c] = "start"
    /\ handle \notin alive
    /\ Return(c, "raised", NoChild)
    /\ UNCHANGED <<processes, waiting>>

(* _await_readiness.                                                       *)
Ready(c) ==
    /\ At(c, "ready") \/ At(c, "last")
    /\ Return(c, "running", own[c])
    /\ UNCHANGED <<processes, waiting>>

NotReady(c) ==
    /\ \/ At(c, "ready") /\ tries[c] < Attempts /\ Go(c, "nap")
          /\ UNCHANGED <<lock, op, own, tries, answer>>
       \/ At(c, "ready") /\ tries[c] = Attempts /\ Inquire(c, "last", tries[c])
       \/ At(c, "last") /\ Return(c, "starting", own[c])
    /\ UNCHANGED <<processes, waiting>>

(* Mutant: the attempts are not counted.                                   *)
MutNapEnds(c) ==
    /\ At(c, "nap")
    /\ Inquire(c, "ready", tries[c])
    /\ UNCHANGED <<processes, waiting>>

NapEnds(c) ==
    /\ At(c, "nap")
    /\ Inquire(c, "ready", tries[c] + 1)
    /\ UNCHANGED <<processes, waiting>>

-----------------------------------------------------------------------------
(* _stop_unlocked, at whose end restart goes on to start.                  *)

Stopped(c) ==
    /\ handle' = NoChild
    /\ IF op[c] = "stop"
         THEN Return(c, "stopped", NoChild)
         ELSE /\ Go(c, "enter")
              /\ op' = [op EXCEPT ![c] = "start"]
              /\ own' = [own EXCEPT ![c] = NoChild]
              /\ tries' = [tries EXCEPT ![c] = 0]
              /\ UNCHANGED <<lock, answer>>

StopNone(c) ==
    /\ At(c, "enter") /\ op[c] \in {"stop", "restart"}
    /\ handle \notin alive
    /\ Stopped(c)
    /\ UNCHANGED <<spawned, alive, terminated, waiting>>

Terminate(c) ==
    /\ At(c, "enter") /\ op[c] \in {"stop", "restart"}
    /\ handle \in alive
    /\ terminated' = terminated \cup {handle}
    /\ own' = [own EXCEPT ![c] = handle]
    /\ tries' = [tries EXCEPT ![c] = 0]
    /\ Go(c, "wait")
    /\ UNCHANGED <<handle, spawned, alive, lock, waiting, op, answer>>

(* Mutant: the elapsed time is not compared with stop_timeout.             *)
MutStillThere(c) ==
    /\ At(c, "wait")
    /\ own[c] \in alive
    /\ tries' = [tries EXCEPT ![c] = @ + 1]
    /\ UNCHANGED <<processes, lock, waiting, pc, op, own, answer>>

StillThere(c) ==
    /\ At(c, "wait")
    /\ own[c] \in alive /\ tries[c] < StopPolls
    /\ tries' = [tries EXCEPT ![c] = @ + 1]
    /\ UNCHANGED <<processes, lock, waiting, pc, op, own, answer>>

(* It has exited, or it is killed and nobody waits for that.               *)
StopEnds(c) ==
    /\ At(c, "wait")
    /\ own[c] \notin alive \/ tries[c] = StopPolls
    /\ Stopped(c)
    /\ UNCHANGED <<spawned, alive, terminated, waiting>>

-----------------------------------------------------------------------------
Exit(k) ==
    /\ k \in alive
    /\ alive' = alive \ {k}
    /\ UNCHANGED <<handle, spawned, terminated, lock, waiting, pc, op, own, tries, answer>>

Step(c) ==
    \/ StatusAnswer(c) \/ Acquire(c)
    \/ KeepChild(c) \/ CheckAnswer(c) \/ Spawn(c) \/ SpawnRaises(c)
    \/ Ready(c) \/ NotReady(c) \/ NapEnds(c)
    \/ StopNone(c) \/ Terminate(c) \/ StillThere(c) \/ StopEnds(c)

Next ==
    \/ \E c \in Caller : Status(c) \/ Step(c)
    \/ \E c \in Caller : \E o \in Operation \ {"status"} : Call(c, o)
    \/ \E k \in Child : Exit(k)

Spec == Init /\ [][Next]_vars

(* The event loop resumes every coroutine: sleeps elapse, and the probe's  *)
(* HTTP client has timeouts.  Nothing makes a child exit.                  *)
FairSpec == Spec /\ \A c \in Caller : WF_vars(Step(c))

-----------------------------------------------------------------------------
(* Properties.                                                             *)

(* Every variable keeps its type; no loop counts beyond its bound.         *)
TypeOK ==
    /\ handle \in {NoChild} \cup Child
    /\ spawned \in 0..MaxSpawns
    /\ alive \subseteq Child /\ terminated \subseteq Child
    /\ lock \in Caller \cup {NoCaller}
    /\ waiting \in Seq(Caller)
    /\ pc \in [Caller -> Location]
    /\ op \in [Caller -> Operation]
    /\ own \in [Caller -> {NoChild} \cup Child]
    /\ tries \in [Caller -> 0..Attempts \cup 0..StopPolls]
    /\ answer \in [Caller -> [state : State, pid : {NoChild} \cup Child]]

(* A Sidecar that nobody has told to end is the one the handle names: none *)
(* is ever orphaned by two operations that overlap, and there is never a   *)
(* second one ("Stop the owned child only").                               *)
OneChild == alive \ terminated \subseteq {handle}

(* start and restart answer for the child they leave behind: the pid of a  *)
(* "running" or "starting" answer is the current handle's and no stop has  *)
(* been let in between, and a start is never answered with "stopped".      *)
AnswersForItsChild ==
    [][\A c \in Caller :
         pc[c] \in {"check", "ready", "nap", "last"} /\ pc'[c] = "idle" =>
             /\ answer'[c].state \in {"running", "starting", "crashed"}
             /\ answer'[c].pid = handle' /\ handle' \notin terminated']_vars

(* Every operation returns, however often the probe fails and even if the  *)
(* child will not exit: its loops are bounded and the lock is fair.        *)
EveryCallReturns == \A c \in Caller : pc[c] # "idle" ~> pc[c] = "idle"

=============================================================================
