------------------------ MODULE SidecarLifecycleProofs ------------------------
(***************************************************************************)
(* Proofs, for any callers and any bounds, that the lifecycle's lock is    *)
(* what keeps the Supervisor to one Sidecar process, that every step       *)
(* brings its call nearer to its return, and that the lock is passed on.   *)
(***************************************************************************)
EXTENDS SidecarLifecycle, SequenceTheorems, TLAPS

(* Past "async with" stands only the holder of the lock.                   *)
Exclusive == \A c \in Caller : pc[c] \in Inside => lock = c

(* The children started so far bear the numbers up to spawned.             *)
Counted ==
    /\ handle <= spawned
    /\ alive \subseteq 1..spawned /\ terminated \subseteq 1..spawned

(* While stop waits, the handle still names the child it terminated.       *)
Stopping ==
    \A c \in Caller : pc[c] = "wait" =>
        own[c] = handle /\ handle # NoChild /\ own[c] \in terminated

(* While start waits for its child, nobody replaces or terminates it.      *)
Asking ==
    /\ \A c \in Caller : pc[c] \in {"check", "ready", "nap", "last"} =>
         own[c] = handle /\ handle # NoChild /\ handle \notin terminated
    /\ \A c \in Caller : pc[c] = "nap" => tries[c] < Attempts

(* Between operations the handle names no child that was told to end.      *)
Unterminated ==
    handle \in terminated => \E c \in Caller : pc[c] = "wait"

IInv ==
    /\ TypeOK /\ Exclusive /\ Counted /\ OneChild
    /\ Stopping /\ Asking /\ Unterminated

USE CallerAssumption, BoundAssumption DEF Child, NoChild, Inside

-----------------------------------------------------------------------------
LEMMA InitIInv == Init => IInv
  BY DEF Init, IInv, TypeOK, Exclusive, Counted, OneChild, Stopping, Asking, Unterminated,
         Location, Operation, State, None

(* A return changes only the caller's locals, and frees the lock it held.  *)
Returned(c, state, pid) ==
    /\ pc' \in [Caller -> Location] /\ pc'[c] = "idle"
    /\ \A d \in Caller \ {c} : pc'[d] = pc[d] /\ own'[d] = own[d] /\ tries'[d] = tries[d]
    /\ own' \in [Caller -> {NoChild} \cup Child]
    /\ tries' \in [Caller -> 0..Attempts \cup 0..StopPolls]
    /\ answer' \in [Caller -> [state : State, pid : {NoChild} \cup Child]]
    /\ answer'[c] = [state |-> state, pid |-> pid]
    /\ op' = op
    /\ lock' \in Caller \cup {NoCaller}
    /\ \A d \in Caller \ {c} : lock = d => lock' = d

LEMMA ReturnTypes ==
    ASSUME IInv, NEW c \in Caller, NEW state \in State, NEW pid \in {NoChild} \cup Child,
           Return(c, state, pid)
    PROVE  Returned(c, state, pid)
  BY DEF IInv, TypeOK, Return, Returned, Go, Location

(* A return that leaves the processes and the queue alone keeps IInv.      *)
LEMMA ReturnKeepsIInv ==
    ASSUME IInv, NEW c \in Caller, NEW state \in State, NEW pid \in {NoChild} \cup Child,
           pc[c] # "wait", Return(c, state, pid), UNCHANGED <<processes, waiting>>
    PROVE  IInv'
  <1> Returned(c, state, pid)
    BY ReturnTypes
  <1>1. TypeOK'
    BY DEF IInv, TypeOK, Returned, processes
  <1>2. Exclusive'
    BY DEF IInv, Exclusive, Returned
  <1>3. Counted' /\ OneChild'
    BY DEF IInv, Counted, OneChild, processes
  <1>4. Stopping' /\ Asking' /\ Unterminated'
    BY DEF IInv, Stopping, Asking, Unterminated, Returned, processes
  <1>5. QED
    BY <1>1, <1>2, <1>3, <1>4 DEF IInv

(* So does asking for the status, by whoever may stand at the place named. *)
LEMMA InquireKeepsIInv ==
    ASSUME IInv, NEW c \in Caller, NEW place \in {"status", "check", "ready", "last"},
           NEW n \in 0..Attempts,
           place # "status" => lock = c /\ (handle # NoChild => handle \notin terminated),
           pc[c] # "wait", Inquire(c, place, n), UNCHANGED <<processes, waiting>>
    PROVE  IInv'
  <1>1. CASE handle = NoChild /\ Return(c, "stopped", NoChild)
    BY <1>1, ReturnKeepsIInv DEF State
  <1>2. CASE handle # NoChild /\ Return(c, "crashed", handle)
    BY <1>2, ReturnKeepsIInv DEF State, IInv, TypeOK
  <1>3. CASE /\ handle \in alive
             /\ Go(c, place)
             /\ own' = [own EXCEPT ![c] = handle]
             /\ tries' = [tries EXCEPT ![c] = n]
             /\ UNCHANGED <<lock, op, answer>>
    <2>1. TypeOK'
      BY <1>3 DEF IInv, TypeOK, Go, Location, processes
    <2>2. Exclusive'
      BY <1>3 DEF IInv, TypeOK, Exclusive, Go
    <2>3. Counted' /\ OneChild'
      BY DEF IInv, Counted, OneChild, processes
    <2>4. Stopping' /\ Asking' /\ Unterminated'
      BY <1>3 DEF IInv, TypeOK, Stopping, Asking, Unterminated, Go, processes
    <2>5. QED
      BY <2>1, <2>2, <2>3, <2>4 DEF IInv
  <1>4. QED
    BY <1>1, <1>2, <1>3 DEF Inquire

(* At the end of a stop no child is left that was not told to end.         *)
LEMMA StoppedKeepsIInv ==
    ASSUME IInv, NEW c \in Caller, pc[c] \in Inside, Stopped(c),
           alive \ terminated = {},
           UNCHANGED <<spawned, alive, terminated, waiting>>
    PROVE  IInv' /\ alive' \ terminated' = {}
  <1>1. lock = c /\ \A d \in Caller \ {c} : pc[d] \notin Inside
    BY DEF IInv, Exclusive
  <1>2. alive' \ terminated' = {}
    OBVIOUS
  <1>3. Counted' /\ OneChild' /\ Unterminated'
    BY DEF IInv, TypeOK, Counted, OneChild, Unterminated, Stopped
  <1>4. CASE op[c] = "stop"
    <2>1. Returned(c, "stopped", NoChild) /\ handle' = NoChild
      BY <1>4, ReturnTypes DEF Stopped, State
    <2>2. TypeOK'
      BY <2>1 DEF IInv, TypeOK, Returned
    <2>3. Exclusive' /\ Stopping' /\ Asking'
      BY <1>1, <2>1 DEF IInv, Exclusive, Stopping, Asking, Returned
    <2>4. QED
      BY <1>2, <1>3, <2>2, <2>3 DEF IInv
  <1>5. CASE op[c] # "stop"
    <2>1. TypeOK'
      <3>1. /\ pc' = [pc EXCEPT ![c] = "enter"] /\ op' = [op EXCEPT ![c] = "start"]
            /\ own' = [own EXCEPT ![c] = NoChild] /\ tries' = [tries EXCEPT ![c] = 0]
            /\ handle' = NoChild /\ lock' = lock /\ answer' = answer
        BY <1>5 DEF Stopped, Go
      <3>2. QED
        BY <3>1 DEF IInv, TypeOK, Location, Operation
    <2>2. Exclusive' /\ Stopping' /\ Asking'
      BY <1>1, <1>5 DEF IInv, TypeOK, Exclusive, Stopping, Asking, Stopped, Go
    <2>3. QED
      BY <1>2, <1>3, <2>1, <2>2 DEF IInv
  <1>6. QED
    BY <1>4, <1>5

-----------------------------------------------------------------------------
(* Every step keeps the invariant.                                         *)
LEMMA CallKeepsIInv ==
    ASSUME IInv, NEW c \in Caller, NEW o \in Operation, Call(c, o)
    PROVE  IInv'
  <1>1. waiting' \in Seq(Caller)
    BY AppendProperties DEF IInv, TypeOK, Call
  <1>2. TypeOK'
    BY <1>1 DEF IInv, TypeOK, Call, Go, Location, State, None, processes
  <1>3. Exclusive' /\ Counted' /\ OneChild' /\ Stopping' /\ Asking' /\ Unterminated'
    BY DEF IInv, TypeOK, Exclusive, Counted, OneChild, Stopping, Asking, Unterminated, Call, Go,
           processes
  <1>4. QED
    BY <1>2, <1>3 DEF IInv

LEMMA AcquireKeepsIInv ==
    ASSUME IInv, NEW c \in Caller, Acquire(c)
    PROVE  IInv'
  <1>1. waiting' \in Seq(Caller)
    BY HeadTailProperties DEF IInv, TypeOK, Acquire
  <1>2. \A d \in Caller : pc[d] \notin Inside
    BY DEF IInv, TypeOK, Exclusive, Acquire
  <1>3. TypeOK'
    BY <1>1 DEF IInv, TypeOK, Acquire, Go, Location, processes
  <1>4. Exclusive' /\ Counted' /\ OneChild' /\ Stopping' /\ Asking' /\ Unterminated'
    BY <1>2 DEF IInv, TypeOK, Exclusive, Counted, OneChild, Stopping, Asking, Unterminated, Acquire,
                Go, processes
  <1>5. QED
    BY <1>3, <1>4 DEF IInv

LEMMA StartKeepsIInv ==
    ASSUME IInv, NEW c \in Caller,
           \/ KeepChild(c) \/ CheckAnswer(c) \/ Spawn(c) \/ SpawnRaises(c)
           \/ Ready(c) \/ NotReady(c) \/ NapEnds(c)
    PROVE  IInv'
  <1>1. CASE KeepChild(c)
    <2>1. lock = c /\ handle \notin terminated /\ handle # NoChild
      <3>1. lock = c /\ handle \in alive /\ pc[c] \in Inside
        BY <1>1 DEF KeepChild, At, IInv, Exclusive
      <3>2. handle \notin terminated
        BY <3>1, <1>1 DEF KeepChild, At, IInv, Exclusive, Unterminated
      <3>3. QED
        BY <3>1, <3>2 DEF IInv, Counted
    <2>2. QED
      BY <1>1, <2>1, InquireKeepsIInv DEF KeepChild, At
  <1>2. CASE CheckAnswer(c) \/ Ready(c)
    <2>1. own[c] \in {NoChild} \cup Child
      BY DEF IInv, TypeOK
    <2>2. QED
      BY <1>2, <2>1, ReturnKeepsIInv DEF CheckAnswer, Ready, State, At
  <1>3. CASE Spawn(c)
    <2>1. lock = c /\ \A d \in Caller \ {c} : pc[d] \notin Inside
      BY <1>3 DEF IInv, Exclusive, Spawn, At
    <2>2. spawned' \in Child /\ spawned' \notin alive /\ spawned' \notin terminated
      BY <1>3 DEF IInv, TypeOK, Counted, Spawn
    <2>3. TypeOK'
      BY <1>3, <2>2 DEF IInv, TypeOK, Spawn, Go, Location
    <2>4. Exclusive' /\ Stopping' /\ Asking' /\ Unterminated'
      BY <1>3, <2>1, <2>2 DEF IInv, TypeOK, Exclusive, Stopping, Asking, Unterminated, Spawn, Go
    <2>5. Counted' /\ OneChild'
      BY <1>3, <2>2 DEF IInv, TypeOK, Counted, OneChild, Spawn
    <2>6. QED
      BY <2>3, <2>4, <2>5 DEF IInv
  <1>4. CASE SpawnRaises(c)
    BY <1>4, ReturnKeepsIInv DEF SpawnRaises, State, At
  <1>5. CASE NotReady(c)
    <2>1. own[c] \in {NoChild} \cup Child
      BY DEF IInv, TypeOK
    <2>2. CASE At(c, "last") /\ Return(c, "starting", own[c])
      BY <1>5, <2>1, <2>2, ReturnKeepsIInv DEF NotReady, State, At
    <2>3. CASE /\ At(c, "ready") /\ tries[c] = Attempts /\ Inquire(c, "last", tries[c])
      <3>1. lock = c /\ handle \notin terminated /\ tries[c] \in 0..Attempts
        BY <2>3 DEF At, IInv, Exclusive, Asking
      <3>2. QED
        BY <1>5, <2>3, <3>1, InquireKeepsIInv DEF NotReady, At
    <2>4. CASE /\ At(c, "ready") /\ tries[c] < Attempts /\ Go(c, "nap")
               /\ UNCHANGED <<lock, op, own, tries, answer>>
      <3>1. TypeOK'
        BY <1>5, <2>4 DEF IInv, TypeOK, NotReady, Go, Location, processes
      <3>2. Exclusive' /\ Counted' /\ OneChild' /\ Stopping' /\ Asking' /\ Unterminated'
        BY <1>5, <2>4
        DEF IInv, TypeOK, Exclusive, Counted, OneChild, Stopping, Asking, Unterminated, NotReady,
            At, Go, processes
      <3>3. QED
        BY <3>1, <3>2 DEF IInv
    <2>5. QED
      BY <1>5, <2>2, <2>3, <2>4 DEF NotReady
  <1>6. CASE NapEnds(c)
    <2>1. /\ lock = c /\ handle \notin terminated
          /\ tries[c] + 1 \in 0..Attempts
      BY <1>6 DEF NapEnds, At, IInv, TypeOK, Exclusive, Asking
    <2>2. QED
      BY <1>6, <2>1, InquireKeepsIInv DEF NapEnds, At
  <1>7. QED
    BY <1>1, <1>2, <1>3, <1>4, <1>5, <1>6

LEMMA StopKeepsIInv ==
    ASSUME IInv, NEW c \in Caller,
           StopNone(c) \/ Terminate(c) \/ StillThere(c) \/ StopEnds(c)
    PROVE  IInv'
  <1>1. CASE StopNone(c) \/ StopEnds(c)
    <2>1. alive \ terminated = {} /\ pc[c] \in Inside
      BY <1>1 DEF IInv, OneChild, Stopping, StopNone, StopEnds, At
    <2>2. QED
      BY <1>1, <2>1, StoppedKeepsIInv DEF StopNone, StopEnds
  <1>2. CASE Terminate(c)
    <2>1. lock = c /\ \A d \in Caller \ {c} : pc[d] \notin Inside
      BY <1>2 DEF IInv, Exclusive, Terminate, At
    <2>2. TypeOK'
      BY <1>2 DEF IInv, TypeOK, Terminate, Go, Location
    <2>3. Exclusive' /\ Stopping' /\ Asking' /\ Unterminated'
      BY <1>2, <2>1
      DEF IInv, TypeOK, Exclusive, Counted, Stopping, Asking, Unterminated, Terminate, Go
    <2>4. Counted' /\ OneChild'
      BY <1>2 DEF IInv, Counted, OneChild, Terminate
    <2>5. QED
      BY <2>2, <2>3, <2>4 DEF IInv
  <1>3. CASE StillThere(c)
    <2>1. TypeOK'
      BY <1>3 DEF IInv, TypeOK, StillThere, processes
    <2>2. Exclusive' /\ Counted' /\ OneChild' /\ Stopping' /\ Asking' /\ Unterminated'
      BY <1>3 DEF IInv, TypeOK, Exclusive, Counted, OneChild, Stopping, Asking, Unterminated,
                  StillThere, At, processes
    <2>3. QED
      BY <2>1, <2>2 DEF IInv
  <1>4. QED
    BY <1>1, <1>2, <1>3

(* A caller's step touches nobody else's place and counter.                *)
LEMMA OthersStay ==
    ASSUME IInv, NEW d \in Caller, NEW c \in Caller \ {d},
           Status(d) \/ Step(d) \/ \E o \in Operation \ {"status"} : Call(d, o)
    PROVE  pc'[c] = pc[c] /\ op'[c] = op[c] /\ tries'[c] = tries[c]
  <1> DEFINE Same == pc'[c] = pc[c] /\ op'[c] = op[c] /\ tries'[c] = tries[c]
  <1>1. ASSUME NEW state, NEW pid, Return(d, state, pid) PROVE Same
    BY <1>1 DEF IInv, TypeOK, Return, Go
  <1>2. ASSUME NEW place, NEW n, Inquire(d, place, n) PROVE Same
    BY <1>1, <1>2 DEF IInv, TypeOK, Inquire, Go
  <1>3. CASE Stopped(d)
    <2>1. CASE op[d] = "stop"
      BY <1>1, <1>3, <2>1 DEF Stopped
    <2>2. CASE op[d] # "stop"
      BY <1>3, <2>2 DEF IInv, TypeOK, Stopped, Go
    <2> QED
      BY <2>1, <2>2
  <1>4. CASE Status(d) \/ KeepChild(d) \/ NapEnds(d)
    BY <1>2, <1>4 DEF Status, KeepChild, NapEnds
  <1>5. CASE StatusAnswer(d) \/ CheckAnswer(d) \/ SpawnRaises(d) \/ Ready(d)
    BY <1>1, <1>5 DEF StatusAnswer, CheckAnswer, SpawnRaises, Ready
  <1>6. CASE NotReady(d)
    <2>1. CASE Go(d, "nap") /\ UNCHANGED <<lock, op, own, tries, answer>>
      BY <2>1 DEF IInv, TypeOK, Go
    <2> QED
      BY <1>1, <1>2, <1>6, <2>1 DEF NotReady
  <1>7. CASE Acquire(d) \/ Spawn(d) \/ Terminate(d) \/ StillThere(d)
    BY <1>7 DEF IInv, TypeOK, Acquire, Spawn, Terminate, StillThere, Go
  <1>8. CASE StopNone(d) \/ StopEnds(d)
    BY <1>3, <1>8 DEF StopNone, StopEnds
  <1>9. CASE \E o \in Operation \ {"status"} : Call(d, o)
    BY <1>9 DEF IInv, TypeOK, Call, Go
  <1> QED
    BY <1>4, <1>5, <1>6, <1>7, <1>8, <1>9 DEF Step

LEMMA NextIInv == IInv /\ [Next]_vars => IInv'
  <1> SUFFICES ASSUME IInv, [Next]_vars PROVE IInv'
    OBVIOUS
  <1>1. ASSUME NEW c \in Caller, Status(c) PROVE IInv'
    BY <1>1, InquireKeepsIInv DEF Status
  <1>2. ASSUME NEW c \in Caller, StatusAnswer(c) PROVE IInv'
    <2>1. own[c] \in {NoChild} \cup Child
      BY DEF IInv, TypeOK
    <2>2. QED
      BY <1>2, <2>1, ReturnKeepsIInv DEF StatusAnswer, State, At
  <1>3. ASSUME NEW c \in Caller, Acquire(c) PROVE IInv'
    BY <1>3, AcquireKeepsIInv
  <1>4. ASSUME NEW c \in Caller,
               \/ KeepChild(c) \/ CheckAnswer(c) \/ Spawn(c) \/ SpawnRaises(c)
               \/ Ready(c) \/ NotReady(c) \/ NapEnds(c)
        PROVE  IInv'
    BY <1>4, StartKeepsIInv
  <1>5. ASSUME NEW c \in Caller,
               StopNone(c) \/ Terminate(c) \/ StillThere(c) \/ StopEnds(c)
        PROVE  IInv'
    BY <1>5, StopKeepsIInv
  <1>6. ASSUME NEW c \in Caller, NEW o \in Operation, Call(c, o) PROVE IInv'
    BY <1>6, CallKeepsIInv
  <1>7. ASSUME NEW k \in Child, Exit(k) PROVE IInv'
    <2>1. TypeOK'
      BY <1>7 DEF IInv, TypeOK, Exit
    <2>2. Exclusive' /\ Counted' /\ OneChild' /\ Stopping' /\ Asking' /\ Unterminated'
      BY <1>7 DEF IInv, Exclusive, Counted, OneChild, Stopping, Asking, Unterminated, Exit
    <2>3. QED
      BY <2>1, <2>2 DEF IInv
  <1>8. CASE UNCHANGED vars
    BY <1>8 DEF vars, IInv, TypeOK, Exclusive, Counted, OneChild, Stopping, Asking, Unterminated
  <1>9. QED
    BY <1>1, <1>2, <1>3, <1>4, <1>5, <1>6, <1>7, <1>8 DEF Next, Step

LEMMA Invariance == Spec => []IInv
  <1>1. IInv /\ [Next]_vars => IInv'
    BY NextIInv
  <1>2. QED
    BY InitIInv, <1>1, PTL DEF Spec

-----------------------------------------------------------------------------
(* The lifecycle's variables keep their types, its counters their bounds.  *)
THEOREM TypeCorrect == Spec => []TypeOK
  <1>1. IInv => TypeOK
    BY DEF IInv
  <1>2. QED
    BY Invariance, <1>1, PTL

(* However start, stop, restart and the child's own end overlap, the       *)
(* Supervisor never has a second Sidecar nor one it has lost the handle of.*)
THEOREM NeverTwoChildren == Spec => []OneChild
  <1>1. IInv => OneChild
    BY DEF IInv
  <1>2. QED
    BY Invariance, <1>1, PTL

(* What start and restart answer is about the child they leave behind.     *)
THEOREM StartAnswersForItsChild == Spec => AnswersForItsChild
  <1> DEFINE Waits(c) == pc[c] \in {"check", "ready", "nap", "last"}
             Truthful(c) ==
                /\ answer'[c].state \in {"running", "starting", "crashed"}
                /\ answer'[c].pid = handle' /\ handle' \notin terminated'
  <1>1. ASSUME IInv, [Next]_vars, NEW c \in Caller, Waits(c), pc'[c] = "idle"
        PROVE  Truthful(c)
    <2>1. own[c] = handle /\ handle # NoChild /\ handle \notin terminated
      BY <1>1 DEF IInv, Asking
    <2>2. Step(c)
      <3>1. \A d \in Caller \ {c} : ~Status(d) /\ ~Step(d)
        BY <1>1, OthersStay
      <3>2. ~Status(c) /\ \A d \in Caller, o \in Operation : ~Call(d, o)
        BY <1>1 DEF IInv, TypeOK, Status, Call, Go
      <3>3. \A k \in Child : ~Exit(k)
        BY <1>1 DEF Exit
      <3>4. ~UNCHANGED vars
        BY <1>1 DEF vars
      <3>5. QED
        BY <1>1, <3>1, <3>2, <3>3, <3>4 DEF Next
    <2>3. CheckAnswer(c) \/ Ready(c) \/ NotReady(c) \/ NapEnds(c)
      BY <1>1, <2>2
      DEF Step, StatusAnswer, Acquire, KeepChild, Spawn, SpawnRaises,
          StopNone, Terminate, StillThere, StopEnds, At
    <2>4. PICK state \in {"running", "starting", "crashed"} : Return(c, state, handle)
      BY <1>1, <2>1, <2>3
      DEF IInv, TypeOK, CheckAnswer, Ready, NotReady, NapEnds, Inquire, Go, At
    <2>5. UNCHANGED processes
      BY <2>3 DEF CheckAnswer, Ready, NotReady, NapEnds
    <2>6. QED
      BY <1>1, <2>1, <2>4, <2>5 DEF IInv, TypeOK, Return, processes
  <1>2. IInv /\ [Next]_vars =>
          [\A c \in Caller : Waits(c) /\ pc'[c] = "idle" => Truthful(c)]_vars
    BY <1>1
  <1>3. QED
    BY Invariance, <1>2, PTL DEF Spec, AnswersForItsChild

-----------------------------------------------------------------------------
(* That every call returns is a matter of fairness, and fairness of two    *)
(* facts about steps: each brings its caller nearer to its return, and     *)
(* whoever waits for the lock will be the next to get it.                  *)

(* More steps than a call that has the lock can take to start a child.     *)
StartSteps == 2 * Attempts + 1
RestartSteps(c) == IF op[c] = "restart" THEN StartSteps ELSE 0

(* The steps that a caller has before it, at most.                         *)
Left(c) ==
    IF pc[c] = "idle" THEN 0
    ELSE IF pc[c] \in {"status", "check", "last"} THEN 1
    ELSE IF pc[c] = "ready" THEN 2 * (Attempts - tries[c]) + 2
    ELSE IF pc[c] = "nap" THEN 2 * (Attempts - tries[c]) + 1
    ELSE IF pc[c] = "wait" THEN StopPolls - tries[c] + 1 + RestartSteps(c)
    ELSE IF pc[c] = "queued" THEN StopPolls + 3 + StartSteps
    ELSE IF op[c] = "start" THEN StartSteps
    ELSE StopPolls + 2 + RestartSteps(c)

(* The loops are within their bounds; only an operation that stops waits   *)
(* for a child's end.                                                      *)
Looping ==
    \A c \in Caller :
       /\ pc[c] \in {"ready", "nap"} => tries[c] <= Attempts
       /\ pc[c] = "wait" => tries[c] <= StopPolls /\ op[c] \in {"stop", "restart"}
       /\ pc[c] \in Inside \cup {"queued"} => op[c] # "status"

(* The queue holds whoever waits, each once, and nobody inside.            *)
Lined ==
    /\ \A c \in Caller : pc[c] = "queued" => \E i \in 1..Len(waiting) : waiting[i] = c
    /\ \A i \in 1..Len(waiting) : pc[waiting[i]] = "queued"
    /\ \A i, k \in 1..Len(waiting) : waiting[i] = waiting[k] => i = k
    /\ lock # NoCaller => pc[lock] \in Inside

(* A call ends after a bounded number of its own steps, and no other's     *)
(* step puts that off.                                                     *)
CallsAdvance ==
    [][\A c \in Caller :
         /\ Step(c) => Left(c)' < Left(c)
         /\ pc[c] # "idle" => Left(c)' <= Left(c)]_vars

(* While a call waits, one has the lock and is on its way, or the lock is  *)
(* free and the queue's head may take it.                                  *)
LockIsPassedOn ==
    (\E c \in Caller : pc[c] = "queued") =>
       \E d \in Caller : \/ lock = d /\ pc[d] \in Inside
                         \/ lock = NoCaller /\ waiting # <<>> /\ waiting[1] = d /\ At(d, "queued")

VInv == IInv /\ Looping /\ Lined

LEMMA InitVInv == Init => VInv
  <1>1. Init => Looping /\ Lined
    BY DEF Init, Looping, Lined
  <1> QED
    BY <1>1, InitIInv DEF VInv

LEMMA LeftPositive ==
    ASSUME VInv, NEW c \in Caller
    PROVE  Left(c) \in Nat /\ (pc[c] # "idle" => Left(c) >= 1)
  <1>1. tries[c] \in Nat /\ RestartSteps(c) \in Nat
    BY DEF VInv, IInv, TypeOK, RestartSteps, StartSteps
  <1>2. /\ pc[c] \in {"ready", "nap"} => tries[c] <= Attempts
        /\ pc[c] = "wait" => tries[c] <= StopPolls
    BY DEF VInv, Looping
  <1> QED
    BY <1>1, <1>2 DEF Left, StartSteps

(* A step of a caller's own brings it nearer to its return.                *)
LEMMA StepAdvances ==
    ASSUME VInv, NEW c \in Caller, Step(c)
    PROVE  /\ Left(c)' \in Nat /\ Left(c)' < Left(c)
           /\ pc'[c] \in {"ready", "nap"} => tries'[c] <= Attempts
           /\ pc'[c] = "wait" => tries'[c] <= StopPolls /\ op'[c] \in {"stop", "restart"}
           /\ pc'[c] \in Inside \cup {"queued"} => op'[c] # "status"
  <1> DEFINE Loops == /\ pc'[c] \in {"ready", "nap"} => tries'[c] <= Attempts
                      /\ pc'[c] = "wait" => tries'[c] <= StopPolls /\ op'[c] \in {"stop", "restart"}
                      /\ pc'[c] \in Inside \cup {"queued"} => op'[c] # "status"
  <1>1. /\ pc \in [Caller -> Location] /\ op \in [Caller -> Operation]
        /\ tries \in [Caller -> 0..Attempts \cup 0..StopPolls]
        /\ tries[c] \in Nat
    BY DEF VInv, IInv, TypeOK
  <1>2. /\ pc[c] \in {"ready", "nap"} => tries[c] <= Attempts
        /\ pc[c] = "wait" => tries[c] <= StopPolls /\ op[c] \in {"stop", "restart"}
        /\ pc[c] \in Inside \cup {"queued"} => op[c] # "status"
        /\ pc[c] = "nap" => tries[c] < Attempts
    BY DEF VInv, IInv, Looping, Asking
  <1>3. pc[c] # "idle" => Left(c) >= 1
    BY LeftPositive
  <1>4. ASSUME NEW state, NEW pid, Return(c, state, pid), pc[c] # "idle"
        PROVE  Left(c)' \in Nat /\ Left(c)' < Left(c) /\ Loops
    <2>1. pc'[c] = "idle"
      BY <1>1, <1>4 DEF Return, Go
    <2>2. Left(c)' = 0
      BY <2>1 DEF Left
    <2> QED
      BY <1>3, <1>4, <2>1, <2>2, LeftPositive
  <1>5. ASSUME NEW place \in Location, NEW n \in Nat, Inquire(c, place, n), pc[c] # "idle"
        PROVE  \/ Left(c)' \in Nat /\ Left(c)' < Left(c) /\ Loops
               \/ pc'[c] = place /\ tries'[c] = n /\ op'[c] = op[c]
    BY <1>1, <1>4, <1>5 DEF Inquire, Go
  <1>6. CASE StatusAnswer(c) \/ CheckAnswer(c) \/ SpawnRaises(c) \/ Ready(c)
    BY <1>4, <1>6 DEF StatusAnswer, CheckAnswer, SpawnRaises, Ready, At
  <1>7. CASE Acquire(c)
    <2>1. pc[c] = "queued" /\ pc'[c] = "enter" /\ op'[c] = op[c]
      BY <1>1, <1>7 DEF Acquire, At, Go
    <2>2. op[c] # "status"
      BY <1>2, <2>1
    <2>3. Left(c) = StopPolls + 3 + StartSteps
      BY <2>1 DEF Left
    <2>4. Left(c)' = IF op[c] = "start" THEN StartSteps ELSE StopPolls + 2 + RestartSteps(c)
      BY <2>1 DEF Left, RestartSteps, StartSteps
    <2> QED
      BY <2>1, <2>2, <2>3, <2>4 DEF StartSteps, RestartSteps
  <1>8. CASE KeepChild(c)
    <2>1. pc[c] = "enter" /\ op[c] = "start" /\ Inquire(c, "check", 0)
      BY <1>8 DEF KeepChild, At
    <2>2. CASE pc'[c] = "check" /\ tries'[c] = 0 /\ op'[c] = op[c]
      BY <2>1, <2>2 DEF Left, StartSteps
    <2> QED
      BY <1>5, <2>1, <2>2 DEF Location
  <1>9. CASE Spawn(c)
    <2>1. /\ pc[c] = "enter" /\ op[c] = "start"
          /\ pc'[c] = "ready" /\ tries'[c] = 1 /\ op'[c] = op[c]
      BY <1>1, <1>9 DEF Spawn, At, Go
    <2> QED
      BY <2>1 DEF Left, StartSteps
  <1>10. CASE NotReady(c)
    <2>1. CASE At(c, "ready") /\ tries[c] < Attempts /\ Go(c, "nap")
               /\ UNCHANGED <<lock, op, own, tries, answer>>
      <3>1. pc[c] = "ready" /\ pc'[c] = "nap" /\ tries'[c] = tries[c] /\ op'[c] = op[c]
        BY <1>1, <2>1 DEF At, Go
      <3> QED
        BY <1>1, <1>2, <3>1 DEF Left
    <2>2. CASE At(c, "ready") /\ tries[c] = Attempts /\ Inquire(c, "last", tries[c])
      <3>1. CASE pc'[c] = "last" /\ tries'[c] = tries[c] /\ op'[c] = op[c]
        BY <1>1, <1>2, <2>2, <3>1 DEF Left, At
      <3> QED
        BY <1>1, <1>5, <2>2, <3>1 DEF Location, At
    <2>3. CASE At(c, "last") /\ Return(c, "starting", own[c])
      BY <1>4, <2>3 DEF At
    <2> QED
      BY <1>10, <2>1, <2>2, <2>3 DEF NotReady
  <1>11. CASE NapEnds(c)
    <2>1. pc[c] = "nap" /\ Inquire(c, "ready", tries[c] + 1)
      BY <1>11 DEF NapEnds, At
    <2>2. CASE pc'[c] = "ready" /\ tries'[c] = tries[c] + 1 /\ op'[c] = op[c]
      BY <1>1, <1>2, <2>1, <2>2 DEF Left
    <2> QED
      BY <1>1, <1>5, <2>1, <2>2 DEF Location
  <1>12. CASE StopNone(c) \/ StopEnds(c)
    <2>1. Stopped(c) /\ pc[c] \in {"enter", "wait"} /\ op[c] \in {"stop", "restart"}
      BY <1>2, <1>12 DEF StopNone, StopEnds, At
    <2>2. CASE op[c] = "stop"
      BY <1>4, <2>1, <2>2 DEF Stopped
    <2>3. CASE op[c] = "restart"
      <3>1. pc'[c] = "enter" /\ op'[c] = "start" /\ tries'[c] = 0
        BY <1>1, <2>1, <2>3 DEF Stopped, Go
      <3>2. Left(c)' = StartSteps
        BY <3>1 DEF Left, StartSteps
      <3>3. Left(c) > StartSteps
        BY <1>1, <1>2, <2>1, <2>3 DEF Left, StartSteps, RestartSteps
      <3> QED
        BY <3>1, <3>2, <3>3 DEF StartSteps
    <2> QED
      BY <2>1, <2>2, <2>3
  <1>13. CASE Terminate(c)
    <2>1. /\ pc[c] = "enter" /\ op[c] \in {"stop", "restart"}
          /\ pc'[c] = "wait" /\ tries'[c] = 0 /\ op'[c] = op[c]
      BY <1>1, <1>13 DEF Terminate, At, Go
    <2> QED
      BY <2>1 DEF Left, StartSteps, RestartSteps
  <1>14. CASE StillThere(c)
    <2>1. /\ pc[c] = "wait" /\ pc'[c] = "wait" /\ op'[c] = op[c]
          /\ tries[c] < StopPolls /\ tries'[c] = tries[c] + 1
      BY <1>1, <1>14 DEF StillThere, At
    <2> QED
      BY <1>1, <1>2, <2>1 DEF Left, StartSteps, RestartSteps
  <1> QED
    BY <1>6, <1>7, <1>8, <1>9, <1>10, <1>11, <1>12, <1>13, <1>14 DEF Step

LEMMA NextAdvances ==
    ASSUME VInv, [Next]_vars, NEW c \in Caller
    PROVE  /\ Step(c) => Left(c)' < Left(c)
           /\ pc[c] # "idle" => Left(c)' <= Left(c)
           /\ pc'[c] \in {"ready", "nap"} => tries'[c] <= Attempts
           /\ pc'[c] = "wait" => tries'[c] <= StopPolls /\ op'[c] \in {"stop", "restart"}
           /\ pc'[c] \in Inside \cup {"queued"} => op'[c] # "status"
  <1> DEFINE Loops == /\ pc'[c] \in {"ready", "nap"} => tries'[c] <= Attempts
                      /\ pc'[c] = "wait" => tries'[c] <= StopPolls /\ op'[c] \in {"stop", "restart"}
                      /\ pc'[c] \in Inside \cup {"queued"} => op'[c] # "status"
  <1>1. IInv /\ Left(c) \in Nat
    BY LeftPositive DEF VInv
  <1>2. CASE Step(c)
    BY <1>1, <1>2, StepAdvances
  <1>3. CASE ~Step(c) /\ UNCHANGED <<pc[c], op[c], tries[c]>>
    <2>1. Left(c)' = Left(c)
      BY <1>3 DEF Left, RestartSteps
    <2>2. Loops
      BY <1>3 DEF VInv, Looping
    <2> QED
      BY <1>1, <1>3, <2>1, <2>2
  <1>4. CASE Status(c) \/ \E o \in Operation \ {"status"} : Call(c, o)
    <2>1. /\ pc[c] = "idle" /\ pc'[c] \in {"idle", "status", "queued"}
          /\ pc'[c] = "queued" => op'[c] # "status"
      BY <1>1, <1>4 DEF IInv, TypeOK, Status, Inquire, Return, Call, Go
    <2>2. ~Step(c)
      BY <2>1 DEF Step, StatusAnswer, Acquire, KeepChild, CheckAnswer, Spawn, SpawnRaises, Ready,
             NotReady, NapEnds, StopNone, Terminate, StillThere, StopEnds, At
    <2> QED
      BY <2>1, <2>2
  <1>5. ASSUME NEW d \in Caller \ {c},
               Status(d) \/ Step(d) \/ \E o \in Operation \ {"status"} : Call(d, o)
        PROVE  UNCHANGED <<pc[c], op[c], tries[c]>>
    BY <1>1, <1>5, OthersStay
  <1>6. ASSUME (\E k \in Child : Exit(k)) \/ UNCHANGED vars
        PROVE  UNCHANGED <<pc[c], op[c], tries[c]>>
    BY <1>6 DEF Exit, vars
  <1>7. CASE \E d \in Caller : Status(d) \/ Step(d) \/ \E o \in Operation \ {"status"} : Call(d, o)
    BY <1>2, <1>3, <1>4, <1>5, <1>7
  <1> QED
    BY <1>2, <1>3, <1>6, <1>7 DEF Next

-----------------------------------------------------------------------------
(* The queue and the lock.                                                 *)
LEMMA CallKeepsLined ==
    ASSUME VInv, NEW c \in Caller, NEW o \in Operation, Call(c, o)
    PROVE  Lined'
  <1>1. /\ waiting \in Seq(Caller) /\ lock \in Caller \cup {NoCaller}
        /\ pc[c] = "idle" /\ waiting' = Append(waiting, c) /\ lock' = lock
        /\ pc'[c] = "queued" /\ \A d \in Caller \ {c} : pc'[d] = pc[d]
    BY DEF VInv, IInv, TypeOK, Call, Go
  <1>2. /\ Len(waiting) \in Nat /\ Len(waiting') = Len(waiting) + 1
        /\ waiting'[Len(waiting) + 1] = c
        /\ \A i \in 1..Len(waiting) : waiting'[i] = waiting[i] /\ waiting[i] \in Caller
    BY <1>1
  <1>3. \A i \in 1..Len(waiting) : waiting[i] # c
    BY <1>1 DEF VInv, Lined
  <1>4. \A d \in Caller : pc'[d] = "queued" => \E i \in 1..Len(waiting') : waiting'[i] = d
    BY <1>1, <1>2 DEF VInv, Lined
  <1>5. \A i \in 1..Len(waiting') : pc'[waiting'[i]] = "queued"
    BY <1>1, <1>2, <1>3 DEF VInv, Lined
  <1>6. \A i, k \in 1..Len(waiting') : waiting'[i] = waiting'[k] => i = k
    BY <1>2, <1>3 DEF VInv, Lined
  <1>7. lock' # NoCaller => pc'[lock'] \in Inside
    BY <1>1 DEF VInv, Lined
  <1> QED
    BY <1>4, <1>5, <1>6, <1>7 DEF Lined

LEMMA AcquireKeepsLined ==
    ASSUME VInv, NEW c \in Caller, Acquire(c)
    PROVE  Lined'
  <1>1. /\ waiting \in Seq(Caller) /\ waiting # <<>> /\ waiting[1] = c
        /\ waiting' = Tail(waiting) /\ lock' = c
        /\ pc'[c] = "enter" /\ \A d \in Caller \ {c} : pc'[d] = pc[d]
    BY DEF VInv, IInv, TypeOK, Acquire, Go
  <1>2. /\ Len(waiting) \in Nat \ {0} /\ Len(waiting') = Len(waiting) - 1
        /\ \A i \in 1..Len(waiting') : waiting'[i] = waiting[i + 1]
        /\ \A i \in 1..Len(waiting) : waiting[i] \in Caller
    BY <1>1
  <1>3. \A i \in 1..Len(waiting') : waiting'[i] # c
    BY <1>1, <1>2 DEF VInv, Lined
  <1>4. ASSUME NEW d \in Caller, pc'[d] = "queued"
        PROVE  \E i \in 1..Len(waiting') : waiting'[i] = d
    <2>1. d # c /\ pc[d] = "queued"
      BY <1>1, <1>4
    <2>2. PICK i \in 1..Len(waiting) : waiting[i] = d
      BY <2>1 DEF VInv, Lined
    <2>3. i # 1 /\ i - 1 \in 1..Len(waiting') /\ waiting'[i - 1] = d
      BY <1>1, <1>2, <2>1, <2>2
    <2> QED
      BY <2>3
  <1>5. \A i \in 1..Len(waiting') : pc'[waiting'[i]] = "queued"
    BY <1>1, <1>2, <1>3 DEF VInv, Lined
  <1>6. \A i, k \in 1..Len(waiting') : waiting'[i] = waiting'[k] => i = k
    BY <1>2 DEF VInv, Lined
  <1>7. lock' # NoCaller => pc'[lock'] \in Inside
    BY <1>1
  <1> QED
    BY <1>4, <1>5, <1>6, <1>7 DEF Lined

(* Any other step leaves the queue alone; whoever leaves gives up the lock.*)
LEMMA StepKeepsLined ==
    ASSUME VInv, NEW c \in Caller, Status(c) \/ Step(c), ~Acquire(c)
    PROVE  Lined'
  <1>1. /\ pc \in [Caller -> Location] /\ lock \in Caller \cup {NoCaller}
        /\ waiting \in Seq(Caller) /\ \A i \in 1..Len(waiting) : waiting[i] \in Caller
        /\ pc[c] \in Inside => lock = c
    BY DEF VInv, IInv, TypeOK, Exclusive
  <1>2. \A d \in Caller \ {c} : pc'[d] = pc[d]
    BY OthersStay DEF VInv
  <1>3. ASSUME NEW state, NEW pid, Return(c, state, pid)
        PROVE  pc'[c] = "idle" /\ lock' = IF lock = c THEN NoCaller ELSE lock
    BY <1>1, <1>3 DEF Return, Go
  <1>4. /\ waiting' = waiting /\ pc[c] # "queued"
        /\ \/ pc'[c] = "idle" /\ lock' = IF lock = c THEN NoCaller ELSE lock
           \/ pc'[c] = "status" /\ pc[c] = "idle" /\ lock' = lock
           \/ pc'[c] \in Inside /\ pc[c] \in Inside /\ lock' = lock
    <2>1. ASSUME NEW place, NEW n, Inquire(c, place, n)
          PROVE  \/ pc'[c] = "idle" /\ lock' = IF lock = c THEN NoCaller ELSE lock
                 \/ pc'[c] = place /\ lock' = lock
      BY <1>1, <1>3, <2>1 DEF Inquire, Go
    <2>2. CASE Status(c)
      BY <2>1, <2>2 DEF Status
    <2>3. CASE StatusAnswer(c) \/ CheckAnswer(c) \/ SpawnRaises(c) \/ Ready(c)
      BY <1>3, <2>3 DEF StatusAnswer, CheckAnswer, SpawnRaises, Ready, At
    <2>4. CASE KeepChild(c) \/ NapEnds(c)
      BY <2>1, <2>4 DEF KeepChild, NapEnds, At
    <2>5. CASE NotReady(c)
      BY <1>1, <1>3, <2>1, <2>5 DEF NotReady, At, Go
    <2>6. CASE Spawn(c) \/ Terminate(c) \/ StillThere(c)
      BY <1>1, <2>6 DEF Spawn, Terminate, StillThere, At, Go
    <2>7. CASE StopNone(c) \/ StopEnds(c)
      <3>1. Stopped(c) /\ pc[c] \in {"enter", "wait"} /\ waiting' = waiting
        BY <2>7 DEF StopNone, StopEnds, At
      <3>2. CASE op[c] = "stop"
        BY <1>3, <3>1, <3>2 DEF Stopped
      <3>3. CASE op[c] # "stop"
        BY <1>1, <3>1, <3>3 DEF Stopped, Go
      <3> QED
        BY <3>2, <3>3
    <2> QED
      BY <2>2, <2>3, <2>4, <2>5, <2>6, <2>7 DEF Step
  <1>5. \A d \in Caller : pc'[d] = "queued" <=> pc[d] = "queued"
    BY <1>2, <1>4
  <1>6. lock' # NoCaller => pc'[lock'] \in Inside
    BY <1>1, <1>2, <1>4 DEF VInv, Lined
  <1> QED
    BY <1>1, <1>4, <1>5, <1>6 DEF VInv, Lined

LEMMA NextVInv == VInv /\ [Next]_vars => VInv'
  <1> SUFFICES ASSUME VInv, [Next]_vars PROVE VInv'
    OBVIOUS
  <1>1. IInv'
    BY NextIInv DEF VInv
  <1>2. Looping'
    BY NextAdvances DEF Looping
  <1>3. Lined'
    <2>1. ASSUME NEW c \in Caller, Status(c) \/ Step(c) PROVE Lined'
      BY <2>1, AcquireKeepsLined, StepKeepsLined
    <2>2. ASSUME NEW c \in Caller, NEW o \in Operation, Call(c, o) PROVE Lined'
      BY <2>2, CallKeepsLined
    <2>3. CASE (\E k \in Child : Exit(k)) \/ UNCHANGED vars
      BY <2>3 DEF Exit, vars, VInv, Lined
    <2> QED
      BY <2>1, <2>2, <2>3 DEF Next
  <1> QED
    BY <1>1, <1>2, <1>3 DEF VInv

LEMMA Advancing == Spec => []VInv
  BY InitVInv, NextVInv, PTL DEF Spec

(* Every call that has the lock ends after a bounded number of steps,      *)
(* however often the probe fails and even if the child will not exit.      *)
THEOREM StepsLeadToReturn == Spec => CallsAdvance
  <1>1. ASSUME VInv, [Next]_vars
        PROVE  \A c \in Caller : /\ Step(c) => Left(c)' < Left(c)
                                 /\ pc[c] # "idle" => Left(c)' <= Left(c)
    BY <1>1, NextAdvances
  <1> QED
    BY <1>1, Advancing, PTL DEF Spec, CallsAdvance

(* No call waits for a lock that nobody has and nobody is offered.         *)
THEOREM NobodyIsForgotten == Spec => []LockIsPassedOn
  <1>1. VInv => LockIsPassedOn
    <2> SUFFICES ASSUME VInv, NEW c \in Caller, pc[c] = "queued"
                 PROVE  \E d \in Caller : \/ lock = d /\ pc[d] \in Inside
                                          \/ /\ lock = NoCaller /\ waiting # <<>>
                                             /\ waiting[1] = d /\ At(d, "queued")
      BY DEF LockIsPassedOn
    <2>1. /\ waiting \in Seq(Caller) /\ lock \in Caller \cup {NoCaller}
      BY DEF VInv, IInv, TypeOK
    <2>2. CASE lock # NoCaller
      BY <2>1, <2>2 DEF VInv, Lined
    <2>3. CASE lock = NoCaller
      <3>1. 1 \in 1..Len(waiting) /\ waiting # <<>>
        BY <2>1 DEF VInv, Lined
      <3>2. waiting[1] \in Caller /\ pc[waiting[1]] = "queued"
        BY <2>1, <3>1 DEF VInv, Lined
      <3> QED
        BY <2>3, <3>1, <3>2 DEF At
    <2> QED
      BY <2>2, <2>3
  <1> QED
    BY <1>1, Advancing, PTL

=============================================================================
