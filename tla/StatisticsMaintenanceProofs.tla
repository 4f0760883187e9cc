--------------------- MODULE StatisticsMaintenanceProofs ---------------------
(***************************************************************************)
(* Proofs, for any callers, durations and length of a run, that the quota  *)
(* cache's lock lets one probe run at a time, that probes are spaced, and  *)
(* that every step brings those who wait, and a stopped task, nearer.      *)
(*                                                                         *)
(* That a call which is probing stands at the head of its lock's queue is  *)
(* part of TypeOK, and with it TypeOK is inductive: Tail(queue) takes away *)
(* the caller that leaves, and never one that is still probing.            *)
(***************************************************************************)
EXTENDS StatisticsMaintenance, SequenceTheorems, TLAPS

Callers ==
    [Caller -> [pc : {"idle", "waiting", "probing"}, force : BOOLEAN, since : 0..MaxTime]]

Heads == \A c \in Caller : caller[c].pc = "probing" => queue # <<>> /\ Head(queue) = c

Clocks ==
    /\ clock \in 1..MaxTime /\ updatedAt \in 0..MaxTime /\ lastAttempt \in 0..MaxTime
    /\ wakeAt \in 0..(MaxTime + Interval)
    /\ task \in {"due", "refreshing", "sleeping", "ended"}
    /\ stop \in BOOLEAN /\ closed \in BOOLEAN
    /\ begun \in Seq(1..MaxTime)

(* The task waits for its own call, and for nothing else.                  *)
Tasked == task = "refreshing" <=> caller[Background].pc # "idle"

Locked == queue \in Seq(Caller) /\ caller \in Callers /\ Heads

IInv == Clocks /\ Locked /\ Tasked

LEMMA TypeParts == Clocks /\ Locked => TypeOK
  BY DEF TypeOK, Clocks, Locked, Callers, Heads

-----------------------------------------------------------------------------
(* A call that has to wait is queued behind whoever is probing.            *)
LEMMA AskKeeps ==
    ASSUME Locked, NEW c \in Caller, caller[c].pc # "probing", NEW force \in BOOLEAN,
           Ask(c, force), MaxTime \in Nat
    PROVE  Locked'
  <1>1. CASE UNCHANGED <<caller, queue>>
    BY <1>1 DEF Locked, Callers, Heads
  <1>2. CASE /\ caller' = [caller EXCEPT ![c] =
                             [pc |-> "waiting", force |-> force, since |-> 0]]
             /\ queue' = Append(queue, c)
    <2>1. queue' \in Seq(Caller) /\ caller' \in Callers
      BY <1>2 DEF Locked, Callers
    <2>2. ASSUME NEW d \in Caller, caller'[d].pc = "probing"
          PROVE  queue' # <<>> /\ Head(queue') = d
      <3>1. d # c /\ caller[d].pc = "probing"
        BY <1>2, <2>2 DEF Locked, Callers
      <3>2. queue # <<>> /\ Head(queue) = d
        BY <3>1 DEF Locked, Heads
      <3> QED
        BY <1>2, <3>2 DEF Locked
    <2> QED
      BY <2>1, <2>2 DEF Locked, Heads
  <1> QED
    BY <1>1, <1>2 DEF Ask

(* The head of the queue is the only caller that can be probing, so no     *)
(* other call's place is taken when it leaves.                             *)
LEMMA LeavingKeeps ==
    ASSUME Locked, NEW c \in Caller, queue # <<>>, Head(queue) = c, MaxTime \in Nat,
           caller' = [caller EXCEPT ![c] = Idle], queue' = Tail(queue)
    PROVE  Locked'
  <1>1. queue' \in Seq(Caller) /\ caller' \in Callers
    <2>1. Idle \in [pc : {"idle", "waiting", "probing"}, force : BOOLEAN, since : 0..MaxTime]
      BY DEF Idle
    <2>2. queue' \in Seq(Caller)
      BY DEF Locked
    <2> QED
      BY <2>1, <2>2 DEF Locked, Callers
  <1>2. ASSUME NEW d \in Caller, caller'[d].pc = "probing" PROVE FALSE
    <2>1. d # c /\ caller[d].pc = "probing"
      BY <1>2 DEF Locked, Callers, Idle
    <2> QED
      BY <2>1 DEF Locked, Heads
  <1> QED
    BY <1>1, <1>2 DEF Locked, Heads

(* The caller at the head starts its probe.                                *)
LEMMA ProbingKeeps ==
    ASSUME Locked, Clocks, NEW c \in Caller, Served(c), MaxTime \in Nat, UNCHANGED queue,
           caller' = [caller EXCEPT ![c].pc = "probing", ![c].since = clock]
    PROVE  Locked'
  <1>1. caller' \in Callers
    <2>1. caller[c] \in [pc : {"idle", "waiting", "probing"}, force : BOOLEAN,
                        since : 0..MaxTime]
      BY DEF Locked, Callers
    <2>2. clock \in 0..MaxTime
      BY DEF Clocks
    <2> QED
      BY <2>1, <2>2 DEF Locked, Callers
  <1>2. \A d \in Caller : d # c => caller'[d] = caller[d]
    BY DEF Locked, Callers
  <1>3. Heads'
    BY <1>2 DEF Locked, Heads, Served
  <1> QED
    BY <1>1, <1>3 DEF Locked

-----------------------------------------------------------------------------
LEMMA InitIInv == Init => IInv
  <1> SUFFICES ASSUME Init PROVE IInv
    OBVIOUS
  <1>1. Clocks
    <2>1. 1 \in 1..MaxTime /\ 0 \in 0..MaxTime /\ 1 \in 0..MaxTime
          /\ 0 \in 0..(MaxTime + Interval)
      BY BoundAssumption, DurationAssumption
    <2>2. begun \in Seq(1..MaxTime)
      BY DEF Init
    <2> QED
      BY <2>1, <2>2 DEF Init, Clocks
  <1>2. Locked
    BY BoundAssumption DEF Init, Locked, Callers, Heads, Idle
  <1>3. Tasked
    BY DEF Init, Tasked, Idle, Caller
  <1> QED
    BY <1>1, <1>2, <1>3 DEF IInv

LEMMA BeginStep ==
    ASSUME IInv, NEW c \in Call, NEW force \in BOOLEAN, Begin(c, force) PROVE IInv'
  <1>1. /\ c \in Caller /\ c # Background /\ caller[c].pc # "probing" /\ Ask(c, force)
        /\ Locked
    BY CallAssumption DEF Begin, Caller, Background, IInv
  <1>2. Locked'
    BY <1>1, AskKeeps, BoundAssumption
  <1>3. Clocks'
    BY DEF IInv, Begin, Clocks
  <1>4. Tasked'
    BY <1>1 DEF IInv, Begin, Ask, Tasked, Locked, Callers, Caller
  <1> QED
    BY <1>2, <1>3, <1>4 DEF IInv

(* A call that is over leaves the lock to the next one.                    *)
LEMMA OverStep ==
    ASSUME IInv, NEW c \in Caller, NEW raised \in BOOLEAN, Over(c, raised),
           caller[c].pc # "idle", queue # <<>>, Head(queue) = c, queue' = Tail(queue),
           updatedAt' \in 0..MaxTime, UNCHANGED <<clock, lastAttempt, stop, closed, begun>>
    PROVE  IInv'
  <1>1. Locked'
    BY LeavingKeeps, BoundAssumption DEF IInv, Over
  <1>2. Clocks'
    BY BoundAssumption, DurationAssumption DEF IInv, Over, Sleep, Clocks
  <1>3. Tasked'
    <2>1. CASE c = Background
      BY <2>1 DEF IInv, Over, Sleep, Tasked, Idle, Locked, Callers
    <2>2. CASE c # Background
      <3>1. caller'[Background] = caller[Background] /\ UNCHANGED task
        BY <2>2 DEF IInv, Over, Locked, Callers, Caller
      <3> QED
        BY <3>1 DEF IInv, Tasked
    <2> QED
      BY <2>1, <2>2
  <1> QED
    BY <1>1, <1>2, <1>3 DEF IInv

LEMMA EnterStep == ASSUME IInv, NEW c \in Caller, Enter(c) PROVE IInv'
  <1>1. CASE Over(c, FALSE) /\ queue' = Tail(queue) /\ UNCHANGED <<lastAttempt, begun>>
    BY <1>1, OverStep DEF Enter, Served, IInv, Clocks
  <1>2. CASE /\ caller' = [caller EXCEPT ![c].pc = "probing", ![c].since = clock]
             /\ lastAttempt' = clock /\ begun' = Append(begun, clock)
             /\ UNCHANGED <<queue, task, wakeAt>>
    <2>1. Locked'
      BY <1>2, ProbingKeeps, BoundAssumption DEF Enter, IInv
    <2>2. Clocks'
      BY <1>2 DEF Enter, IInv, Clocks
    <2>3. Tasked'
      BY <1>2 DEF Enter, IInv, Tasked, Locked, Callers, Caller
    <2> QED
      BY <2>1, <2>2, <2>3 DEF IInv
  <1> QED
    BY <1>1, <1>2 DEF Enter

LEMMA LeaveStep ==
    ASSUME IInv, NEW c \in Caller, ProbeAnswers(c) \/ ProbeRaises(c) \/ WriteRaises(c)
    PROVE  IInv'
  <1>1. updatedAt' \in 0..MaxTime
    <2>1. clock \in 0..MaxTime /\ updatedAt \in 0..MaxTime
      BY DEF IInv, Clocks
    <2>2. caller[c].since \in 0..MaxTime
      BY DEF IInv, Locked, Callers
    <2> QED
      BY <2>1, <2>2 DEF ProbeAnswers, ProbeRaises, WriteRaises
  <1>2. PICK raised \in BOOLEAN : Leave(c, raised)
    BY DEF ProbeAnswers, ProbeRaises, WriteRaises
  <1>3. queue # <<>> /\ Head(queue) = c
    BY <1>2 DEF Leave, IInv, Locked, Heads
  <1> QED
    BY <1>1, <1>2, <1>3, OverStep DEF Leave

LEMMA MaintainStep == ASSUME IInv, Maintain PROVE IInv'
  <1>1. Background \in Caller /\ caller[Background].pc = "idle"
    BY DEF Maintain, IInv, Tasked, Caller
  <1>2. Locked'
    BY <1>1, AskKeeps, BoundAssumption DEF Maintain, IInv
  <1>3. Clocks'
    BY BoundAssumption, DurationAssumption DEF Maintain, Sleep, IInv, Clocks
  <1>4. Tasked'
    BY <1>1 DEF Maintain, Sleep, Ask, IInv, Tasked, Locked, Callers
  <1> QED
    BY <1>2, <1>3, <1>4 DEF IInv

(* The steps that leave the cache alone.                                   *)
LEMMA OutsideStep ==
    ASSUME IInv, UNCHANGED <<lastAttempt, updatedAt, queue, caller>>, Clocks',
           task' = "refreshing" <=> task = "refreshing"
    PROVE  IInv'
  BY DEF IInv, Locked, Heads, Tasked

LEMMA NextIInv == IInv /\ [Next]_vars => IInv'
  <1> SUFFICES ASSUME IInv, [Next]_vars PROVE IInv'
    OBVIOUS
  <1>1. ASSUME NEW c \in Call, NEW force \in BOOLEAN, Begin(c, force) PROVE IInv'
    BY <1>1, BeginStep
  <1>2. ASSUME NEW c \in Caller, Progress(c) PROVE IInv'
    BY <1>2, EnterStep, LeaveStep DEF Progress
  <1>3. CASE Maintain
    BY <1>3, MaintainStep
  <1>4. CASE PurgeRaises
    BY <1>4, OutsideStep, BoundAssumption, DurationAssumption
       DEF PurgeRaises, Sleep, cache, IInv, Clocks
  <1>5. CASE Wake \/ End \/ Close \/ Stop
    BY <1>5, OutsideStep DEF Wake, End, Close, Stop, cache, IInv, Clocks
  <1>6. CASE Tick
    BY <1>6, OutsideStep, BoundAssumption DEF Tick, cache, IInv, Clocks
  <1>7. CASE UNCHANGED vars
    BY <1>7, OutsideStep DEF vars, IInv, Clocks
  <1> QED
    BY <1>1, <1>2, <1>3, <1>4, <1>5, <1>6, <1>7 DEF Next, TaskStep

LEMMA Invariance == Spec => []IInv
  BY InitIInv, NextIInv, PTL DEF Spec

-----------------------------------------------------------------------------
(* Every variable of the quota cache and of the task keeps its type, and   *)
(* only the holder of the lock is probing.                                 *)
THEOREM TypeCorrect == Spec => []TypeOK
  <1>1. IInv => TypeOK
    BY TypeParts DEF IInv
  <1> QED
    BY <1>1, Invariance, PTL

(* _last_attempt is the time of the last probe that began, and no other    *)
(* probe has begun after it.                                               *)
Remembered ==
    /\ \A i \in DOMAIN begun : begun[i] <= lastAttempt
    /\ begun # <<>> => lastAttempt # 0

(* What a probe that begins adds to the history.                           *)
LEMMA ProbingSpaced ==
    ASSUME IInv, Remembered, ProbesAreSpaced, NEW c \in Caller, ~Throttled(c),
           begun' = Append(begun, clock), lastAttempt' = clock
    PROVE  Remembered' /\ ProbesAreSpaced'
  <1>1. /\ clock \in Nat \ {0} /\ lastAttempt \in Nat /\ MinInterval \in Nat
        /\ begun \in Seq(Nat)
    BY BoundAssumption, DurationAssumption DEF IInv, Clocks
  <1>2. /\ DOMAIN begun = 1..Len(begun) /\ Len(begun) \in Nat
        /\ DOMAIN begun' = 1..(Len(begun) + 1)
        /\ \A i \in DOMAIN begun : begun'[i] = begun[i] /\ begun[i] \in Nat
        /\ begun'[Len(begun) + 1] = clock
    BY <1>1
  <1>3. ASSUME NEW i \in DOMAIN begun
        PROVE  clock - begun[i] >= MinInterval /\ begun[i] <= clock
    <2>1. lastAttempt # 0 /\ begun[i] <= lastAttempt /\ begun[i] \in Nat
      BY <1>2 DEF Remembered
    <2>2. clock - lastAttempt >= MinInterval
      BY <1>1, <2>1 DEF Throttled
    <2> QED
      BY <1>1, <2>1, <2>2
  <1>4. Remembered'
    BY <1>1, <1>2, <1>3 DEF Remembered
  <1>5. ASSUME NEW i \in DOMAIN begun', NEW j \in DOMAIN begun', i < j
        PROVE  begun'[j] - begun'[i] >= MinInterval
    <2>1. i \in DOMAIN begun
      BY <1>2, <1>5
    <2>2. CASE j \in DOMAIN begun
      BY <1>2, <1>5, <2>1, <2>2 DEF ProbesAreSpaced
    <2>3. CASE j = Len(begun) + 1
      BY <1>2, <1>3, <2>1, <2>3
    <2> QED
      BY <1>2, <2>2, <2>3
  <1> QED
    BY <1>4, <1>5 DEF ProbesAreSpaced

(* Every probe is remembered when it begins, and whoever finds the memory  *)
(* too young does not probe.                                               *)
LEMMA SpacedStep ==
    ASSUME IInv, Remembered, ProbesAreSpaced, [Next]_vars
    PROVE  Remembered' /\ ProbesAreSpaced'
  <1>1. CASE UNCHANGED <<lastAttempt, begun>>
    BY <1>1 DEF Remembered, ProbesAreSpaced
  <1>2. ASSUME NEW c \in Caller, Enter(c)
        PROVE  \/ UNCHANGED <<lastAttempt, begun>>
               \/ /\ ~Throttled(c)
                  /\ begun' = Append(begun, clock) /\ lastAttempt' = clock
    BY <1>2 DEF Enter
  <1>3. CASE \E c \in Caller : Enter(c)
    BY <1>1, <1>2, <1>3, ProbingSpaced
  <1>4. CASE ~ \E c \in Caller : Enter(c)
    <2>1. UNCHANGED <<lastAttempt, begun>>
      BY <1>4
         DEF Next, Begin, Progress, ProbeAnswers, ProbeRaises, WriteRaises, Leave, TaskStep,
             Maintain, PurgeRaises, Wake, End, Close, Stop, Tick, cache, vars
    <2> QED
      BY <1>1, <2>1
  <1> QED
    BY <1>3, <1>4

(* Whoever asks and whether or not it is forced, any two probes begin at   *)
(* least the minimum interval apart.                                       *)
THEOREM ProbesSpaced == Spec => []ProbesAreSpaced
  <1>1. Init => Remembered /\ ProbesAreSpaced
    BY DEF Init, Remembered, ProbesAreSpaced
  <1>2. IInv /\ Remembered /\ ProbesAreSpaced /\ [Next]_vars => Remembered' /\ ProbesAreSpaced'
    BY SpacedStep
  <1> QED
    BY <1>1, <1>2, Invariance, PTL DEF Spec

-----------------------------------------------------------------------------
(* That the task ends once it is stopped is a matter of fairness, and      *)
(* fairness of these facts about steps: the lock always has somebody to    *)
(* serve, each step of the one it serves brings all who wait nearer, and   *)
(* each step of a stopped task brings it nearer to its end.                *)

Place(s, c) == CHOOSE i \in 1..Len(s) : s[i] = c

(* The steps of those it serves before c's call is over, at most.          *)
Ahead(c) ==
    IF caller[c].pc = "idle" THEN 0
    ELSE IF caller[Head(queue)].pc = "probing" THEN 2 * Place(queue, c) - 1
    ELSE 2 * Place(queue, c)

(* The steps of a stopped task before the lifespan is over, at most.       *)
Closing ==
    IF closed THEN 0
    ELSE IF task = "ended" THEN 1
    ELSE IF task = "due" THEN 2
    ELSE IF task = "sleeping" THEN 3
    ELSE 4

(* The queue holds every call under way, each once.                        *)
Lined ==
    /\ \A c \in Caller : caller[c].pc # "idle" => \E i \in 1..Len(queue) : queue[i] = c
    /\ \A i \in 1..Len(queue) : caller[queue[i]].pc # "idle"
    /\ \A i, k \in 1..Len(queue) : queue[i] = queue[k] => i = k

(* "A statistics maintenance failure must not stop Supervisor".            *)
Ends == (task = "ended" => stop) /\ (closed => task = "ended")

(* A call under way waits for one that the lock serves.                    *)
CallsAreServed ==
    \A c \in Caller : caller[c].pc # "idle" =>
       \E d \in Caller : Served(d) /\ caller[d].pc \in {"waiting", "probing"}

(* A call is over after a bounded number of steps of those the lock        *)
(* serves, however many calls begin behind it, forced or not.              *)
CallsAdvance ==
    [][\A c \in Caller : caller[c].pc # "idle" =>
         /\ Ahead(c)' <= Ahead(c)
         /\ (\E d \in Caller : Progress(d)) => Ahead(c)' < Ahead(c)]_vars

(* Once it is stopped, nothing starts the task over.                       *)
TaskAdvances ==
    [][stop => Closing' <= Closing /\ (TaskStep => Closing' < Closing)]_vars

VInv == IInv /\ Lined /\ Ends

LEMMA PlaceOf ==
    ASSUME NEW s, NEW i \in 1..Len(s), \A k \in 1..Len(s) : s[k] = s[i] => k = i
    PROVE  Place(s, s[i]) = i
  <1>1. Place(s, s[i]) \in 1..Len(s) /\ s[Place(s, s[i])] = s[i]
    BY DEF Place
  <1> QED
    BY <1>1

(* What a step can do to the lock and to those who wait for it.            *)
Same(c) == \A d \in Caller \ {c} : caller'[d] = caller[d]
Joins(c) ==
    /\ caller[c].pc = "idle" /\ caller'[c].pc = "waiting" /\ Same(c)
    /\ queue' = Append(queue, c)
Starts(c) ==
    /\ Served(c) /\ caller[c].pc = "waiting" /\ caller'[c].pc = "probing" /\ Same(c)
    /\ queue' = queue
Leaves(c) ==
    /\ Served(c) /\ caller[c].pc # "idle" /\ caller'[c].pc = "idle" /\ Same(c)
    /\ queue' = Tail(queue)

LEMMA ProgressMoves ==
    ASSUME IInv, NEW c \in Caller, Progress(c)
    PROVE  Starts(c) \/ Leaves(c)
  <1>1. caller \in Callers
    BY DEF IInv, Locked
  <1>2. ASSUME NEW raised, Over(c, raised) PROVE caller'[c].pc = "idle" /\ Same(c)
    BY <1>1, <1>2 DEF Over, Idle, Same, Callers
  <1>3. CASE Enter(c)
    <2>1. CASE caller' = [caller EXCEPT ![c].pc = "probing", ![c].since = clock] /\ queue' = queue
      BY <1>1, <1>3, <2>1 DEF Enter, Starts, Same, Callers
    <2>2. CASE Over(c, FALSE) /\ queue' = Tail(queue)
      BY <1>2, <1>3, <2>2 DEF Enter, Leaves
    <2> QED
      BY <1>3, <2>1, <2>2 DEF Enter
  <1>4. ASSUME NEW raised, Leave(c, raised) PROVE Leaves(c)
    BY <1>2, <1>4 DEF Leave, Leaves, Served, IInv, Locked, Heads
  <1> QED
    BY <1>3, <1>4 DEF Progress, ProbeAnswers, ProbeRaises, WriteRaises

LEMMA NextMoves ==
    ASSUME IInv, [Next]_vars, ~ \E c \in Caller : Progress(c)
    PROVE  UNCHANGED <<caller, queue>> \/ \E c \in Caller : Joins(c)
  <1>1. caller \in Callers
    BY DEF IInv, Locked
  <1>2. ASSUME NEW c \in Caller, NEW force, Ask(c, force), caller[c].pc = "idle"
        PROVE  UNCHANGED <<caller, queue>> \/ Joins(c)
    BY <1>1, <1>2 DEF Ask, Joins, Same, Callers
  <1>3. ASSUME NEW c \in Call, NEW force, Begin(c, force)
        PROVE  UNCHANGED <<caller, queue>> \/ Joins(c)
    BY <1>2, <1>3 DEF Begin, Caller
  <1>4. CASE Maintain
    <2>1. Background \in Caller /\ caller[Background].pc = "idle"
      BY <1>4 DEF Maintain, IInv, Tasked, Caller
    <2> QED
      BY <1>2, <1>4, <2>1 DEF Maintain
  <1>5. CASE PurgeRaises \/ Wake \/ End \/ Close \/ Stop \/ Tick \/ UNCHANGED vars
    BY <1>5 DEF PurgeRaises, Wake, End, Close, Stop, Tick, vars, cache
  <1> QED
    BY <1>3, <1>4, <1>5 DEF Next, TaskStep, Caller

-----------------------------------------------------------------------------
(* Each of these keeps the queue as it should be, and whoever waits        *)
(* advances when the lock is served.                                       *)
Advances(c) ==
    caller[c].pc # "idle" =>
       /\ Ahead(c)' <= Ahead(c)
       /\ (\E d \in Caller : Progress(d)) => Ahead(c)' < Ahead(c)

LEMMA Standing ==
    ASSUME IInv, Lined, NEW c \in Caller, caller[c].pc # "idle"
    PROVE  \E i \in 1..Len(queue) : queue[i] = c /\ Place(queue, c) = i
  <1>1. PICK i \in 1..Len(queue) : queue[i] = c
    BY DEF Lined
  <1>2. \A k \in 1..Len(queue) : queue[k] = queue[i] => k = i
    BY DEF Lined
  <1> QED
    BY <1>1, <1>2, PlaceOf

LEMMA JoiningAdvances ==
    ASSUME IInv, Lined, NEW c \in Caller, Joins(c)
    PROVE  Lined' /\ \A d \in Caller : caller[d].pc # "idle" => Ahead(d)' = Ahead(d)
  <1>1. /\ queue \in Seq(Caller) /\ queue' = Append(queue, c)
        /\ caller[c].pc = "idle" /\ caller'[c].pc # "idle"
        /\ \A d \in Caller \ {c} : caller'[d] = caller[d]
    BY DEF IInv, Locked, Joins, Same
  <1>2. /\ Len(queue) \in Nat /\ Len(queue') = Len(queue) + 1
        /\ queue'[Len(queue) + 1] = c
        /\ \A i \in 1..Len(queue) : queue'[i] = queue[i] /\ queue[i] \in Caller
    BY <1>1
  <1>3. \A i \in 1..Len(queue) : queue[i] # c
    BY <1>1 DEF Lined
  <1>4. \A d \in Caller : caller'[d].pc # "idle" => \E i \in 1..Len(queue') : queue'[i] = d
    BY <1>1, <1>2 DEF Lined
  <1>5. \A i \in 1..Len(queue') : caller'[queue'[i]].pc # "idle"
    BY <1>1, <1>2, <1>3 DEF Lined
  <1>6. \A i, k \in 1..Len(queue') : queue'[i] = queue'[k] => i = k
    BY <1>2, <1>3 DEF Lined
  <1>7. ASSUME NEW d \in Caller, caller[d].pc # "idle" PROVE Ahead(d)' = Ahead(d)
    <2>1. PICK i \in 1..Len(queue) : queue[i] = d /\ Place(queue, d) = i
      BY <1>7, Standing
    <2>2. i \in 1..Len(queue') /\ queue'[i] = d
      BY <1>2, <2>1
    <2>3. Place(queue', d) = i
      BY <1>6, <2>2, PlaceOf
    <2>4. Head(queue') = Head(queue) /\ Head(queue) \in Caller \ {c}
      BY <1>1, <1>2, <1>3, <2>1
    <2>5. caller'[d] = caller[d] /\ caller'[Head(queue')] = caller[Head(queue)]
      BY <1>1, <1>7, <2>4
    <2> QED
      BY <2>1, <2>3, <2>5 DEF Ahead
  <1> QED
    BY <1>4, <1>5, <1>6, <1>7 DEF Lined

LEMMA StartingAdvances ==
    ASSUME IInv, Lined, NEW c \in Caller, Starts(c)
    PROVE  /\ Lined'
           /\ \A d \in Caller : caller[d].pc # "idle" =>
                Ahead(d)' \in Int /\ Ahead(d)' < Ahead(d)
  <1>1. /\ queue \in Seq(Caller) /\ queue' = queue /\ Head(queue) = c
        /\ caller[c].pc = "waiting" /\ caller'[c].pc = "probing"
        /\ \A d \in Caller \ {c} : caller'[d] = caller[d]
    BY DEF IInv, Locked, Starts, Same, Served
  <1>2. \A d \in Caller : caller'[d].pc = "idle" <=> caller[d].pc = "idle"
    BY <1>1
  <1>3. Lined'
    BY <1>1, <1>2 DEF Lined
  <1>4. ASSUME NEW d \in Caller, caller[d].pc # "idle"
        PROVE  Ahead(d)' \in Int /\ Ahead(d)' < Ahead(d)
    <2>1. PICK i \in 1..Len(queue) : queue[i] = d /\ Place(queue, d) = i
      BY <1>4, Standing
    <2>2. Ahead(d) = 2 * i /\ Ahead(d)' = 2 * i - 1
      BY <1>1, <1>2, <1>4, <2>1 DEF Ahead
    <2> QED
      BY <2>2
  <1> QED
    BY <1>3, <1>4

LEMMA LeavingAdvances ==
    ASSUME IInv, Lined, NEW c \in Caller, Leaves(c)
    PROVE  /\ Lined'
           /\ \A d \in Caller : caller[d].pc # "idle" =>
                Ahead(d)' \in Int /\ Ahead(d)' < Ahead(d)
  <1>1. /\ queue \in Seq(Caller) /\ queue # <<>> /\ Head(queue) = c /\ queue' = Tail(queue)
        /\ caller'[c].pc = "idle" /\ \A d \in Caller \ {c} : caller'[d] = caller[d]
    BY DEF IInv, Locked, Leaves, Same, Served
  <1>2. /\ Len(queue) \in Nat \ {0} /\ Len(queue') = Len(queue) - 1 /\ queue[1] = c
        /\ \A i \in 1..Len(queue') : queue'[i] = queue[i + 1]
        /\ \A i \in 1..Len(queue) : queue[i] \in Caller
    BY <1>1
  <1>3. \A i \in 1..Len(queue') : queue'[i] \in Caller \ {c}
    BY <1>2 DEF Lined
  <1>4. ASSUME NEW d \in Caller, caller'[d].pc # "idle"
        PROVE  \E i \in 1..Len(queue) : /\ queue[i] = d /\ Place(queue, d) = i
                                        /\ i - 1 \in 1..Len(queue') /\ queue'[i - 1] = d
    <2>1. d # c /\ caller[d].pc # "idle"
      BY <1>1, <1>4
    <2>2. PICK i \in 1..Len(queue) : queue[i] = d /\ Place(queue, d) = i
      BY <2>1, Standing
    <2>3. i # 1 /\ i - 1 \in 1..Len(queue') /\ queue'[i - 1] = queue[i]
      BY <1>2, <2>1, <2>2
    <2> QED
      BY <2>2, <2>3
  <1>5. \A i \in 1..Len(queue') : caller'[queue'[i]].pc # "idle"
    BY <1>1, <1>2, <1>3 DEF Lined
  <1>6. \A i, k \in 1..Len(queue') : queue'[i] = queue'[k] => i = k
    BY <1>2 DEF Lined
  <1>7. ASSUME NEW d \in Caller, caller[d].pc # "idle"
        PROVE  Ahead(d)' \in Int /\ Ahead(d)' < Ahead(d)
    <2>1. CASE caller'[d].pc = "idle"
      <3>1. PICK i \in 1..Len(queue) : queue[i] = d /\ Place(queue, d) = i
        BY <1>7, Standing
      <3> QED
        BY <1>7, <2>1, <3>1 DEF Ahead
    <2>2. CASE caller'[d].pc # "idle"
      <3>1. PICK i \in 1..Len(queue) : /\ queue[i] = d /\ Place(queue, d) = i
                                       /\ i - 1 \in 1..Len(queue') /\ queue'[i - 1] = d
        BY <1>4, <2>2
      <3>2. Place(queue', d) = i - 1
        BY <1>6, <3>1, PlaceOf
      <3>3. Ahead(d)' <= 2 * (i - 1) /\ Ahead(d) >= 2 * i - 1
        BY <1>7, <2>2, <3>1, <3>2 DEF Ahead
      <3>4. Ahead(d)' \in Int /\ Ahead(d) \in Int
        BY <1>7, <2>2, <3>1, <3>2 DEF Ahead
      <3> QED
        BY <3>3, <3>4
    <2> QED
      BY <2>1, <2>2
  <1>8. \A d \in Caller : caller'[d].pc # "idle" => \E i \in 1..Len(queue') : queue'[i] = d
    BY <1>4
  <1> QED
    BY <1>5, <1>6, <1>7, <1>8 DEF Lined

LEMMA NextAdvances ==
    ASSUME IInv, Lined, [Next]_vars
    PROVE  Lined' /\ \A c \in Caller : Advances(c)
  <1>1. ASSUME NEW d \in Caller, caller[d].pc # "idle" PROVE Ahead(d) \in Int
    BY <1>1, Standing DEF Ahead
  <1>2. CASE \E d \in Caller : Progress(d)
    <2>1. PICK d \in Caller : Progress(d)
      BY <1>2
    <2>2. /\ Lined'
          /\ \A c \in Caller : caller[c].pc # "idle" =>
               Ahead(c)' \in Int /\ Ahead(c)' < Ahead(c)
      BY <2>1, ProgressMoves, StartingAdvances, LeavingAdvances
    <2>3. \A c \in Caller : caller[c].pc # "idle" => Ahead(c)' <= Ahead(c)
      BY <1>1, <2>2
    <2> QED
      BY <2>2, <2>3 DEF Advances
  <1>3. CASE ~ \E d \in Caller : Progress(d)
    <2>1. CASE UNCHANGED <<caller, queue>>
      <3>1. \A c \in Caller : Ahead(c)' = Ahead(c)
        BY <2>1 DEF Ahead
      <3>2. Lined'
        BY <2>1 DEF Lined
      <3> QED
        BY <1>1, <1>3, <3>1, <3>2 DEF Advances
    <2>2. ASSUME NEW d \in Caller, Joins(d)
          PROVE  Lined' /\ \A c \in Caller : Advances(c)
      BY <1>1, <1>3, <2>2, JoiningAdvances DEF Advances
    <2> QED
      BY <1>3, <2>1, <2>2, NextMoves
  <1> QED
    BY <1>2, <1>3

(* The task ends only when it is stopped, and then goes one way.           *)
LEMMA NextEnds ==
    ASSUME IInv, Ends, [Next]_vars
    PROVE  /\ Ends'
           /\ stop => Closing' <= Closing /\ (TaskStep => Closing' < Closing)
  <1>1. task \in {"due", "refreshing", "sleeping", "ended"}
    BY DEF IInv, Clocks
  <1>2. ASSUME NEW c \in Caller, NEW raised, Over(c, raised), caller[c].pc # "idle",
               UNCHANGED <<stop, closed>>
        PROVE  \/ UNCHANGED <<task, stop, closed>>
               \/ task = "refreshing" /\ task' = "sleeping" /\ UNCHANGED <<stop, closed>>
    BY <1>2 DEF Over, Sleep, IInv, Tasked
  <1>3. ASSUME NEW c \in Caller, Progress(c)
        PROVE  \/ UNCHANGED <<task, stop, closed>>
               \/ task = "refreshing" /\ task' = "sleeping" /\ UNCHANGED <<stop, closed>>
    BY <1>2, <1>3 DEF Progress, Enter, ProbeAnswers, ProbeRaises, WriteRaises, Leave
  <1>4. TaskStep => \/ ~stop /\ task = "due" /\ task' \in {"sleeping", "refreshing"}
                       /\ UNCHANGED <<stop, closed>>
                    \/ task = "sleeping" /\ task' = "due" /\ UNCHANGED <<stop, closed>>
                    \/ stop /\ task = "due" /\ task' = "ended" /\ UNCHANGED <<stop, closed>>
                    \/ stop /\ task = "ended" /\ ~closed /\ closed' /\ UNCHANGED <<task, stop>>
    BY DEF TaskStep, Maintain, PurgeRaises, Sleep, Wake, End, Close
  <1>5. \/ TaskStep
        \/ UNCHANGED <<task, stop, closed>>
        \/ ~stop /\ stop' /\ UNCHANGED <<task, closed>>
        \/ task = "refreshing" /\ task' = "sleeping" /\ UNCHANGED <<stop, closed>>
    BY <1>3 DEF Next, Begin, Stop, Tick, vars
  <1> QED
    BY <1>1, <1>4, <1>5 DEF Ends, Closing

LEMMA Advancing == Spec => []VInv
  <1>1. Init => VInv
    BY InitIInv DEF Init, VInv, Lined, Ends, Idle
  <1>2. VInv /\ [Next]_vars => VInv'
    BY NextIInv, NextAdvances, NextEnds DEF VInv
  <1> QED
    BY <1>1, <1>2, PTL DEF Spec

(* Nobody waits for a lock that serves nobody.                             *)
THEOREM EveryCallIsServed == Spec => []CallsAreServed
  <1>1. VInv => CallsAreServed
    <2> SUFFICES ASSUME VInv, NEW c \in Caller, caller[c].pc # "idle"
                 PROVE  \E d \in Caller : Served(d) /\ caller[d].pc \in {"waiting", "probing"}
      BY DEF CallsAreServed
    <2>1. queue \in Seq(Caller) /\ caller \in Callers /\ 1 \in 1..Len(queue)
      BY DEF VInv, IInv, Locked, Lined
    <2>2. queue[1] \in Caller /\ Served(queue[1]) /\ caller[queue[1]].pc # "idle"
      BY <2>1 DEF VInv, Lined, Served
    <2>3. caller[queue[1]].pc \in {"idle", "waiting", "probing"}
      BY <2>1, <2>2 DEF Callers
    <2> QED
      BY <2>2, <2>3
  <1> QED
    BY <1>1, Advancing, PTL

(* Every step of the lock's brings those who wait for it nearer.           *)
THEOREM WaitersAdvance == Spec => CallsAdvance
  <1>1. ASSUME VInv, [Next]_vars
        PROVE  \A c \in Caller : caller[c].pc # "idle" =>
                 /\ Ahead(c)' <= Ahead(c)
                 /\ (\E d \in Caller : Progress(d)) => Ahead(c)' < Ahead(c)
    BY <1>1, NextAdvances DEF VInv, Advances
  <1> QED
    BY <1>1, Advancing, PTL DEF Spec, CallsAdvance

(* A stopped task never goes back.                                         *)
THEOREM StoppedTaskAdvances == Spec => TaskAdvances /\ [](task = "ended" => stop)
  <1>1. ASSUME VInv, [Next]_vars
        PROVE  stop => Closing' <= Closing /\ (TaskStep => Closing' < Closing)
    BY <1>1, NextEnds DEF VInv
  <1>2. VInv => (task = "ended" => stop)
    BY DEF VInv, Ends
  <1> QED
    BY <1>1, <1>2, Advancing, PTL DEF Spec, TaskAdvances
=============================================================================
