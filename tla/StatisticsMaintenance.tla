------------------------ MODULE StatisticsMaintenance ------------------------
(***************************************************************************)
(* The quota cache (quota/cache.py) under the routes that read or force it *)
(* and the Supervisor's background task (control/phase4.py), which purges  *)
(* old usage records and refreshes the quota until the lifespan ends       *)
(* (control/app.py).  Of the purge only matters that it may raise.         *)
(*                                                                         *)
(* A caller holds the provider's lock from the second look at the store to *)
(* the write of the snapshots; asyncio.Lock serves its waiters in order.   *)
(* Between two awaits nothing else runs.  Time passes in ticks; 0 is never.*)
(*                                                                         *)
(* The cache promises what it does for any QuotaProbe, and is modelled     *)
(* with one that may take long and raise; the AntigravityQuotaProbe that   *)
(* ships answers at once, and its steps are among these.                   *)
(***************************************************************************)
EXTENDS Naturals, Sequences

CONSTANTS
    Call,            \* routes that ask for the quota
    Ttl,
    MinInterval,     \* min_refresh_interval
    Interval,        \* interval_seconds of maintain_background
    MaxTime          \* bound of the clock

ASSUME DurationAssumption ==
    Ttl \in Nat /\ MinInterval \in Nat /\ Interval \in Nat \ {0}
ASSUME CallAssumption == "background" \notin Call
ASSUME BoundAssumption == MaxTime \in Nat \ {0}

VARIABLES
    clock,
    updatedAt,       \* of the provider's row in quota_snapshots; 0 without one
    lastAttempt,     \* _last_attempt
    queue,           \* _locks: the holder, then its waiters
    caller,          \* get_or_refresh of each call and of the task
    task,            \* maintain_background
    wakeAt,          \* when its wait times out
    stop, closed,    \* the lifespan: statistics_stop is set, phase2 is closed
    begun            \* history: when each probe began; no guard reads it

vars == <<clock, updatedAt, lastAttempt, queue, caller, task, wakeAt, stop, closed, begun>>
cache == <<updatedAt, lastAttempt, queue, caller, begun>>

Background == "background"
Caller == Call \cup {Background}
Idle == [pc |-> "idle", force |-> FALSE, since |-> 0]

Init ==
    /\ clock = 1
    /\ updatedAt \in {0, 1}
    /\ lastAttempt = 0
    /\ queue = <<>>
    /\ caller = [c \in Caller |-> Idle]
    /\ task = "due" /\ wakeAt = 0
    /\ stop = FALSE /\ closed = FALSE
    /\ begun = <<>>

Fresh == updatedAt # 0 /\ clock - updatedAt <= Ttl

Throttled(c) == lastAttempt # 0 /\ clock - lastAttempt < MinInterval

-----------------------------------------------------------------------------
(* QuotaCache.get_or_refresh                                               *)

(* The first look, without the lock; it ends the call or queues it.        *)
Ask(c, force) ==
    IF ~force /\ Fresh THEN UNCHANGED <<caller, queue>>
    ELSE /\ caller' = [caller EXCEPT ![c] = [pc |-> "waiting", force |-> force, since |-> 0]]
         /\ queue' = Append(queue, c)

Begin(c, force) ==
    /\ c \in Call /\ caller[c].pc = "idle"
    /\ Ask(c, force)
    /\ UNCHANGED <<clock, updatedAt, lastAttempt, task, wakeAt, stop, closed, begun>>

(* What the task does when its own call is over, whatever came of it.      *)
Sleep == task' = "sleeping" /\ wakeAt' = clock + Interval

(* Mutant: an exception ends the task.                                     *)
MutOver(c, raised) ==
    /\ caller' = [caller EXCEPT ![c] = Idle]
    /\ IF c # Background THEN UNCHANGED <<task, wakeAt>>
       ELSE IF raised THEN task' = "ended" /\ UNCHANGED wakeAt
       ELSE Sleep

Over(c, raised) ==
    /\ caller' = [caller EXCEPT ![c] = Idle]
    /\ IF c # Background THEN UNCHANGED <<task, wakeAt>> ELSE Sleep

(* Mutant: every call makes a lock of its own.                             *)
MutServed(c) == \E i \in DOMAIN queue : queue[i] = c

Served(c) == queue # <<>> /\ Head(queue) = c

(* Mutant: a forced refresh is not remembered as an attempt.               *)
MutEnter(c) ==
    /\ Served(c) /\ caller[c].pc = "waiting"
    /\ IF (~caller[c].force /\ Fresh) \/ Throttled(c)
       THEN Over(c, FALSE) /\ queue' = Tail(queue) /\ UNCHANGED <<lastAttempt, begun>>
       ELSE /\ caller' = [caller EXCEPT ![c].pc = "probing", ![c].since = clock]
            /\ lastAttempt' = IF caller[c].force THEN lastAttempt ELSE clock
            /\ begun' = Append(begun, clock)
            /\ UNCHANGED <<queue, task, wakeAt>>
    /\ UNCHANGED <<clock, updatedAt, stop, closed>>

(* The lock is acquired: a second look, the throttle, the probe.           *)
Enter(c) ==
    /\ Served(c) /\ caller[c].pc = "waiting"
    /\ IF (~caller[c].force /\ Fresh) \/ Throttled(c)
       THEN Over(c, FALSE) /\ queue' = Tail(queue) /\ UNCHANGED <<lastAttempt, begun>>
       ELSE /\ caller' = [caller EXCEPT ![c].pc = "probing", ![c].since = clock]
            /\ lastAttempt' = clock
            /\ begun' = Append(begun, clock)
            /\ UNCHANGED <<queue, task, wakeAt>>
    /\ UNCHANGED <<clock, updatedAt, stop, closed>>

Leave(c, raised) ==
    /\ caller[c].pc = "probing"
    /\ Over(c, raised)
    /\ queue' = Tail(queue)
    /\ UNCHANGED <<clock, lastAttempt, stop, closed, begun>>

ProbeAnswers(c) ==
    /\ updatedAt' = clock
    /\ Leave(c, FALSE)

(* The probe or the write raises: an unknown snapshot of the time the      *)
(* probe began.                                                            *)
ProbeRaises(c) ==
    /\ updatedAt' = caller[c].since
    /\ Leave(c, FALSE)

(* The unknown snapshot cannot be written either.                          *)
WriteRaises(c) ==
    /\ UNCHANGED updatedAt
    /\ Leave(c, TRUE)

-----------------------------------------------------------------------------
(* maintain_background and the lifespan.                                   *)

(* purge_usage, then the quota, up to its await.                           *)
Maintain ==
    /\ task = "due" /\ ~stop
    /\ Ask(Background, FALSE)
    /\ IF Fresh THEN Sleep ELSE task' = "refreshing" /\ UNCHANGED wakeAt
    /\ UNCHANGED <<clock, updatedAt, lastAttempt, stop, closed, begun>>

PurgeRaises ==
    /\ task = "due" /\ ~stop
    /\ Sleep
    /\ UNCHANGED <<clock, cache, stop, closed>>

(* wait_for returns, or times out and goes round.                          *)
Wake ==
    /\ task = "sleeping"
    /\ stop \/ clock >= wakeAt
    /\ task' = "due"
    /\ UNCHANGED <<clock, cache, wakeAt, stop, closed>>

End ==
    /\ task = "due" /\ stop
    /\ task' = "ended"
    /\ UNCHANGED <<clock, cache, wakeAt, stop, closed>>

Stop ==
    /\ ~stop
    /\ stop' = TRUE
    /\ UNCHANGED <<clock, cache, task, wakeAt, closed>>

(* Awaiting a task that failed raises, and phase2.aclose is not reached.   *)
Close ==
    /\ stop /\ task = "ended" /\ ~closed
    /\ closed' = TRUE
    /\ UNCHANGED <<clock, cache, task, wakeAt, stop>>

Tick ==
    /\ clock < MaxTime
    /\ clock' = clock + 1
    /\ UNCHANGED <<cache, task, wakeAt, stop, closed>>

Progress(c) ==
    \/ Enter(c)
    \/ ProbeAnswers(c) \/ ProbeRaises(c) \/ WriteRaises(c)

TaskStep == Maintain \/ PurgeRaises \/ Wake \/ End \/ Close

Next ==
    \/ \E c \in Call, force \in BOOLEAN : Begin(c, force)
    \/ \E c \in Caller : Progress(c)
    \/ TaskStep \/ Stop \/ Tick

Spec == Init /\ [][Next]_vars

(* Probes and writes have timeouts, and the event loop runs what is ready. *)
FairSpec ==
    /\ Spec
    /\ \A c \in Caller : WF_vars(Progress(c))
    /\ WF_vars(TaskStep)

-----------------------------------------------------------------------------
TypeOK ==
    /\ clock \in 1..MaxTime
    /\ updatedAt \in 0..MaxTime
    /\ lastAttempt \in 0..MaxTime
    /\ queue \in Seq(Caller)
    /\ caller \in [Caller -> [pc : {"idle", "waiting", "probing"}, force : BOOLEAN,
                              since : 0..MaxTime]]
    /\ \A c \in Caller : caller[c].pc = "probing" => queue # <<>> /\ Head(queue) = c
    /\ task \in {"due", "refreshing", "sleeping", "ended"}
    /\ wakeAt \in 0..(MaxTime + Interval)
    /\ stop \in BOOLEAN /\ closed \in BOOLEAN
    /\ begun \in Seq(1..MaxTime)

(* However many calls, forced ones among them, and the task overlap, and   *)
(* whatever the probes answer, any two probes of a provider have begun at  *)
(* least the minimum interval apart (QuotaCache).  The times compared are  *)
(* those at which probes began, whatever _last_attempt says of them.       *)
ProbesAreSpaced ==
    \A i, j \in DOMAIN begun : i < j => begun[j] - begun[i] >= MinInterval

(* "A statistics maintenance failure must not stop Supervisor": the task   *)
(* ends only when the lifespan does, and then it does end, whatever it is  *)
(* waiting for, so that the Sidecar is stopped (maintain_background).      *)
MaintainedUntilStopped ==
    /\ [](task = "ended" => stop)
    /\ stop ~> closed
=============================================================================
