------------------------------ MODULE Streaming ------------------------------
(***************************************************************************)
(* Streaming asynchronous execution (ava-saevm): consensus accepts blocks  *)
(* and only queues them; one executor task drains the queue in order; a    *)
(* later accepted block settles the ancestors that finished executing at   *)
(* least Tau before its own time, on the gas clock.  The three frontiers   *)
(* are accepted, lastExecuted and settled; critical is the map of blocks   *)
(* consensus may still ask for.                                            *)
(*                                                                         *)
(* Three tasks interleave: the engine (Accept, then parking on the bounded *)
(* queue, then, while bootstrapping, wait_until_executed), the executor,   *)
(* and a restart that rebuilds everything from the accepted chain.  A      *)
(* block is its height; chain holds the accepted ones.  Block 0 is the     *)
(* synchronous one: executed and settled from the start.                   *)
(***************************************************************************)
EXTENDS Naturals, Sequences, FiniteSets

CONSTANTS
    Times,      \* the build times a block may carry
    Gas,        \* the ticks of the gas clock a block may consume
    Tau,        \* settlement delay
    Capacity,   \* bound of the executor's queue
    MaxHeight,  \* bound on the accepted chain
    MaxCrashes  \* bound on the restarts

ASSUME StreamingAssumption ==
    /\ Times \subseteq Nat /\ Gas \subseteq Nat /\ Tau \in Nat
    /\ Capacity \in Nat \ {0} /\ MaxHeight \in Nat /\ MaxCrashes \in Nat

VARIABLES
    chain,         \* durable: the accepted blocks, [time, gas, done], done
                   \* being what a replay from block 0 gives
    results,       \* height -> gas time at which its execution finished
    lastExecuted,  \* the executor's pointer
    clock,         \* the executor's cached gas clock
    queue,         \* heights sent to the executor
    executor,      \* [at, block]: what the drain task is doing
    accepted,      \* LastAccepted
    settled,       \* LastSettled
    critical,      \* keys of the consensus-critical map
    phase,         \* the engine phase, or "down"
    engine,        \* where the engine task is inside accept
    woken,         \* the live Notified future has fired
    dropped,       \* history: the blocks the executor failed on
    crashes

vars == <<chain, results, lastExecuted, clock, queue, executor, accepted,
          settled, critical, phase, engine, woken, dropped, crashes>>

volatile == <<results, lastExecuted, clock, queue, executor, accepted, settled,
              critical, engine, woken, dropped>>

Larger(a, b) == IF a >= b THEN a ELSE b

Highest(S) == CHOOSE k \in S : \A j \in S : j <= k

(* The gas clock at the end of a block: never before the block's own time  *)
(* (before_block fast-forwards), then ticked by the gas it used.           *)
AfterBlock(start, time, gas) == Larger(start, time) + gas

Executed(h) == h = 0 \/ h \in DOMAIN results

SettleAt(time) == IF time >= Tau THEN time - Tau ELSE 0

-----------------------------------------------------------------------------
\* Mutant: a block that has not executed is skipped instead of stopped at.
StopsAtExecuted(k, at) ==
    \/ k = 0
    \/ Executed(k) /\ chain[k].time <= at /\ results[k] <= at

(* The walk of last_to_settle_at from top: it stops at the synchronous     *)
(* block, at a block old enough that has not executed, and at one that     *)
(* finished in time.  The parent link of a settled block is severed.       *)
StopsAt(k, at) ==
    \/ k = 0
    \/ /\ chain[k].time <= at
       /\ Executed(k) => results[k] <= at

Stops(at, top) == {k \in settled..top : StopsAt(k, at)}

(* settle: the new LastSettled; unchanged while execution lags.            *)
Settle(at, top) ==
    LET stops == Stops(at, top)
        k     == Highest(stops)
    IN  IF stops # {} /\ Executed(k) THEN Larger(k, settled) ELSE settled

-----------------------------------------------------------------------------
Idle == [at |-> "idle", block |-> 0]

Init ==
    /\ chain = <<>>
    /\ results = <<>> /\ lastExecuted = 0 /\ clock = 0
    /\ queue = <<>> /\ executor = Idle
    /\ accepted = 0 /\ settled = 0 /\ critical = {0}
    /\ phase = "initializing" /\ engine = "idle" /\ woken = FALSE
    /\ dropped = {} /\ crashes = 0

(* set_state: the engine moves on between two accepts.                     *)
SetState ==
    /\ engine = "idle"
    /\ \/ phase = "initializing" /\ phase' = "bootstrapping"
       \/ phase = "bootstrapping" /\ phase' = "normal"
    /\ UNCHANGED <<chain, volatile, crashes>>

(* accept up to its first await: persist, settle, advance LastAccepted.    *)
Accept(time, gas) ==
    LET before == IF accepted = 0 THEN 0 ELSE chain[accepted].done
        block  == [time |-> time, gas |-> gas,
                   done |-> AfterBlock(before, time, gas)]
        floor  == Settle(SettleAt(time), accepted)
    IN  /\ phase \in {"bootstrapping", "normal"} /\ engine = "idle"
        /\ accepted < MaxHeight
        /\ accepted > 0 => time >= chain[accepted].time
        /\ chain' = Append(chain, block)
        /\ settled' = floor
        /\ accepted' = accepted + 1
        /\ critical' = {h \in critical : h >= floor} \cup {accepted + 1}
        /\ engine' = "enqueue"
        /\ UNCHANGED <<results, lastExecuted, clock, queue, executor, phase,
                       woken, dropped, crashes>>

\* Mutant: a full channel is not waited for, the block is left out.
EnqueueOrDrop ==
    /\ phase # "down" /\ engine = "enqueue"
    /\ IF executor.at = "stopped"
       THEN engine' = "failed" /\ UNCHANGED queue
       ELSE /\ queue' = IF Len(queue) < Capacity THEN Append(queue, accepted) ELSE queue
            /\ engine' = IF phase = "bootstrapping" THEN "check" ELSE "idle"
    /\ UNCHANGED <<chain, results, lastExecuted, clock, executor, accepted,
                   settled, critical, phase, woken, dropped, crashes>>

(* Queue::enqueue parks while the channel is full; a closed channel makes  *)
(* accept fail, with LastAccepted already advanced.                        *)
Enqueue ==
    /\ phase # "down" /\ engine = "enqueue"
    /\ IF executor.at = "stopped"
       THEN engine' = "failed" /\ UNCHANGED queue
       ELSE /\ Len(queue) < Capacity
            /\ queue' = Append(queue, accepted)
            /\ engine' = IF phase = "bootstrapping" THEN "check" ELSE "idle"
    /\ UNCHANGED <<chain, results, lastExecuted, clock, executor, accepted,
                   settled, critical, phase, woken, dropped, crashes>>

-----------------------------------------------------------------------------
(* wait_until_executed: check, arm a Notified, check again, wait with a    *)
(* timeout; after the timeout a fresh Notified is awaited.                 *)
engineOnly == <<chain, results, lastExecuted, clock, queue, executor, accepted,
                settled, critical, phase, dropped, crashes>>

CheckAndArm ==
    /\ phase # "down" /\ engine = "check"
    /\ engine' = IF Executed(accepted) THEN "idle" ELSE "recheck"
    /\ woken' = FALSE
    /\ UNCHANGED engineOnly

Recheck ==
    /\ phase # "down" /\ engine = "recheck"
    /\ engine' = IF Executed(accepted) THEN "idle" ELSE "parked"
    /\ UNCHANGED <<engineOnly, woken>>

Wake ==
    /\ phase # "down" /\ engine \in {"parked", "rearmed"} /\ woken
    /\ engine' = "idle"
    /\ UNCHANGED <<engineOnly, woken>>

WaitTimesOut ==
    /\ phase # "down" /\ engine = "parked" /\ ~woken
    /\ engine' = "late"
    /\ UNCHANGED <<engineOnly, woken>>

Rearm ==
    /\ phase # "down" /\ engine = "late"
    /\ engine' = "rearmed" /\ woken' = FALSE
    /\ UNCHANGED engineOnly

-----------------------------------------------------------------------------
executorOnly == <<chain, accepted, settled, critical, phase, engine, crashes>>

(* The drain task takes the oldest block off the channel.                  *)
Dequeue ==
    /\ phase # "down" /\ executor.at = "idle" /\ queue # <<>>
    /\ executor' = [at |-> "running", block |-> Head(queue)]
    /\ queue' = Tail(queue)
    /\ UNCHANGED <<executorOnly, results, lastExecuted, clock, woken, dropped>>

\* Mutant: a block is executed whether or not its parent was.
ParentUnchecked(h) == TRUE

(* execute_step up to the M of mark_executed.  The parent must be the last *)
(* executed block, otherwise the loop stops and its receiver is dropped.   *)
ParentIsExecuted(h) == h = lastExecuted + 1

Stop == executor' = [at |-> "stopped", block |-> 0] /\ queue' = <<>>

ExecuteStep ==
    LET h   == executor.block
        end == AfterBlock(clock, chain[h].time, chain[h].gas)
    IN  /\ phase # "down" /\ executor.at = "running"
        /\ IF ParentIsExecuted(h)
           THEN /\ results' = [k \in DOMAIN results \cup {h} |->
                                  IF k = h THEN end ELSE results[k]]
                /\ executor' = [executor EXCEPT !.at = "marked"]
                /\ UNCHANGED queue
           ELSE Stop /\ UNCHANGED results
        /\ UNCHANGED <<executorOnly, lastExecuted, clock, woken, dropped>>

(* The X of mark_executed, then the clock: the pointer, then the waiters.  *)
Publish ==
    /\ phase # "down" /\ executor.at = "marked"
    /\ lastExecuted' = executor.block
    /\ clock' = results[executor.block]
    /\ woken' = (woken \/ (/\ engine \in {"recheck", "parked", "rearmed"}
                           /\ executor.block = accepted))
    /\ executor' = Idle
    /\ UNCHANGED <<executorOnly, results, queue, dropped>>

(* A recoverable error drops the block and the loop goes on; a fatal one,  *)
(* or shutdown, ends the loop.                                             *)
FailBlock ==
    /\ phase # "down" /\ executor.at = "running"
    /\ executor' = Idle
    /\ dropped' = dropped \cup {executor.block}
    /\ UNCHANGED <<executorOnly, results, lastExecuted, clock, queue, woken>>

StopLoop ==
    /\ phase # "down" /\ executor.at \in {"idle", "running"}
    /\ Stop
    /\ UNCHANGED <<executorOnly, results, lastExecuted, clock, woken, dropped>>

-----------------------------------------------------------------------------
(* A crash loses everything but the chain; the variables keep their last   *)
(* values, which nothing reads until Recover overwrites them.              *)
Crash ==
    /\ phase # "down" /\ crashes < MaxCrashes
    /\ phase' = "down" /\ crashes' = crashes + 1
    /\ UNCHANGED <<chain, volatile>>

\* Mutant: the floor is what the parent of the head settles.
RecoveredFloorOfParent(head) ==
    LET at    == SettleAt(chain[head - 1].time)
        stops == {k \in 0..(head - 2) :
                    k = 0 \/ (chain[k].time <= at /\ chain[k].done <= at)}
    IN  IF head <= 1 THEN 0 ELSE Highest(stops)

(* recover: every accepted block is executed again, LastExecuted and       *)
(* LastAccepted become the head, and the head alone decides what settled.  *)
RecoveredFloor(head) ==
    LET at    == SettleAt(chain[head].time)
        stops == {k \in 0..(head - 1) :
                    k = 0 \/ (chain[k].time <= at /\ chain[k].done <= at)}
    IN  IF head = 0 THEN 0 ELSE Highest(stops)

Recover ==
    LET head  == Len(chain)
        floor == RecoveredFloor(head)
    IN  /\ phase = "down"
        /\ results' = [h \in 1..head |-> chain[h].done]
        /\ lastExecuted' = head
        /\ clock' = IF head = 0 THEN 0 ELSE chain[head].done
        /\ queue' = <<>> /\ executor' = Idle
        /\ accepted' = head /\ settled' = floor /\ critical' = floor..head
        /\ phase' = "initializing" /\ engine' = "idle" /\ woken' = FALSE
        /\ dropped' = {}
        /\ UNCHANGED <<chain, crashes>>

-----------------------------------------------------------------------------
EngineNext == Enqueue \/ CheckAndArm \/ Recheck \/ Wake \/ Rearm

ExecutorNext == Dequeue \/ ExecuteStep \/ Publish

Next ==
    \/ SetState
    \/ \E time \in Times, gas \in Gas : Accept(time, gas)
    \/ EngineNext
    \/ WaitTimesOut
    \/ ExecutorNext
    \/ FailBlock \/ StopLoop
    \/ Crash \/ Recover

Spec == Init /\ [][Next]_vars

(* Both tasks keep running and a crashed node is started again.            *)
Fairness ==
    /\ WF_vars(EngineNext) /\ WF_vars(ExecutorNext) /\ WF_vars(Recover)

FairSpec == Spec /\ Fairness

-----------------------------------------------------------------------------
Up == phase # "down"

TypeOK ==
    /\ chain \in Seq([time : Nat, gas : Nat, done : Nat])
    /\ accepted \in 0..MaxHeight /\ settled \in 0..MaxHeight
    /\ lastExecuted \in 0..MaxHeight /\ clock \in Nat
    /\ DOMAIN results \subseteq 1..MaxHeight
    /\ queue \in Seq(1..MaxHeight)
    /\ executor \in [at : {"idle", "running", "marked", "stopped"},
                     block : 0..MaxHeight]
    /\ critical \subseteq 0..MaxHeight
    /\ phase \in {"initializing", "bootstrapping", "normal", "down"}
    /\ engine \in {"idle", "enqueue", "check", "recheck", "parked", "late",
                   "rearmed", "failed"}
    /\ woken \in BOOLEAN /\ dropped \subseteq 1..MaxHeight
    /\ crashes \in 0..MaxCrashes

(* What block h settles when nothing lags: the newest ancestor whose pure  *)
(* replay ends no later than Tau before h.                                 *)
SettledBy(h) ==
    IF h = 0 THEN 0
    ELSE Highest({k \in 0..(h - 1) :
                    k = 0 \/ chain[k].done <= SettleAt(chain[h].time)})

(* However acceptance and execution interleave, and across a restart,      *)
(* LastSettled is a value the accepted chain alone determines: the one     *)
(* some accepted block settles.  Two nodes at the same block that have     *)
(* both caught up therefore agree on it (settle, last_to_settle_at).       *)
SettlementIsDeterministic ==
    Up => \E h \in 0..accepted : settled = SettledBy(h)

(* The consensus-critical map holds exactly the window from LastSettled to *)
(* LastAccepted: nothing consensus may ask for is evicted, nothing below   *)
(* the floor is kept (advance_accepted, advance_settled, recover).         *)
WindowIsExact == Up => critical = settled..accepted

(* A block never settles before it has executed, and every result is what  *)
(* a replay of the chain gives: a failed block stops the executor instead  *)
(* of letting a successor run on its grandparent's state (execute_step).   *)
ResultsAreReplayable ==
    Up => /\ settled = 0 \/ settled \in DOMAIN results
          /\ \A h \in DOMAIN results : h <= accepted /\ results[h] = chain[h].done

(* LastSettled never moves back, also when a restart rebuilds it from the  *)
(* head alone (recover, mark_settled_up_to).                               *)
SettledNeverRegresses == [][settled' >= settled]_vars

(* An accepted block is eventually executed unless the executor failed on  *)
(* it or was stopped: parking on the full queue, the bootstrap wait and    *)
(* restarts lose none (Queue::enqueue, the drain loop, recover).           *)
EveryAcceptedExecutes ==
    \A h \in 1..MaxHeight :
        (Up /\ accepted = h) ~>
            Up /\ (h \in DOMAIN results \/ executor.at = "stopped" \/ h \in dropped)

(* While bootstrapping, accept returns once its block has executed:        *)
(* "Waits until mark_executed fires, warning if the wait exceeds           *)
(* MAX_QUEUE_WALL_TIME" (wait_until_executed).  It does not hold: after    *)
(* the warning a fresh Notified is awaited without looking at the flag     *)
(* again, so a mark_executed between the two is lost.                      *)
WaitEnds ==
    (Up /\ engine \in {"parked", "late", "rearmed"} /\ lastExecuted = accepted)
        ~> (engine = "idle" \/ ~Up)
=============================================================================
