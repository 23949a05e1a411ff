--------------------------- MODULE TimeoutManager ---------------------------
(***************************************************************************)
(* AdaptiveTimeoutManager, crates/ava-engine/src/networking/timeout.rs:    *)
(* the registry of outstanding requests and the loop that fires the ones   *)
(* that expire.                                                            *)
(*                                                                         *)
(* Callers change the registry under its lock and send the loop a wake     *)
(* token after they released it.  The loop reads the earliest deadline     *)
(* under the lock, then sleeps outside it.  The clock is always read       *)
(* before the lock is taken, so a reading may be up to MaxLag old.  The    *)
(* average of the latencies is abstracted: an observation moves the        *)
(* timeout anywhere within its clamps.                                     *)
(***************************************************************************)
EXTENDS Naturals, Functions, FiniteSetsExt

CONSTANTS
    RequestIds,      \* RequestId: node, chain, request id and op
    InitialTimeout, MinimumTimeout, MaximumTimeout,   \* AdaptiveTimeoutConfig
    MaxTime,         \* bound on the clock
    MaxLag,          \* bound on the age of a clock reading
    MaxCalls         \* bound on the calls of put, remove and cancel

\* AdaptiveTimeoutConfig::verify
ASSUME TimeoutAssumption ==
    /\ InitialTimeout \in Nat /\ MinimumTimeout \in Nat /\ MaximumTimeout \in Nat
    /\ MinimumTimeout <= InitialTimeout /\ InitialTimeout <= MaximumTimeout
    /\ MaxTime \in Nat /\ MaxLag \in Nat /\ MaxCalls \in Nat

Never == MaxTime + 1   \* the loop has no deadline to sleep to

VARIABLES
    now,             \* the monotonic clock
    pending,         \* request -> deadline of its timer
    currentTimeout,  \* current_timeout
    unsent,          \* callers that released the lock and owe a wake token
    wakes,           \* wake tokens in the channel
    loop,            \* where dispatch_loop is
    next,            \* the deadline it sleeps to
    shutdown,        \* the token is cancelled
    calls            \* calls so far

registryVars == <<pending, currentTimeout>>
loopVars == <<wakes, loop, next>>
timeoutVars == <<now, registryVars, unsent, loopVars, shutdown, calls>>

TimeoutInit ==
    /\ now = 0 /\ pending = [id \in {} |-> 0] /\ currentTimeout = InitialTimeout
    /\ unsent = 0 /\ wakes = 0 /\ loop = "compute" /\ next = Never
    /\ shutdown = FALSE /\ calls = 0

\* A reading of the clock may be stale when it is used; not when the clock
\* stands still, at its bound.
Readings == {t \in 0..now : now - t <= MaxLag /\ (now = MaxTime => t = now)}

Forget(id) == Restrict(pending, DOMAIN pending \ {id})

\* observe_latency: the clamped average.
Observe == currentTimeout' \in MinimumTimeout..MaximumTimeout

\* The earliest deadline.
Earliest == IF pending = <<>> THEN Never ELSE Min(Range(pending))

-----------------------------------------------------------------------------
(* The callers.                                                            *)

Tick ==
    /\ now < MaxTime
    /\ now' = now + 1
    /\ UNCHANGED <<registryVars, unsent, loopVars, shutdown, calls>>

Called == calls < MaxCalls /\ calls' = calls + 1

\* Mutant: the loop is only woken when it has nothing to sleep to.
OwesWakeIfIdle == unsent' = IF pending = <<>> THEN unsent + 1 ELSE unsent

\* The wake token that put, remove and cancel send last.
OwesWake == unsent' = unsent + 1

\* put(id): replaces the timer of id.
Put(id) ==
    /\ Called
    /\ \E t \in Readings :
           pending' = [i \in DOMAIN pending \cup {id} |->
                          IF i = id THEN t + currentTimeout ELSE pending[i]]
    /\ OwesWake
    /\ UNCHANGED <<now, currentTimeout, loopVars, shutdown>>

\* remove(id): a response arrived; its latency is observed.
Remove(id) ==
    /\ Called
    /\ pending' = Forget(id)
    /\ IF id \in DOMAIN pending THEN Observe ELSE UNCHANGED currentTimeout
    /\ OwesWake
    /\ UNCHANGED <<now, loopVars, shutdown>>

\* cancel(id): it returns whether id was pending.
Cancel(id) ==
    /\ Called
    /\ pending' = Forget(id)
    /\ OwesWake
    /\ UNCHANGED <<now, currentTimeout, loopVars, shutdown>>

\* observe_latency of the manager.
ObserveLatency ==
    /\ Called
    /\ Observe
    /\ UNCHANGED <<now, pending, unsent, loopVars, shutdown>>

SendWake ==
    /\ unsent > 0
    /\ unsent' = unsent - 1 /\ wakes' = wakes + 1
    /\ UNCHANGED <<now, registryVars, loop, next, shutdown, calls>>

\* stop, or drop of the manager.
Stop ==
    /\ ~shutdown /\ shutdown' = TRUE
    /\ UNCHANGED <<now, registryVars, unsent, loopVars, calls>>

-----------------------------------------------------------------------------
(* dispatch_loop.                                                          *)

ComputeNext ==
    /\ loop = "compute"
    /\ next' = Earliest /\ loop' = "select"
    /\ UNCHANGED <<now, registryVars, unsent, wakes, shutdown, calls>>

\* The select is biased: the shutdown, then a wake token, then the sleep.
SelectShutdown ==
    /\ loop = "select" /\ shutdown
    /\ loop' = "stopped"
    /\ UNCHANGED <<now, registryVars, unsent, wakes, next, shutdown, calls>>

\* Mutant: the token stays in the channel.
SelectWakeKeepsToken ==
    /\ loop = "select" /\ ~shutdown /\ wakes > 0
    /\ loop' = "compute"
    /\ UNCHANGED <<now, registryVars, unsent, wakes, next, shutdown, calls>>

SelectWake ==
    /\ loop = "select" /\ ~shutdown /\ wakes > 0
    /\ wakes' = wakes - 1 /\ loop' = "compute"
    /\ UNCHANGED <<now, registryVars, unsent, next, shutdown, calls>>

SelectSleep ==
    /\ loop = "select" /\ ~shutdown /\ wakes = 0 /\ next <= now
    /\ loop' = "fire"
    /\ UNCHANGED <<now, registryVars, unsent, wakes, next, shutdown, calls>>

Expired(t) == {id \in DOMAIN pending : pending[id] <= t}

\* fire_expired takes the earliest expired request and runs its handler.
Fire(id) ==
    /\ loop = "fire"
    /\ \E t \in Readings : id \in Expired(t)
    /\ pending[id] = Earliest
    /\ pending' = Forget(id) /\ Observe
    /\ UNCHANGED <<now, unsent, loopVars, shutdown, calls>>

\* No request has expired: back to the loop.
FireDone ==
    /\ loop = "fire"
    /\ \E t \in Readings : Expired(t) = {}
    /\ loop' = "compute"
    /\ UNCHANGED <<now, registryVars, unsent, wakes, next, shutdown, calls>>

DispatchLoop == ComputeNext \/ SelectShutdown \/ SelectWake \/ SelectSleep \/ FireDone

\* Deadlines stay within the bound on the clock.
InTime == now + MaximumTimeout <= MaxTime

TimeoutNext ==
    \/ Tick \/ ObserveLatency \/ SendWake \/ Stop \/ DispatchLoop
    \/ \E id \in RequestIds : (InTime /\ Put(id)) \/ Remove(id) \/ Cancel(id) \/ Fire(id)

TimeoutSpec == TimeoutInit /\ [][TimeoutNext]_timeoutVars

-----------------------------------------------------------------------------
(* The timeout stays between its clamps and deadlines within the clock.    *)
TimeoutTypeOK ==
    /\ now \in 0..MaxTime
    /\ DOMAIN pending \subseteq RequestIds /\ Range(pending) \subseteq 0..MaxTime
    /\ currentTimeout \in MinimumTimeout..MaximumTimeout
    /\ unsent \in 0..MaxCalls /\ wakes \in 0..MaxCalls /\ calls \in 0..MaxCalls
    /\ loop \in {"compute", "select", "fire", "stopped"}
    /\ next \in 0..Never /\ shutdown \in BOOLEAN

(* No wake-up is lost: when the loop sleeps, no token is in the channel    *)
(* and no caller is about to send one, it sleeps to the earliest deadline, *)
(* however the calls fell between its reading of the registry and its      *)
(* sleep.  Deadlines are not registered in order: the timeout adapts.      *)
NeverOversleeps ==
    loop = "select" /\ wakes = 0 /\ unsent = 0 => next = Earliest
=============================================================================
