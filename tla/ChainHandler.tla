---------------------------- MODULE ChainHandler ----------------------------
(***************************************************************************)
(* The task of a chain: ChainHandler (crates/ava-engine/src/networking/    *)
(* handler.rs) with the engine adapters (engine_adapter.rs), as            *)
(* create_snowman_chain (crates/ava-chains/src/create_chain.rs) wires them *)
(* up, and the forwarder of the VM's pending work.                         *)
(*                                                                         *)
(* One task runs both engines: it takes an engine's request to move on, a  *)
(* message, or a notification of the VM, in this order of preference, and  *)
(* handles it to the end.  The bootstrapper is abstracted to what the      *)
(* handler sees of it: a message may advance the VM's last accepted block  *)
(* and may finish it.  Messages are told apart by the engine they are for. *)
(***************************************************************************)
EXTENDS Naturals, Sequences

CONSTANTS
    TransitionCapacity,   \* the bound of the transition channel
    ChannelCapacity,      \* the bound of the queue and of the VM's channel
    LocalHeight,          \* the height of the VM's last accepted block at start
    MaxHeight,            \* bound on the heights the bootstrapper reaches
    MaxPushes             \* bound on the messages from peers

ASSUME HandlerAssumption ==
    /\ TransitionCapacity \in Nat \ {0} /\ ChannelCapacity \in Nat \ {0}
    /\ LocalHeight \in Nat /\ MaxHeight \in Nat /\ LocalHeight <= MaxHeight
    /\ MaxPushes \in Nat

VARIABLES
    task,          \* where the handler's task is
    state,         \* the engine it dispatches to
    transitions,   \* requests for NormalOp in the transition channel
    handlerQueue,  \* messages from the router
    events,        \* PendingTxs in the VM's channel
    halt,          \* the token is cancelled
    finished,      \* Bootstrapper::finished
    ctxState,      \* ConsensusContext::state
    vmHeight,      \* the height of the VM's last accepted block
    coreHeight,    \* the height the consensus core counts as last accepted
    forwarder,     \* where forward_pending_work is
    work,          \* the VM has something to build
    asked,         \* history: the engine was asked to build since it has
    pushes         \* messages so far

bootVars == <<finished, ctxState, vmHeight, coreHeight>>
forwarderVars == <<forwarder, work, asked>>
chainVars == <<task, state, transitions, handlerQueue, events, halt, bootVars,
               forwarderVars, pushes>>

\* The consensus core is built from the VM's last accepted block, before the
\* handler is started.
HandlerInit ==
    /\ task = "created" /\ state = "Bootstrapping"
    /\ transitions = 0 /\ handlerQueue = <<>> /\ events = 0 /\ halt = FALSE
    /\ finished = FALSE /\ ctxState = "Initializing"
    /\ vmHeight = LocalHeight /\ coreHeight = LocalHeight
    /\ forwarder = "wait" /\ work = FALSE /\ asked = FALSE /\ pushes = 0

-----------------------------------------------------------------------------
(* Other tasks.                                                            *)

\* push, which waits for room; without effect once the task has ended.
Push(class) ==
    /\ pushes < MaxPushes /\ pushes' = pushes + 1
    /\ task # "stopped" /\ Len(handlerQueue) < ChannelCapacity
    /\ handlerQueue' = Append(handlerQueue, class)
    /\ UNCHANGED <<task, state, transitions, events, halt, bootVars, forwarderVars>>

Halt ==
    /\ ~halt /\ halt' = TRUE
    /\ UNCHANGED <<task, state, transitions, handlerQueue, events, bootVars, forwarderVars,
                   pushes>>

\* The mempool gets a transaction.
NewWork ==
    /\ ~work /\ work' = TRUE /\ asked' = FALSE
    /\ UNCHANGED <<task, state, transitions, handlerQueue, events, halt, bootVars,
                   forwarder, pushes>>

Forwarder(from, to) ==
    /\ forwarder = from /\ forwarder' = to
    /\ UNCHANGED <<task, state, transitions, handlerQueue, halt, bootVars, work, asked,
                   pushes>>

\* The waiter lets go while there is work, or the token is cancelled.
ForwarderWaits ==
    \/ work /\ Forwarder("wait", "send") /\ UNCHANGED events
    \/ halt /\ Forwarder("wait", "done") /\ UNCHANGED events

\* Mutant: the channel outlives the handler.
ForwarderSendsForever ==
    /\ events < ChannelCapacity /\ events' = events + 1
    /\ Forwarder("send", "floor")

\* The send waits for room, and fails when the handler is gone.
ForwarderSends ==
    \/ task # "stopped" /\ events < ChannelCapacity /\ events' = events + 1
       /\ Forwarder("send", "floor")
    \/ task = "stopped" /\ Forwarder("send", "done") /\ UNCHANGED events

\* Mutant: one signal for all the work there is.
ForwarderRestsOnce ==
    \/ ~work /\ Forwarder("floor", "wait") /\ UNCHANGED events
    \/ halt /\ Forwarder("floor", "done") /\ UNCHANGED events

\* The retry floor.
ForwarderRests ==
    \/ Forwarder("floor", "wait") /\ UNCHANGED events
    \/ halt /\ Forwarder("floor", "done") /\ UNCHANGED events

-----------------------------------------------------------------------------
(* The bootstrapper's adapter.                                             *)

\* maybe_request_normal_op: the send waits for room in a channel that only
\* this task empties.
MaybeRequestNormalOp ==
    IF ~finished' THEN task' = "select" /\ UNCHANGED transitions
    ELSE IF transitions < TransitionCapacity
         THEN task' = "select" /\ transitions' = transitions + 1
         ELSE task' = "blocked" /\ UNCHANGED transitions

\* Bootstrapper::finish
Finish == finished' = TRUE /\ ctxState' = "NormalOp"

\* A message for the bootstrapper: it may replay blocks and finish, or fail
\* midway, which is logged.  A finished one ignores it.
BootstrapperHandles ==
    IF finished THEN UNCHANGED bootVars
    ELSE /\ vmHeight' \in vmHeight..MaxHeight
         /\ Finish \/ UNCHANGED <<finished, ctxState>>
         /\ UNCHANGED coreHeight

-----------------------------------------------------------------------------
(* The handler's loop.                                                     *)

\* run begins with start of the bootstrapper, which fails if the token is
\* cancelled and finishes at once if there are no beacons.
Start ==
    /\ task = "created"
    /\ \/ halt /\ UNCHANGED <<finished, ctxState>>
       \/ ~halt /\ ctxState' = "Bootstrapping" /\ UNCHANGED finished
       \/ ~halt /\ Finish
    /\ MaybeRequestNormalOp
    /\ UNCHANGED <<state, handlerQueue, events, halt, vmHeight, coreHeight, forwarderVars,
                   pushes>>

SelectHalt ==
    /\ task = "select" /\ halt
    /\ task' = "stopped"
    /\ UNCHANGED <<state, transitions, handlerQueue, events, halt, bootVars, forwarderVars,
                   pushes>>

\* set_state; start of the Snowman adapter does nothing.
SelectTransition ==
    /\ task = "select" /\ ~halt /\ transitions > 0
    /\ transitions' = transitions - 1 /\ state' = "NormalOp"
    /\ UNCHANGED <<task, handlerQueue, events, halt, bootVars, forwarderVars, pushes>>

\* Mutant: the arms of the select are tried in any order.
QueueUnbiased == task = "select" /\ ~halt /\ handlerQueue # <<>>

QueueReady == task = "select" /\ ~halt /\ transitions = 0 /\ handlerQueue # <<>>

\* Mutant: only the first engine's start asks for the transition.
DispatchBootForgets ==
    /\ BootstrapperHandles
    /\ UNCHANGED <<task, transitions>>

\* The bootstrapper's adapter handles the message, then looks whether it is done.
DispatchBoot ==
    /\ BootstrapperHandles
    /\ MaybeRequestNormalOp

\* dispatch: the active engine drops what is not for it.  Requests answered
\* by the getter, app messages and messages for consensus leave no trace here.
SelectQueue ==
    /\ QueueReady
    /\ handlerQueue' = Tail(handlerQueue)
    /\ IF state = "Bootstrapping" /\ Head(handlerQueue) = "bootstrap" THEN DispatchBoot
       ELSE UNCHANGED <<bootVars, task, transitions>>
    /\ UNCHANGED <<state, events, halt, forwarderVars, pushes>>

\* notify: the Snowman adapter tries to build, which may yield nothing; the
\* bootstrapper's drops the event.
SelectVm ==
    /\ task = "select" /\ ~halt /\ transitions = 0 /\ handlerQueue = <<>> /\ events > 0
    /\ events' = events - 1
    /\ IF state = "NormalOp" THEN asked' = TRUE /\ work' \in {work, FALSE}
       ELSE UNCHANGED <<asked, work>>
    /\ UNCHANGED <<task, state, transitions, handlerQueue, halt, bootVars, forwarder,
                   pushes>>

HandlerStep == Start \/ SelectHalt \/ SelectTransition \/ SelectQueue \/ SelectVm

HandlerNext ==
    \/ HandlerStep \/ Halt \/ NewWork
    \/ ForwarderWaits \/ ForwarderSends \/ ForwarderRests
    \/ \E class \in {"bootstrap", "other"} : Push(class)

HandlerSpec == HandlerInit /\ [][HandlerNext]_chainVars

\* The handler's and the forwarder's tasks are polled while they can go on.
HandlerFairSpec ==
    /\ HandlerSpec /\ WF_chainVars(HandlerStep)
    /\ WF_chainVars(ForwarderWaits) /\ WF_chainVars(ForwarderSends) /\ WF_chainVars(ForwarderRests)

-----------------------------------------------------------------------------
(* Types, and the channels within their bounds.                            *)
HandlerTypeOK ==
    /\ task \in {"created", "select", "blocked", "stopped"}
    /\ state \in {"Bootstrapping", "NormalOp"}
    /\ transitions \in 0..TransitionCapacity /\ events \in 0..ChannelCapacity
    /\ handlerQueue \in Seq({"bootstrap", "other"}) /\ Len(handlerQueue) <= ChannelCapacity
    /\ halt \in BOOLEAN /\ finished \in BOOLEAN /\ work \in BOOLEAN /\ asked \in BOOLEAN
    /\ ctxState \in {"Initializing", "Bootstrapping", "NormalOp"}
    /\ vmHeight \in LocalHeight..MaxHeight /\ coreHeight \in LocalHeight..MaxHeight
    /\ forwarder \in {"wait", "send", "floor", "done"} /\ pushes \in 0..MaxPushes

(* The task never waits for room in the transition channel, which only it  *)
(* empties: a channel of one is enough, because the biased select takes    *)
(* the transition before the next message for a finished bootstrapper.     *)
NeverBlocked == task # "blocked"

(* The hand-off is never forgotten: a finished bootstrapper that is still  *)
(* the active engine has asked for the transition, and the context says    *)
(* NormalOp exactly from the moment it is finished.                        *)
HandOffIsPending ==
    /\ finished /\ state = "Bootstrapping" => transitions > 0
    /\ state = "NormalOp" => finished
    /\ finished <=> ctxState = "NormalOp"

(* A halt ends the handler's task once it was started, and the forwarder.  *)
HaltStops == halt ~> task = "stopped" /\ forwarder = "done"

(* The engine is asked to build the work there is after the hand-off, also *)
(* the work that came before it, whose notification was dropped: the       *)
(* forwarder signals again as long as there is work.                       *)
WorkIsAskedFor == work /\ state = "NormalOp" ~> asked \/ ~work \/ halt

(* Consensus takes over from the block the bootstrapper reached.           *)
ConsensusContinues == state = "NormalOp" => coreHeight = vmHeight
=============================================================================
