------------------------------ MODULE Requests ------------------------------
(***************************************************************************)
(* An engine's requests from the send to the answer or the failure:        *)
(* OutboundSender (crates/ava-engine/src/networking/sender.rs) registers   *)
(* a request for every recipient with ChainRouter (router.rs), hands it to *)
(* the network and fails at once the recipients it was not sent to; the    *)
(* timer (TimeoutManager) fails the others; failures and responses are     *)
(* pushed into the bounded queue of the chain's handler (handler.rs).      *)
(*                                                                         *)
(* The chain's task sends from within the handling of a message, so it     *)
(* takes no message while a send is under way; the timer's loop, the       *)
(* detached tasks that push failures and the peers' read loops interleave  *)
(* with it.  A request id is used once.                                    *)
(***************************************************************************)
EXTENDS TimeoutManager, Sequences

CONSTANTS
    Nodes,
    Fetches,         \* requests of an op that fails when unsent
    Broadcasts,      \* requests of a bootstrap op, which waits for its timer
    QueueCapacity    \* the bound of the handler's queue

Reqs == Fetches \cup Broadcasts

ASSUME RequestsAssumption ==
    /\ RequestIds = Nodes \X Reqs
    /\ Fetches \cap Broadcasts = {}
    /\ QueueCapacity \in Nat \ {0}

VARIABLES
    call,       \* the send under way
    wire,       \* requests the network took and the peer has not answered
    routed,     \* the requests whose failure has a handler to go to
    chain,      \* add_chain was called
    tasks,      \* detached tasks that push a failure, by request
    queue,      \* the handler's queue
    failures,   \* failures the engine was given, by request
    due,        \* history: the deadline each request was registered with
    sent,       \* history: the requests the network took
    inTime      \* history: requests whose response came before their deadline

routerVars == <<routed, chain, tasks>>
engineVars == <<queue, failures>>
historyVars == <<due, sent, inTime>>
vars == <<timeoutVars, call, wire, routerVars, engineVars, historyVars>>

NoCall == [step |-> "none"]

Message(kind, id) == [kind |-> kind, id |-> id]

Room == Len(queue) < QueueCapacity

Registered == DOMAIN due

Init ==
    /\ TimeoutInit
    /\ call = NoCall /\ wire = {}
    /\ routed = {} /\ chain = FALSE /\ tasks = [id \in RequestIds |-> 0]
    /\ queue = <<>> /\ failures = [id \in RequestIds |-> 0]
    /\ due = [id \in {} |-> 0] /\ sent = {} /\ inTime = {}

\* add_chain, before the handler is started.
AddChain ==
    /\ ~chain /\ chain' = TRUE
    /\ UNCHANGED <<timeoutVars, call, wire, routed, tasks, engineVars, historyVars>>

-----------------------------------------------------------------------------
(* The sends: register every recipient, send, fail the unsent.             *)

\* A send of the engine, in the handling of a message or in start.
Begin(req, nodes) ==
    /\ chain /\ call = NoCall /\ InTime
    /\ \A id \in Registered : id[2] # req
    /\ call' = [step |-> "register", req |-> req, left |-> nodes, nodes |-> nodes]
    /\ UNCHANGED <<timeoutVars, wire, routerVars, engineVars, historyVars>>

\* register_request: the handler is looked up now, for the day the timer fires.
Register(n) ==
    LET id == <<n, call.req>> IN
    /\ call.step = "register" /\ n \in call.left
    /\ Put(id)
    /\ call' = [call EXCEPT !.left = @ \ {n},
                            !.step = IF call.left = {n} THEN "send" ELSE @]
    /\ routed' = IF chain THEN routed \cup {id} ELSE routed
    /\ due' = [i \in Registered \cup {id} |-> IF i = id THEN pending'[id] ELSE due[i]]
    /\ UNCHANGED <<wire, chain, tasks, engineVars, sent, inTime>>

\* fail_unsent is the last step of the fetch, query and app sends only.
FailsUnsent(req) == req \in Fetches

\* The recipients missing from the network's answer.
Unsent(nodes, took) == nodes \ took

\* dispatch: the network takes it for some of the recipients.
Send(took) ==
    /\ call.step = "send" /\ took \subseteq call.nodes
    /\ wire' = wire \cup (took \X {call.req})
    /\ sent' = sent \cup (took \X {call.req})
    /\ call' = IF FailsUnsent(call.req) /\ Unsent(call.nodes, took) # {}
               THEN [call EXCEPT !.step = "fail", !.left = Unsent(call.nodes, took)]
               ELSE NoCall
    /\ UNCHANGED <<timeoutVars, routerVars, engineVars, due, inTime>>

\* Mutant: the failure is synthesized whoever took the timer.
SpawnAlways(id, claimed) == tasks' = [tasks EXCEPT ![id] = @ + 1]

\* A detached task that will push the failure.
SpawnIf(id, claimed) == tasks' = IF claimed THEN [tasks EXCEPT ![id] = @ + 1] ELSE tasks

\* fail_request: whoever takes the timer out of the registry owns the failure.
FailRequest(n) ==
    LET id == <<n, call.req>> IN
    /\ call.step = "fail" /\ n \in call.left
    /\ Cancel(id)
    /\ SpawnIf(id, id \in DOMAIN pending /\ chain)
    /\ call' = IF call.left = {n} THEN NoCall ELSE [call EXCEPT !.left = @ \ {n}]
    /\ UNCHANGED <<wire, routed, chain, engineVars, historyVars>>

-----------------------------------------------------------------------------
(* The timer, the tasks, the peers and the handler.                        *)

\* The handler that register_request gave the timer.
TimeOut(id) ==
    /\ Fire(id)
    /\ SpawnIf(id, id \in routed)
    /\ UNCHANGED <<call, wire, routed, chain, engineVars, historyVars>>

\* push by a detached task, which waits for room.
PushFailure(id) ==
    /\ tasks[id] > 0 /\ Room
    /\ tasks' = [tasks EXCEPT ![id] = @ - 1]
    /\ queue' = Append(queue, Message("failed", id))
    /\ UNCHANGED <<timeoutVars, call, wire, routed, chain, failures, historyVars>>

\* handle_inbound: the peer answers, its read loop waits for room.
Answer(id) ==
    /\ id \in wire /\ Room
    /\ wire' = wire \ {id}
    /\ queue' = Append(queue, Message("response", id))
    /\ inTime' = IF id \in DOMAIN pending /\ now < pending[id] THEN inTime \cup {id} ELSE inTime
    /\ UNCHANGED <<timeoutVars, call, routerVars, failures, due, sent>>

\* The peer never answers.
Lose(id) ==
    /\ id \in wire
    /\ wire' = wire \ {id}
    /\ UNCHANGED <<timeoutVars, call, routerVars, engineVars, historyVars>>

\* The handler gives the engine the next message.
Deliver ==
    /\ call = NoCall /\ queue # <<>>
    /\ LET m == Head(queue) IN
           failures' = IF m.kind = "failed" THEN [failures EXCEPT ![m.id] = @ + 1] ELSE failures
    /\ queue' = Tail(queue)
    /\ UNCHANGED <<timeoutVars, call, wire, routerVars, historyVars>>

\* Time passes; not beyond the last deadline the bound on the clock allows
\* while requests are being registered.
Wait ==
    /\ Tick
    /\ call.step = "register" => now' + MaximumTimeout <= MaxTime
    /\ UNCHANGED <<call, wire, routerVars, engineVars, historyVars>>

TimerStep ==
    /\ SendWake \/ DispatchLoop
    /\ UNCHANGED <<call, wire, routerVars, engineVars, historyVars>>

\* The node shuts down.
StopTimers ==
    /\ Stop
    /\ UNCHANGED <<call, wire, routerVars, engineVars, historyVars>>

SenderStep == \/ \E n \in Nodes : Register(n) \/ FailRequest(n)
              \/ \E took \in SUBSET Nodes : Send(took)

Next ==
    \/ AddChain \/ Wait \/ SenderStep \/ TimerStep \/ StopTimers \/ Deliver
    \/ \E req \in Reqs, nodes \in SUBSET Nodes \ {{}} : Begin(req, nodes)
    \/ \E id \in RequestIds : TimeOut(id) \/ PushFailure(id) \/ Answer(id) \/ Lose(id)

Spec == Init /\ [][Next]_vars

\* Tasks that can run are run; nothing is assumed of the peers.
FairSpec ==
    /\ Spec
    /\ WF_vars(Wait) /\ WF_vars(TimerStep) /\ WF_vars(SenderStep) /\ WF_vars(Deliver)
    /\ \A id \in RequestIds : WF_vars(TimeOut(id)) /\ WF_vars(PushFailure(id))

-----------------------------------------------------------------------------
(* Types, and the queue within its bound.                                  *)
TypeOK ==
    /\ TimeoutTypeOK
    /\ call \in {NoCall} \cup [step : {"register", "send", "fail"}, req : Reqs,
                               left : SUBSET Nodes, nodes : SUBSET Nodes]
    /\ wire \subseteq RequestIds /\ routed \subseteq Registered /\ chain \in BOOLEAN
    /\ tasks \in [RequestIds -> Nat] /\ failures \in [RequestIds -> Nat]
    /\ queue \in Seq([kind : {"failed", "response"}, id : RequestIds])
    /\ Len(queue) <= QueueCapacity
    /\ Registered \subseteq RequestIds /\ sent \subseteq Registered /\ inTime \subseteq sent

QueuedFailures(id) == Cardinality({i \in DOMAIN queue : queue[i] = Message("failed", id)})

\* The failure of a request, wherever it is on its way to the engine.
Synthesized(id) == tasks[id] + QueuedFailures(id) + failures[id]

(* The failure of a request is synthesized exactly once: either its timer  *)
(* is pending or there is one failure, in a task, in the queue or at the   *)
(* engine, whoever of the timer and fail_request came first (the contract  *)
(* of AdaptiveTimeoutManager::cancel).  Before its deadline only an unsent *)
(* fetch fails: the bootstrap broadcasts wait for their timers, sent or    *)
(* not, so that a node without a network does not spin (fail_unsent).      *)
FailedExactlyOnce ==
    \A id \in Registered :
        /\ Synthesized(id) + (IF id \in DOMAIN pending THEN 1 ELSE 0) = 1
        /\ Synthesized(id) > 0 /\ now < due[id] => id[2] \in Fetches /\ id \notin sent

(* Every registered request ends: the engine is given its failure, or its  *)
(* response came in time, whatever the peers do, unless the node stops.    *)
EveryRequestEnds ==
    \A id \in RequestIds :
        id \in Registered ~> failures[id] > 0 \/ id \in inTime \/ shutdown
=============================================================================
