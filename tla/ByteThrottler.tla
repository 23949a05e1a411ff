---------------------------- MODULE ByteThrottler ----------------------------
(***************************************************************************)
(* The inbound message byte throttler (ava-network throttling/             *)
(* inbound_msg_byte.rs) under the peers' read tasks that use it.  A read   *)
(* task reserves the bytes of a message, from the at-large pool up to its  *)
(* node's cap and then from its node's share of the validator pool, waits  *)
(* for what is missing, handles the message and gives the bytes back.      *)
(* Every operation runs under one lock; between a waiter's wake-up and its *)
(* return its connection may close, and both outcomes are possible then.   *)
(*                                                                         *)
(* A connection has one acquire at a time, so it stands for the message id.*)
(***************************************************************************)
EXTENDS Naturals, SequencesExt, FiniteSetsExt

CONSTANTS
    Nodes,
    Conns,      \* connections, several of which may belong to one node
    Owner,      \* Owner[c]: the node at the other end
    Sizes,      \* message sizes
    AtLarge,    \* size of the at-large pool
    NodeMax,    \* a node's cap on it
    Vdr,        \* size of the validator pool
    Allowance,  \* vdr_alloc: a node's share of it
    None

(* The largest message is as large as a node's cap (2 MiB both).           *)
ASSUME ThrottlerAssumption ==
    /\ Owner \in [Conns -> Nodes]
    /\ {AtLarge, NodeMax, Vdr} \subseteq Nat
    /\ NodeMax <= AtLarge
    /\ Sizes \subseteq 1 .. NodeMax
    /\ Allowance \in [Nodes -> 0 .. Vdr]
    /\ None \notin Conns

VARIABLES
    pools,      \* the remaining bytes of both pools and each node's part
    waiting,    \* waiting_to_acquire: connections, oldest first
    needed,     \* the bytes each of them still needs
    waitingMsg, \* node_to_waiting_msg_id
    task,       \* each read task: idle, waiting, woken, holding or closed
    size,       \* the size of its message
    cancelled   \* its close token has fired

vars == <<pools, waiting, needed, waitingMsg, task, size, cancelled>>

Init ==
    /\ pools = [atLarge |-> AtLarge, vdr |-> Vdr,
                atLargeUsed |-> [n \in Nodes |-> 0],
                vdrUsed |-> [n \in Nodes |-> 0]]
    /\ waiting = <<>>
    /\ needed = [c \in Conns |-> 0]
    /\ waitingMsg = [n \in Nodes |-> None]
    /\ task = [c \in Conns |-> "idle"]
    /\ size = [c \in Conns |-> 0]
    /\ cancelled = [c \in Conns |-> FALSE]

Least(x, y) == IF x < y THEN x ELSE y
Beyond(x, y) == IF x > y THEN x - y ELSE 0   \* saturating_sub

-----------------------------------------------------------------------------
(* Bytes towards `want` for a node that has `used` of a share of `cap`,     *)
(* from a pool with `free`.                                                *)
Grant(want, cap, used, free) == Least(Least(want, Beyond(cap, used)), free)

(* acquire_with_vdr_alloc.  A node that already has a waiter is refused,    *)
(* which ends the second read task.                                        *)
Acquire(c, k) ==
    LET n       == Owner[c]
        ofLarge == Grant(k, NodeMax, pools.atLargeUsed[n], pools.atLarge)
        ofVdr   == Grant(k - ofLarge, Allowance[n], pools.vdrUsed[n], pools.vdr)
        missing == k - ofLarge - ofVdr
    IN  /\ task[c] = "idle" /\ ~cancelled[c] /\ waitingMsg[n] = None
        /\ pools' = [pools EXCEPT
             !.atLarge = @ - ofLarge, !.atLargeUsed[n] = @ + ofLarge,
             !.vdr = @ - ofVdr, !.vdrUsed[n] = @ + ofVdr]
        /\ size' = [size EXCEPT ![c] = k]
        /\ IF missing = 0
           THEN /\ task' = [task EXCEPT ![c] = "holding"]
                /\ UNCHANGED <<waiting, needed, waitingMsg>>
           ELSE /\ task' = [task EXCEPT ![c] = "waiting"]
                /\ waiting' = Append(waiting, c)
                /\ needed' = [needed EXCEPT ![c] = missing]
                /\ waitingMsg' = [waitingMsg EXCEPT ![n] = c]
        /\ UNCHANGED cancelled

Refuse(c) ==
    /\ task[c] = "idle" /\ ~cancelled[c] /\ waitingMsg[Owner[c]] # None
    /\ task' = [task EXCEPT ![c] = "closed"]
    /\ UNCHANGED <<pools, waiting, needed, waitingMsg, size, cancelled>>

-----------------------------------------------------------------------------
\* Mutant: the bytes of a release all go back to the pool.
GivenNothing(queue, used, free) == [c \in Conns |-> 0]

\* Mutant: the newest waiter is served first.
GivenNewestFirst(queue, used, free) ==
    LET want(c) == Least(needed[c], Beyond(NodeMax, used[Owner[c]]))
        ahead[i \in 1 .. Len(queue) + 1] ==
            IF i = Len(queue) + 1 THEN 0 ELSE ahead[i + 1] + want(queue[i])
        turn(c) == CHOOSE i \in DOMAIN queue : queue[i] = c
    IN  [c \in Conns |-> IF c \notin ToSet(queue) THEN 0
                         ELSE Least(want(c), Beyond(free, ahead[turn(c) + 1]))]

(* The at-large part of a release is offered to the waiters oldest first:  *)
(* what each gets of `free` bytes, given the nodes' use of the pool.  (A   *)
(* node has one waiter, so its use does not change before its turn.)       *)
GivenAtLarge(queue, used, free) ==
    LET want(c) == Least(needed[c], Beyond(NodeMax, used[Owner[c]]))
        ahead[i \in 0 .. Len(queue)] ==
            IF i = 0 THEN 0 ELSE ahead[i - 1] + want(queue[i])
        turn(c) == CHOOSE i \in DOMAIN queue : queue[i] = c
    IN  [c \in Conns |-> IF c \notin ToSet(queue) THEN 0
                         ELSE Least(want(c), Beyond(free, ahead[turn(c) - 1]))]

(* release_bytes: what c's node gives back counts as validator bytes as    *)
(* far as it has any.  The at-large part goes to the waiters, then the     *)
(* pool; the validator part to the node's own waiter, which leaves it      *)
(* charged to the node, then the pool.  Waiters that need nothing more     *)
(* are woken.                                                              *)
ReleaseWith(c, queue, ofVdr, ofLarge, used, given, next) ==
    LET n     == Owner[c]
        mine  == waitingMsg[n]
        own   == IF mine \in ToSet(queue) THEN Least(needed[mine] - given[mine], ofVdr)
                                          ELSE 0
        left  == [d \in Conns |-> CASE d \notin ToSet(queue) -> 0
                                    [] d = mine -> needed[d] - given[d] - own
                                    [] OTHER -> needed[d] - given[d]]
        woken == {d \in ToSet(queue) : left[d] = 0}
        givenTo(m) == IF waitingMsg[m] \in ToSet(queue) THEN given[waitingMsg[m]] ELSE 0
    IN  /\ pools' = [atLarge |-> pools.atLarge + ofLarge - SumFunction(given),
                     atLargeUsed |-> [m \in Nodes |-> used[m] + givenTo(m)],
                     vdr |-> pools.vdr + ofVdr - own,
                     vdrUsed |-> [pools.vdrUsed EXCEPT ![n] = @ - (ofVdr - own)]]
        /\ needed' = left
        /\ waiting' = SelectSeq(queue, LAMBDA d : d \notin woken)
        /\ waitingMsg' = [m \in Nodes |->
              IF waitingMsg[m] \in woken \cup {c} THEN None ELSE waitingMsg[m]]
        /\ task' = [d \in Conns |-> CASE d = c -> next
                                      [] d \in woken -> "woken"
                                      [] OTHER -> task[d]]
        /\ size' = [size EXCEPT ![c] = 0]
        /\ UNCHANGED cancelled

Release(c, queue, k, next) ==
    \E ofVdr \in {Least(k, pools.vdrUsed[Owner[c]])} :
    \E used \in {[pools.atLargeUsed EXCEPT ![Owner[c]] = @ - (k - ofVdr)]} :
    \E given \in {IF k = ofVdr THEN [d \in Conns |-> 0]
                  ELSE GivenAtLarge(queue, used, pools.atLarge + (k - ofVdr))} :
        ReleaseWith(c, queue, ofVdr, k - ofVdr, used, given, next)

(* The permit is dropped when the message has been handled.                *)
Drop(c) == task[c] = "holding" /\ Release(c, waiting, size[c], "idle")

(* A woken acquire returns its permit...                                   *)
Return(c) ==
    /\ task[c] = "woken"
    /\ task' = [task EXCEPT ![c] = "holding"]
    /\ UNCHANGED <<pools, waiting, needed, waitingMsg, size, cancelled>>

\* Mutant: no waiter is found, so nothing is given back.
AbandonWokenLeaks(c) ==
    /\ task[c] = "woken" /\ cancelled[c]
    /\ task' = [task EXCEPT ![c] = "closed"]
    /\ size' = [size EXCEPT ![c] = 0]
    /\ UNCHANGED <<pools, waiting, needed, waitingMsg, cancelled>>

(* ...or sees the close token first: abandon finds no waiter and gives all *)
(* the bytes back.                                                         *)
AbandonWoken(c) ==
    /\ task[c] = "woken" /\ cancelled[c]
    /\ Release(c, waiting, size[c], "closed")

(* abandon of a queued waiter gives back what it had so far.               *)
Abandon(c) ==
    /\ task[c] = "waiting" /\ cancelled[c]
    /\ Release(c, SelectSeq(waiting, LAMBDA d : d # c), size[c] - needed[c], "closed")

-----------------------------------------------------------------------------
Cancel(c) ==
    /\ ~cancelled[c]
    /\ cancelled' = [cancelled EXCEPT ![c] = TRUE]
    /\ UNCHANGED <<pools, waiting, needed, waitingMsg, task, size>>

Exit(c) ==
    /\ task[c] = "idle" /\ cancelled[c]
    /\ task' = [task EXCEPT ![c] = "closed"]
    /\ UNCHANGED <<pools, waiting, needed, waitingMsg, size, cancelled>>

(* The node connects again.                                                *)
Reconnect(c) ==
    /\ task[c] = "closed"
    /\ task' = [task EXCEPT ![c] = "idle"]
    /\ cancelled' = [cancelled EXCEPT ![c] = FALSE]
    /\ UNCHANGED <<pools, waiting, needed, waitingMsg, size>>

Resume(c) == Return(c) \/ AbandonWoken(c)

Next ==
    \E c \in Conns :
        \/ \E k \in Sizes : Acquire(c, k)
        \/ Refuse(c)
        \/ Drop(c) \/ Resume(c) \/ Abandon(c)
        \/ Cancel(c) \/ Exit(c) \/ Reconnect(c)

Spec == Init /\ [][Next]_vars

(* A message is handled or its read times out, and ready tasks are polled. *)
(* Nothing is assumed of new messages or of closing connections.           *)
FairSpec ==
    Spec /\ \A c \in Conns : WF_vars(Drop(c)) /\ WF_vars(Resume(c)) /\ WF_vars(Abandon(c))

-----------------------------------------------------------------------------
Held(c) ==
    CASE task[c] \in {"woken", "holding"} -> size[c]
      [] task[c] = "waiting" -> size[c] - needed[c]
      [] OTHER -> 0

HeldBy(n) == MapThenSumSet(Held, {c \in Conns : Owner[c] = n})

(* No byte is lost or made: what is missing from each pool is charged to   *)
(* nodes, and a node is charged exactly what its permits hold and its      *)
(* waiter has so far, also when a connection closes after its wake-up.     *)
BytesAreAccounted ==
    /\ pools.atLarge + MapThenSumSet(LAMBDA n : pools.atLargeUsed[n], Nodes) = AtLarge
    /\ pools.vdr + MapThenSumSet(LAMBDA n : pools.vdrUsed[n], Nodes) = Vdr
    /\ \A n \in Nodes : pools.atLargeUsed[n] + pools.vdrUsed[n] = HeldBy(n)
    /\ \A n \in Nodes : pools.atLargeUsed[n] <= NodeMax /\ pools.vdrUsed[n] <= Allowance[n]

(* At-large bytes are never idle while somebody could use them: if any     *)
(* remain, every waiter's node is at its cap.                              *)
NoIdleBytes ==
    pools.atLarge > 0 =>
        \A c \in ToSet(waiting) : pools.atLargeUsed[Owner[c]] = NodeMax

(* Every blocked acquire returns: oldest-first hand-over lets no waiter    *)
(* starve, and waiters never share out the pool among themselves.          *)
EveryAcquireEnds ==
    \A c \in Conns : task[c] = "waiting" ~> task[c] # "waiting"

=============================================================================
