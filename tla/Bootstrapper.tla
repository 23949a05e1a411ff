---------------------------- MODULE Bootstrapper ----------------------------
(***************************************************************************)
(* The bootstrapper, crates/ava-engine/src/snowman/bootstrap/mod.rs and    *)
(* acceptor.rs: ask the beacons for their frontiers, agree on the blocks a *)
(* majority of the beacon weight accepted, fetch their ancestry down to    *)
(* the local last accepted block, replay it in height order, hand off.     *)
(*                                                                         *)
(* The handler runs one call at a time; `work` is what the current call    *)
(* has still to do: one tip fetched, one block of an Ancestors reply       *)
(* stored, or one block replayed is a step.  An error ends the call.  The  *)
(* heights of the stored blocks are in the interval tree of IntervalTree.  *)
(***************************************************************************)
EXTENDS BlockTree, IntervalTree, Sequences, FiniteSetsExt, Functions

CONSTANTS
    BeaconOrder,   \* the beacons, in the order of their ids
    Weight,        \* Weight[n]: the stake of a beacon
    Good,          \* beacons that report what the network accepted
    Main,          \* the blocks the network accepted, a chain
    Reported,      \* the blocks beacons report as their frontiers
    LocalTip,      \* the VM's last accepted block at start
    MaxBad,        \* bound on failed and useless answers
    MaxUnparsable, \* bound on answers the VM fails to parse
    MaxErrors      \* bound on VM and acceptor errors while replaying

Beacons == Range(BeaconOrder)

TotalWeight(S) == MapThenSumSet(LAMBDA n : Weight[n], S)

ASSUME BootstrapAssumption ==
    /\ BeaconOrder \in Seq(Beacons) /\ IsInjective(BeaconOrder)
    /\ Weight \in [Beacons -> Nat]
    /\ Good \subseteq Beacons
    /\ Beacons # {} => 2 * TotalWeight(Good) > TotalWeight(Beacons)
    /\ Reported \subseteq Blocks /\ Main \subseteq Blocks /\ LocalTip \in Main
    /\ \A b \in Main \ {Genesis} : Parent[b] \in Main
    /\ \A b, c \in Main : Height[b] = Height[c] => b = c
    /\ \A b \in Blocks : Height[b] <= MaxHeight
    /\ MaxBad \in Nat /\ MaxUnparsable \in Nat /\ MaxErrors \in Nat

VARIABLES
    phase,              \* Phase
    requestId,          \* request_id
    frontierReplies,    \* frontier_replies: beacon -> block
    frontierResponded,  \* frontier_responded
    acceptedWeight,     \* accepted_weight, 0 where there is no entry
    acceptedReplies,    \* accepted_replies
    acceptedTips,       \* accepted_tips
    outstanding,        \* (node, request id) -> the block wanted
    blocks,             \* height -> block
    fetchCursor,        \* fetch_cursor, modulo the number of beacons
    vmLast,             \* the VM's last accepted block
    halted,             \* the token is cancelled
    work,               \* what the current call has still to do
    bad, unparsable, errors   \* the bounded failures so far

agreeVars == <<frontierReplies, frontierResponded, acceptedWeight, acceptedReplies,
               acceptedTips>>
fetchVars == <<outstanding, fetchCursor>>
storeVars == <<treeVars, blocks>>
boundVars == <<bad, unparsable, errors>>
vars == <<phase, requestId, agreeVars, fetchVars, storeVars, vmLast, halted, work,
          boundVars>>

LastAcceptedHeight == Height[LocalTip]

EmptyFun == [x \in {} |-> {}]

Without(f, S) == Restrict(f, DOMAIN f \ S)

With(f, k, v) == [x \in DOMAIN f \cup {k} |-> IF x = k THEN v ELSE f[x]]

IdleItem == [op |-> "idle"]
FetchItem(tips) == [op |-> "fetch", tips |-> tips]
WalkItem(b, reply) == [op |-> "walk", blk |-> b, reply |-> reply]
ExecuteItem(left) == [op |-> "execute", left |-> left]

Idle == work = IdleItem

Init ==
    /\ phase = "Initializing" /\ requestId = 0
    /\ frontierReplies = EmptyFun /\ frontierResponded = {}
    /\ acceptedWeight = [b \in Blocks |-> 0] /\ acceptedReplies = {} /\ acceptedTips = {}
    /\ outstanding = EmptyFun /\ fetchCursor = 0
    /\ TreeInit /\ blocks = EmptyFun
    /\ vmLast = LocalTip /\ halted = FALSE
    /\ work = IdleItem
    /\ bad = 0 /\ unparsable = 0 /\ errors = 0

Useless == bad < MaxBad /\ bad' = bad + 1 /\ UNCHANGED <<unparsable, errors>>

-----------------------------------------------------------------------------
(* The frontier.                                                           *)

\* start: GetAcceptedFrontier to every beacon.
Start ==
    /\ Idle /\ phase = "Initializing" /\ ~halted
    /\ requestId' = requestId + 1
    /\ phase' = IF Beacons = {} THEN "Finished" ELSE "DiscoveringFrontier"
    /\ UNCHANGED <<agreeVars, fetchVars, storeVars, vmLast, halted, work, boundVars>>

\* Mutant: no other round when there was no reply.
AgreementNotRetried(responded, replies) ==
    /\ frontierResponded' = responded /\ frontierReplies' = replies
    /\ IF responded = Beacons /\ replies # EmptyFun
       THEN requestId' = requestId + 1 /\ phase' = "AgreeingFrontier"
       ELSE UNCHANGED <<phase, requestId>>

\* maybe_begin_frontier_agreement with these responses: when the last beacon
\* has responded, GetAccepted to all of them, or another round if there was
\* no reply among the responses.
MaybeBeginFrontierAgreement(responded, replies) ==
    IF responded # Beacons
    THEN /\ frontierResponded' = responded /\ frontierReplies' = replies
         /\ UNCHANGED <<phase, requestId>>
    ELSE /\ requestId' = requestId + 1
         /\ IF replies = EmptyFun
            THEN /\ frontierResponded' = {} /\ frontierReplies' = EmptyFun
                 /\ UNCHANGED phase
            ELSE /\ frontierResponded' = responded /\ frontierReplies' = replies
                 /\ phase' = "AgreeingFrontier"

\* accepted_frontier(node, req, b): req is not looked at.
AcceptedFrontier(n, r, b) ==
    /\ Idle /\ phase = "DiscoveringFrontier" /\ n \notin frontierResponded
    /\ MaybeBeginFrontierAgreement(frontierResponded \cup {n}, With(frontierReplies, n, b))
    /\ UNCHANGED <<acceptedWeight, acceptedReplies, acceptedTips, fetchVars, storeVars,
                   vmLast, halted, work, boundVars>>

\* get_accepted_frontier_failed(node, req)
GetAcceptedFrontierFailed(n, r) ==
    /\ Idle /\ phase = "DiscoveringFrontier" /\ n \notin frontierResponded
    /\ Useless
    /\ MaybeBeginFrontierAgreement(frontierResponded \cup {n}, frontierReplies)
    /\ UNCHANGED <<acceptedWeight, acceptedReplies, acceptedTips, fetchVars, storeVars,
                   vmLast, halted, work>>

\* More than weight_threshold.
Majority(weight) == {b \in Blocks : weight[b] > TotalWeight(Beacons) \div 2}

\* One more beacon has responded; the last one begins the fetching.
MaybeBeginFetching(n, weight) ==
    /\ acceptedWeight' = weight
    /\ acceptedReplies' = acceptedReplies \cup {n}
    /\ IF acceptedReplies' = Beacons
       THEN /\ acceptedTips' = Majority(weight)
            /\ phase' = "Fetching"
            /\ work' = FetchItem(acceptedTips')
       ELSE UNCHANGED <<acceptedTips, phase, work>>
    /\ UNCHANGED <<frontierReplies, frontierResponded>>

\* accepted(node, req, ids): req is not looked at.
Accepted(n, r, ids) ==
    /\ Idle /\ phase = "AgreeingFrontier" /\ n \notin acceptedReplies
    /\ MaybeBeginFetching(n, [b \in Blocks |->
            acceptedWeight[b] + IF b \in ids THEN Weight[n] ELSE 0])
    /\ UNCHANGED <<requestId, fetchVars, storeVars, vmLast, halted, boundVars>>

\* get_accepted_failed(node, req)
GetAcceptedFailed(n, r) ==
    /\ Idle /\ phase = "AgreeingFrontier" /\ n \notin acceptedReplies
    /\ Useless
    /\ MaybeBeginFetching(n, acceptedWeight)
    /\ UNCHANGED <<requestId, fetchVars, storeVars, vmLast, halted>>

-----------------------------------------------------------------------------
(* Fetching.                                                               *)

\* fetch(b), with `out` outstanding: from the next beacon, unless b is being
\* fetched already.
Fetch(b, out) ==
    IF b \in Range(out)
    THEN outstanding' = out /\ UNCHANGED <<requestId, fetchCursor>>
    ELSE /\ requestId' = requestId + 1
         /\ outstanding' = With(out, <<BeaconOrder[fetchCursor + 1], requestId'>>, b)
         /\ fetchCursor' = (fetchCursor + 1) % Len(BeaconOrder)

\* Mutant: the replay does not wait for outstanding requests.
ExecuteEarly(heights) == phase' = "Executing" /\ work' = ExecuteItem(heights)

\* try_start_executing: replay once nothing is outstanding.
TryStartExecuting(heights) ==
    IF outstanding = EmptyFun
    THEN phase' = "Executing" /\ work' = ExecuteItem(heights)
    ELSE work' = IdleItem /\ UNCHANGED phase

\* One tip of begin_fetching.
FetchTip ==
    /\ work.op = "fetch"
    /\ \/ \E t \in work.tips :
            /\ Fetch(t, outstanding)
            /\ work' = FetchItem(work.tips \ {t})
            /\ UNCHANGED phase
       \/ /\ work.tips = {}
          /\ TryStartExecuting(DOMAIN blocks)
          /\ UNCHANGED <<requestId, fetchVars>>
    /\ UNCHANGED <<agreeVars, storeVars, vmLast, halted, boundVars>>

\* ancestors(node, req, reply), the block wanted first: process_chain.
Ancestors(n, r, reply) ==
    /\ Idle /\ <<n, r>> \in DOMAIN outstanding
    /\ outstanding[<<n, r>>] \in reply
    /\ outstanding' = Without(outstanding, {<<n, r>>})
    /\ work' = WalkItem(outstanding[<<n, r>>], reply)
    /\ UNCHANGED <<phase, requestId, agreeVars, fetchCursor, storeVars, vmLast, halted,
                   boundVars>>

\* Mutant: a useless reply is not followed by another request.
AncestorsGivenUp(n, r) ==
    /\ Idle /\ <<n, r>> \in DOMAIN outstanding
    /\ Useless
    /\ outstanding' = Without(outstanding, {<<n, r>>})
    /\ UNCHANGED <<phase, requestId, agreeVars, fetchCursor, storeVars, vmLast, halted, work>>

\* An empty reply, one that starts with another block, or
\* get_ancestors_failed: ask the next beacon.
AncestorsUseless(n, r) ==
    /\ Idle /\ <<n, r>> \in DOMAIN outstanding
    /\ Useless
    /\ Fetch(outstanding[<<n, r>>], Without(outstanding, {<<n, r>>}))
    /\ UNCHANGED <<phase, agreeVars, storeVars, vmLast, halted, work>>

\* A reply with bytes the VM fails to parse: the error ends the call.
AncestorsUnparsable(n, r) ==
    /\ Idle /\ <<n, r>> \in DOMAIN outstanding
    /\ unparsable < MaxUnparsable /\ unparsable' = unparsable + 1
    /\ outstanding' = Without(outstanding, {<<n, r>>})
    /\ UNCHANGED <<phase, requestId, agreeVars, fetchCursor, storeVars, vmLast, halted,
                   work, bad, errors>>

\* add_block adds b, and its parent is still to be fetched.
Addable(b) == Height[b] > LastAcceptedHeight /\ ~Contains(Height[b])

\* Mutant: the block on top of the last accepted one is not wanted.
WantsHigherParent(b) == Height[b] - 1 > LastAcceptedHeight + 1 /\ ~Contains(Height[b] - 1)

WantsParent(b) == Height[b] - 1 # LastAcceptedHeight /\ ~Contains(Height[b] - 1)

\* One turn of process_chain: add a block, go on with its parent if that is
\* wanted and in the reply, fetch it if it is wanted and not in the reply.
ProcessBlock ==
    /\ work.op = "walk"
    /\ LET b == work.blk
       IN  /\ IF Addable(b)
              THEN Add(Height[b]) /\ blocks' = With(blocks, Height[b], b)
              ELSE UNCHANGED storeVars
           /\ \/ /\ ~(Addable(b) /\ WantsParent(b))
                 /\ TryStartExecuting(DOMAIN blocks')
                 /\ UNCHANGED <<requestId, fetchVars>>
              \/ /\ Addable(b) /\ WantsParent(b) /\ Parent[b] \in work.reply
                 /\ work' = WalkItem(Parent[b], work.reply)
                 /\ UNCHANGED <<phase, requestId, fetchVars>>
              \/ /\ Addable(b) /\ WantsParent(b) /\ Parent[b] \notin work.reply
                 /\ Fetch(Parent[b], outstanding)
                 /\ work' = IdleItem
                 /\ UNCHANGED phase
    /\ UNCHANGED <<agreeVars, vmLast, halted, boundVars>>

-----------------------------------------------------------------------------
(* Replaying.                                                              *)

\* execute removes the lowest block before it does anything with it.
TakeLowest(h) ==
    /\ blocks' = Without(blocks, {h})
    /\ Remove(h)

\* A VM verifies a block on top of its last accepted block only.
Verifies(b) == Parent[b] = vmLast

\* One block is verified and accepted.
ExecuteBlock ==
    /\ work.op = "execute" /\ work.left # {} /\ ~halted
    /\ LET h == Min(work.left)
       IN  /\ h > LastAcceptedHeight => Verifies(blocks[h])
           /\ TakeLowest(h)
           /\ vmLast' = IF h > LastAcceptedHeight THEN blocks[h] ELSE vmLast
           /\ work' = ExecuteItem(work.left \ {h})
    /\ UNCHANGED <<phase, requestId, agreeVars, fetchVars, halted, boundVars>>

\* A block that does not verify, or another error: the call ends.
ExecuteFails ==
    /\ work.op = "execute" /\ work.left # {} /\ ~halted
    /\ LET h == Min(work.left)
       IN  /\ h > LastAcceptedHeight
           /\ \/ ~Verifies(blocks[h]) /\ UNCHANGED boundVars
              \/ errors < MaxErrors /\ errors' = errors + 1 /\ UNCHANGED <<bad, unparsable>>
           /\ TakeLowest(h)
    /\ work' = IdleItem
    /\ UNCHANGED <<phase, requestId, agreeVars, fetchVars, vmLast, halted>>

\* The token is cancelled; the replay stops before the next block.
Halt ==
    /\ ~halted /\ halted' = TRUE
    /\ UNCHANGED <<phase, requestId, agreeVars, fetchVars, storeVars, vmLast, work, boundVars>>

ExecuteHalted ==
    /\ work.op = "execute" /\ work.left # {} /\ halted
    /\ work' = IdleItem
    /\ UNCHANGED <<phase, requestId, agreeVars, fetchVars, storeVars, vmLast, halted, boundVars>>

\* Everything is replayed: hand off to normal operation.
Finish ==
    /\ work.op = "execute" /\ work.left = {}
    /\ phase' = "Finished" /\ work' = IdleItem
    /\ UNCHANGED <<requestId, agreeVars, fetchVars, storeVars, vmLast, halted, boundVars>>

Requests == 1 .. requestId

\* What beacon n may have accepted of the blocks it is asked about.
View(n) == Range(frontierReplies) \cap IF n \in Good THEN Main ELSE Blocks

\* The blocks a beacon has to report as its frontier.
Frontier(n) == Reported \cap IF n \in Good THEN Main ELSE Blocks

FrontierNext ==
    \E n \in Beacons, r \in Requests :
        \/ \E b \in Frontier(n) : AcceptedFrontier(n, r, b)
        \/ GetAcceptedFrontierFailed(n, r)

OtherNext ==
    \/ Start
    \/ \E n \in Beacons, r \in Requests :
          \/ \E ids \in SUBSET View(n) : Accepted(n, r, ids)
          \/ GetAcceptedFailed(n, r)
          \/ \E reply \in SUBSET Blocks : Ancestors(n, r, reply)
          \/ AncestorsUseless(n, r)
          \/ AncestorsUnparsable(n, r)
    \/ FetchTip \/ ProcessBlock
    \/ ExecuteBlock \/ ExecuteFails \/ ExecuteHalted \/ Finish
    \/ Halt

Next == FrontierNext \/ OtherNext

Spec == Init /\ [][Next]_vars

-----------------------------------------------------------------------------
(* Properties.                                                             *)

TypeOK ==
    /\ phase \in {"Initializing", "DiscoveringFrontier", "AgreeingFrontier", "Fetching",
                  "Executing", "Finished"}
    /\ requestId \in Nat
    /\ DOMAIN frontierReplies \subseteq frontierResponded
    /\ frontierResponded \subseteq Beacons /\ acceptedReplies \subseteq Beacons
    /\ acceptedWeight \in [Blocks -> Nat] /\ acceptedTips \subseteq Blocks
    /\ DOMAIN outstanding \subseteq Beacons \X Requests /\ Range(outstanding) \subseteq Blocks
    /\ fetchCursor \in 0 .. Len(BeaconOrder)
    /\ TreeTypeOK /\ DOMAIN blocks = Tracked /\ Range(blocks) \subseteq Blocks
    /\ vmLast \in Blocks /\ halted \in BOOLEAN
    /\ bad \in 0 .. MaxBad /\ unparsable \in 0 .. MaxUnparsable /\ errors \in 0 .. MaxErrors

\* The blocks still to be stored or asked for in the current call, or asked
\* for and not answered.
Pending ==
    Range(outstanding)
        \cup (IF work.op = "fetch" THEN work.tips ELSE {})
        \cup (IF work.op = "walk" THEN {work.blk} ELSE {})

Stored(b) == Contains(Height[b]) /\ blocks[Height[b]] = b

\* "continue requesting until the chain connects back to the local
\* last-accepted block": until the replay begins, every agreed tip and every
\* parent of a stored block is stored, being fetched, or accepted already,
\* whatever the order, the senders and the extent of the replies, unless the
\* VM failed to parse one.
NothingForgotten ==
    phase = "Fetching" /\ unparsable = 0 =>
        LET needed == acceptedTips \cup {Parent[blocks[h]] : h \in DOMAIN blocks}
        IN  \A b \in needed : Height[b] > LastAcceptedHeight => Stored(b) \/ b \in Pending

\* The replay never meets a block whose parent is not the last accepted one:
\* the range it replays is one chain on top of the local tip, without gaps,
\* unless the VM failed to parse a reply.
ReplayIsContiguous ==
    work.op = "execute" /\ work.left # {} /\ unparsable = 0 =>
        Verifies(blocks[Min(work.left)])

\* Bootstrapping ends on the chain the network accepted, whatever the beacons
\* that are not Good report (more than half of the weight has to vouch for a
\* tip, and the Good beacons hold more than half), and when it has finished it
\* has caught up with every tip agreed on, with the same exception.
FinishedCaughtUp ==
    /\ vmLast \in Main
    /\ phase = "Finished" /\ unparsable = 0 =>
          \A t \in acceptedTips : Height[t] <= Height[vmLast]

-----------------------------------------------------------------------------
(* Liveness: calls run to their end, and the router answers every request,  *)
(* with a *Failed at the latest.                                            *)

Answers(n) ==
    \E r \in Requests :
        \/ \E b \in Frontier(n) : AcceptedFrontier(n, r, b)
        \/ GetAcceptedFrontierFailed(n, r)
        \/ \E ids \in SUBSET View(n) : Accepted(n, r, ids)
        \/ GetAcceptedFailed(n, r)

FairSpec ==
    /\ Spec
    /\ WF_vars(Start) /\ WF_vars(FetchTip) /\ WF_vars(ProcessBlock)
    /\ WF_vars(ExecuteBlock) /\ WF_vars(ExecuteFails) /\ WF_vars(ExecuteHalted)
    /\ WF_vars(Finish)
    /\ \A n \in Beacons : WF_vars(Answers(n))
    /\ WF_vars(\E n \in Beacons, r \in Requests, reply \in SUBSET Blocks :
                  Ancestors(n, r, reply))

\* However many requests fail or are answered uselessly first, bootstrapping
\* finishes: every failure is followed by a request to another beacon.
FinishesEventually ==
    <>(phase = "Finished" \/ halted \/ errors > 0 \/ unparsable > 0)
=============================================================================
