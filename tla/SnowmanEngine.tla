--------------------------- MODULE SnowmanEngine ---------------------------
(***************************************************************************)
(* The issue / poll / vote loop of crates/ava-engine/src/snowman/engine.rs. *)
(*                                                                         *)
(* The chain handler runs one call of the engine at a time and awaits it,  *)
(* so a new input is taken only when `work`, what the current call has     *)
(* still to do, is empty.  A call is cut at its loops: one turn of the     *)
(* ancestry walk, one block added, one query sent and one poll recorded    *)
(* are a step each.  An error (`?`) abandons the rest of the call; the     *)
(* adapter only logs it.                                                   *)
(*                                                                         *)
(* Consensus is what Topological provides: add() extends the preferred     *)
(* branch when the parent is its tail, record_poll() accepts any number of *)
(* blocks and moves the preference to some tail.  A poll is the set of     *)
(* validators it waits for: PollSet justifies when it may end.             *)
(***************************************************************************)
EXTENDS Snowman, Sequences, FiniteSetsExt, Functions

CONSTANTS
    Nodes,             \* validators
    Self,              \* the all-zero node id build_blocks issues from
    None,              \* no block: bytes that do not parse, a missing frontier
    Samples,           \* the node sets a query may be sent to
    ConcurrentRepolls, \* concurrent_repolls
    OptimalProcessing, \* optimal_processing
    Frontiers,         \* the blocks peers report as their last accepted one
    MaxRequests,       \* bound on request_id
    MaxFailures,       \* bound on failing calls (sampling, VM, consensus)
    MaxBuilds          \* bound on pending_build_blocks

ASSUME EngineAssumption ==
    /\ Samples \subseteq (SUBSET Nodes) \ {{}}
    /\ Frontiers \subseteq Blocks
    /\ None \notin Blocks /\ Self \notin Nodes
    /\ ConcurrentRepolls \in Nat \ {0} /\ OptimalProcessing \in Nat \ {0}
    /\ MaxRequests \in Nat /\ MaxFailures \in Nat /\ MaxBuilds \in Nat

VARIABLES
    processing,         \* blocks in consensus that are not decided
    preference,         \* consensus.preference()
    vmPreference,       \* the block the VM was last told to prefer
    polls,              \* request id -> [waiting, hopeless, finished]
    requestId,          \* request_id
    blkReqs,            \* blk_reqs: (node, request id) -> block
    blkReqsById,        \* blk_reqs_by_id: block -> (node, request id)
    acceptedFrontiers,  \* accepted_frontiers: node -> block
    pendingBuildBlocks, \* pending_build_blocks
    work,               \* what the current call has still to do
    anyAdded,           \* any_added of issue_from
    failures            \* calls that failed so far

consensusVars == <<snowmanVars, processing, preference>>
requestVars == <<blkReqs, blkReqsById>>
vars == <<consensusVars, vmPreference, polls, requestId, requestVars,
          acceptedFrontiers, pendingBuildBlocks, work, anyAdded, failures>>

Idle == work = <<>>

EmptyFun == [x \in {} |-> {}]

Without(f, S) == Restrict(f, DOMAIN f \ S)

-----------------------------------------------------------------------------
(* Predicates of the engine.                                               *)

IsDecided(b) == Height[b] <= Height[lastAccepted]

ShouldIssueBlock(b) == ~IsDecided(b) /\ b \notin processing

CanIssueChildOn(b) == b = lastAccepted \/ b \in processing

-----------------------------------------------------------------------------
(* The items of `work`.                                                    *)

LookupItem(n, b) == [op |-> "lookup", node |-> n, blk |-> b]
IssueItem(n, b) == [op |-> "issue", node |-> n, blk |-> b, chain |-> <<>>]
AddItem(b) == [op |-> "add", blk |-> b]

\* Mutant: repoll only after a block was added.
RepollIfAdded(always) == [op |-> "repoll", always |-> FALSE]

\* repoll, after a poll in any case, after issue_from if a block was added.
RepollItem(always) == [op |-> "repoll", always |-> always]
PreferItem == [op |-> "prefer"]
VoteItem(n, r) == [op |-> "vote", node |-> n, req |-> r]
RecordItem == [op |-> "record"]
BuildItem == [op |-> "build"]

\* process_poll_results for n results.
ProcessPollResults(n) ==
    [i \in 1 .. n |-> RecordItem] \o <<PreferItem, RepollItem(TRUE)>>

Doing(op) == work # <<>> /\ Head(work).op = op

Init ==
    /\ SnowmanInit
    /\ processing = {} /\ preference = Genesis /\ vmPreference = Genesis
    /\ polls = EmptyFun /\ requestId = 0
    /\ blkReqs = EmptyFun /\ blkReqsById = EmptyFun
    /\ acceptedFrontiers = EmptyFun
    /\ pendingBuildBlocks = 0
    /\ work = <<>> /\ anyAdded = FALSE /\ failures = 0

-----------------------------------------------------------------------------
(* Requests for blocks.                                                    *)

\* send_request(node, blk)
SendRequest(n, b) ==
    IF b \in DOMAIN blkReqsById
    THEN UNCHANGED <<requestId, requestVars>>
    ELSE /\ requestId < MaxRequests
         /\ requestId' = requestId + 1
         /\ blkReqs' = [k \in DOMAIN blkReqs \cup {<<n, requestId'>>} |->
                           IF k = <<n, requestId'>> THEN b ELSE blkReqs[k]]
         /\ blkReqsById' = [c \in DOMAIN blkReqsById \cup {b} |->
                               IF c = b THEN <<n, requestId'>> ELSE blkReqsById[c]]

\* Mutant: a block that arrives leaves its request behind.
ClearNothing(b) == UNCHANGED requestVars

\* A block arrived: its request, if there is one, is forgotten.
ClearRequest(b) ==
    IF b \in DOMAIN blkReqsById
    THEN /\ blkReqs' = Without(blkReqs, {blkReqsById[b]})
         /\ blkReqsById' = Without(blkReqsById, {b})
    ELSE UNCHANGED requestVars

\* get_failed(node, req)
AbandonRequest(n, r) ==
    IF <<n, r>> \in DOMAIN blkReqs
    THEN /\ blkReqs' = Without(blkReqs, {<<n, r>>})
         /\ blkReqsById' = Without(blkReqsById, {blkReqs[<<n, r>>]})
    ELSE UNCHANGED requestVars

-----------------------------------------------------------------------------
(* Calls of the engine.                                                    *)

\* put: bytes that do not parse and an answer that is not the block asked
\* for are get_failed.
Put(n, r, b) ==
    /\ Idle
    /\ IF b = None \/ (<<n, r>> \in DOMAIN blkReqs /\ blkReqs[<<n, r>>] # b)
       THEN AbandonRequest(n, r) /\ UNCHANGED work
       ELSE work' = <<IssueItem(n, b)>> /\ UNCHANGED requestVars
    /\ UNCHANGED <<consensusVars, vmPreference, polls, requestId,
                   acceptedFrontiers, pendingBuildBlocks, anyAdded, failures>>

GetFailed(n, r) ==
    /\ Idle
    /\ AbandonRequest(n, r)
    /\ UNCHANGED <<consensusVars, vmPreference, polls, requestId,
                   acceptedFrontiers, pendingBuildBlocks, work, anyAdded, failures>>

\* push_query: answer, then issue the block if the bytes parse.
PushQuery(n, b) ==
    /\ Idle
    /\ work' = <<IssueItem(n, b)>>
    /\ UNCHANGED <<consensusVars, vmPreference, polls, requestId, requestVars,
                   acceptedFrontiers, pendingBuildBlocks, anyAdded, failures>>

\* pull_query: answer, then issue the block named.
PullQuery(n, b) ==
    /\ Idle
    /\ work' = <<LookupItem(n, b)>>
    /\ UNCHANGED <<consensusVars, vmPreference, polls, requestId, requestVars,
                   acceptedFrontiers, pendingBuildBlocks, anyAdded, failures>>

\* What chits has to do for the blocks p (preferred) and h (preferred at the
\* height asked for).
ChitsWork(n, r, p, h) ==
    <<LookupItem(n, p)>> \o (IF h = p THEN <<>> ELSE <<LookupItem(n, h)>>)
        \o <<VoteItem(n, r)>>

Chits(n, r, p, h, acc) ==
    /\ Idle
    /\ acceptedFrontiers' = [m \in DOMAIN acceptedFrontiers \cup {n} |->
                                IF m = n THEN acc ELSE acceptedFrontiers[m]]
    /\ work' = ChitsWork(n, r, p, h)
    /\ UNCHANGED <<consensusVars, vmPreference, polls, requestId, requestVars,
                   pendingBuildBlocks, anyAdded, failures>>

\* query_failed: the peer votes for the block it accepted last, if known.
QueryFailed(n, r) ==
    /\ Idle
    /\ work' = IF n \in DOMAIN acceptedFrontiers
               THEN ChitsWork(n, r, acceptedFrontiers[n], acceptedFrontiers[n])
               ELSE <<VoteItem(n, r)>>
    /\ UNCHANGED <<consensusVars, vmPreference, polls, requestId, requestVars,
                   acceptedFrontiers, pendingBuildBlocks, anyAdded, failures>>

-----------------------------------------------------------------------------
(* The issue path.                                                         *)

\* A VM has the blocks that are processing or accepted; whether it has
\* others (parsed before, built here, rejected) is up to the VM.
Held == processing \cup accepted

\* issue_from_by_id
Lookup ==
    /\ Doing("lookup")
    /\ LET it == Head(work)
       IN  \/ /\ work' = <<IssueItem(it.node, it.blk)>> \o Tail(work)
              /\ UNCHANGED <<requestId, requestVars>>
           \/ /\ it.blk \notin Held
              /\ SendRequest(it.node, it.blk)
              /\ work' = Tail(work)
    /\ UNCHANGED <<consensusVars, vmPreference, polls, acceptedFrontiers,
                   pendingBuildBlocks, anyAdded, failures>>

\* The walk is over: issue the collected chain, oldest block first.
StartAdding(chain) ==
    /\ IF chain = <<>> THEN UNCHANGED requestVars ELSE ClearRequest(chain[Len(chain)])
    /\ anyAdded' = FALSE
    /\ work' = [i \in 1 .. Len(chain) |-> AddItem(chain[i])]
                   \o <<RepollItem(FALSE)>> \o Tail(work)
    /\ UNCHANGED requestId

\* One turn of the loop of issue_from.
Walk ==
    /\ Doing("issue")
    /\ LET it  == Head(work)
           cur == it.blk
           up  == <<cur>> \o it.chain
       IN  \/ /\ ~ShouldIssueBlock(cur)
              /\ StartAdding(it.chain)
           \/ /\ ShouldIssueBlock(cur) /\ CanIssueChildOn(Parent[cur])
              /\ StartAdding(up)
           \/ /\ ShouldIssueBlock(cur) /\ ~CanIssueChildOn(Parent[cur])
              /\ work' = <<[it EXCEPT !.blk = Parent[cur], !.chain = up]>> \o Tail(work)
              /\ UNCHANGED <<requestId, requestVars, anyAdded>>
           \/ /\ ShouldIssueBlock(cur) /\ ~CanIssueChildOn(Parent[cur])
              /\ Parent[cur] \notin Held
              /\ SendRequest(it.node, Parent[cur])
              /\ work' = Tail(work)
              /\ UNCHANGED anyAdded
    /\ UNCHANGED <<consensusVars, vmPreference, polls, acceptedFrontiers,
                   pendingBuildBlocks, failures>>

\* PollSet::add under the next request id.
RegisterPoll(S, hopeless) ==
    /\ requestId < MaxRequests
    /\ requestId' = requestId + 1
    /\ polls' = [r \in DOMAIN polls \cup {requestId'} |->
                    IF r = requestId'
                    THEN [waiting |-> S, hopeless |-> hopeless, finished |-> FALSE]
                    ELSE polls[r]]

\* A call that fails, within the bound.
Fails == failures < MaxFailures /\ failures' = failures + 1

\* Mutant: a block is added although its parent was refused.
IssuableUnchecked(b) == b \notin processing

\* What the loop over the chain asks again before it adds a block.
Issuable(b) == b \notin processing /\ CanIssueChildOn(Parent[b])

\* Verification refused the block, or its parent is not issued any more, or
\* it is processing by now.
SkipBlock ==
    /\ Doing("add")
    /\ LET b == Head(work).blk
       IN  IF Issuable(b) THEN ClearRequest(b) ELSE UNCHANGED requestVars
    /\ work' = Tail(work)
    /\ UNCHANGED <<consensusVars, vmPreference, polls, requestId, acceptedFrontiers,
                   pendingBuildBlocks, anyAdded, failures>>

\* The block is added to consensus and, if it is preferred, validators are
\* queried for it; then the next one's turn comes.
AddBlock ==
    /\ Doing("add")
    /\ LET b == Head(work).blk
       IN  /\ Issuable(b)
           /\ ClearRequest(b)
           /\ processing' = processing \cup {b}
           /\ preference' = IF Parent[b] = preference THEN b ELSE preference
           /\ \/ /\ vmPreference' = preference' /\ work' = Tail(work)
                 /\ \/ /\ preference' # b /\ UNCHANGED <<polls, requestId, failures>>
                    \/ /\ preference' = b /\ UNCHANGED failures
                       /\ \E S \in Samples : RegisterPoll(S, FALSE)
                    \/ preference' = b /\ Fails /\ UNCHANGED <<polls, requestId>>
                 /\ anyAdded' = TRUE
              \/ /\ Fails /\ work' = <<>> /\ anyAdded' = FALSE
                 /\ UNCHANGED <<vmPreference, polls, requestId>>
    /\ UNCHANGED <<snowmanVars, acceptedFrontiers, pendingBuildBlocks>>

\* repoll: one query per turn while too few polls are outstanding.
Repoll ==
    /\ Doing("repoll")
    /\ IF /\ Head(work).always \/ anyAdded
          /\ processing # {}
          /\ Cardinality(DOMAIN polls) < ConcurrentRepolls
       THEN \/ /\ \E S \in Samples : RegisterPoll(S, FALSE)
               /\ UNCHANGED <<work, anyAdded, failures>>
            \/ /\ Fails /\ work' = Tail(work) /\ anyAdded' = FALSE
               /\ UNCHANGED <<polls, requestId>>
       ELSE /\ work' = Tail(work) /\ anyAdded' = FALSE
            /\ UNCHANGED <<polls, requestId, failures>>
    /\ UNCHANGED <<consensusVars, vmPreference, requestVars, acceptedFrontiers,
                   pendingBuildBlocks>>

\* gossip: a poll of one validator, too few to reach alpha_preference.
Gossip(n) ==
    /\ Idle
    /\ RegisterPoll({n}, TRUE)
    /\ UNCHANGED <<consensusVars, vmPreference, requestVars, acceptedFrontiers,
                   pendingBuildBlocks, work, anyAdded, failures>>

-----------------------------------------------------------------------------
(* The vote path.                                                          *)

\* The polls drain_finished removes.
Drained(ps) ==
    {r \in DOMAIN ps : \A q \in DOMAIN ps :
        q <= r => ps[q].finished \/ ps[q].hopeless \/ ps[q].waiting = {}}

\* The answer of a validator, a vote or a drop, reaches its poll.  It may end
\* the poll early if it was still expected.
Vote ==
    /\ Doing("vote")
    /\ LET it == Head(work)
       IN  \/ /\ it.req \notin DOMAIN polls
              /\ work' = Tail(work) /\ UNCHANGED polls
           \/ /\ it.req \in DOMAIN polls
              /\ \E early \in {FALSE, it.node \in polls[it.req].waiting} :
                    LET old  == polls[it.req]
                        left == old.waiting \ {it.node}
                        over == old.finished \/ old.hopeless \/ left = {} \/ early
                        ps   == [polls EXCEPT ![it.req].waiting = left,
                                              ![it.req].finished = over]
                        gone == IF over THEN Drained(ps) ELSE {}
                    IN  /\ polls' = Without(ps, gone)
                        /\ work' = IF gone = {} THEN Tail(work)
                                   ELSE ProcessPollResults(Cardinality(gone)) \o Tail(work)
    /\ UNCHANGED <<consensusVars, vmPreference, requestId, requestVars,
                   acceptedFrontiers, pendingBuildBlocks, anyAdded, failures>>

\* record_poll accepts the child c of the last accepted block and rejects
\* what conflicts with it.
RecordAccept(c) ==
    /\ Doing("record")
    /\ c \in processing /\ Parent[c] = lastAccepted
    /\ \E R \in SUBSET (processing \ {c}) :
          /\ \A b \in processing \ {c} :
                b \in R <=> Parent[b] = lastAccepted \/ Parent[b] \in R
          /\ rejected' = rejected \cup R
          /\ processing' = processing \ (R \cup {c})
    /\ lastAccepted' = c
    /\ accepted' = accepted \cup {c}
    /\ UNCHANGED <<preference, vmPreference, polls, requestId, requestVars,
                   acceptedFrontiers, pendingBuildBlocks, work, anyAdded, failures>>

\* A tail of the preferred branch: the last accepted block if nothing is
\* processing, a processing block without processing children else.
Tails ==
    IF processing = {} THEN {lastAccepted}
    ELSE {b \in processing : \A c \in processing : Parent[c] # b}

\* record_poll returns, or fails.
RecordDone ==
    /\ Doing("record")
    /\ \/ preference' \in Tails /\ work' = Tail(work) /\ UNCHANGED failures
       \/ Fails /\ work' = <<>> /\ UNCHANGED preference
    /\ UNCHANGED <<snowmanVars, processing, vmPreference, polls, requestId, requestVars,
                   acceptedFrontiers, pendingBuildBlocks, anyAdded>>

\* set_vm_preference
Prefer ==
    /\ Doing("prefer")
    /\ \/ vmPreference' = preference /\ work' = Tail(work) /\ UNCHANGED failures
       \/ Fails /\ work' = <<>> /\ UNCHANGED vmPreference
    /\ UNCHANGED <<consensusVars, polls, requestId, requestVars,
                   acceptedFrontiers, pendingBuildBlocks, anyAdded>>

-----------------------------------------------------------------------------
(* Building blocks.                                                        *)

\* notify_pending_txs
NotifyPendingTxs ==
    /\ Idle
    /\ pendingBuildBlocks < MaxBuilds
    /\ pendingBuildBlocks' = pendingBuildBlocks + 1
    /\ work' = <<BuildItem>>
    /\ UNCHANGED <<consensusVars, vmPreference, polls, requestId, requestVars,
                   acceptedFrontiers, anyAdded, failures>>

\* One turn of the loop of build_blocks: a VM builds on the block it was told
\* to prefer, or declines.
Build ==
    /\ Doing("build")
    /\ IF pendingBuildBlocks > 0 /\ Cardinality(processing) < OptimalProcessing
       THEN /\ pendingBuildBlocks' = pendingBuildBlocks - 1
            /\ \/ \E b \in Blocks \ {Genesis} :
                    /\ Parent[b] = vmPreference
                    /\ work' = <<IssueItem(Self, b), BuildItem>> \o Tail(work)
                    /\ UNCHANGED failures
               \/ Fails /\ work' = Tail(work)
       ELSE work' = Tail(work) /\ UNCHANGED <<pendingBuildBlocks, failures>>
    /\ UNCHANGED <<consensusVars, vmPreference, polls, requestId, requestVars,
                   acceptedFrontiers, anyAdded>>

Requests == 1 .. requestId

PutNext == \E n \in Nodes, r \in Requests, b \in Blocks \cup {None} : Put(n, r, b)

OtherNext ==
    \/ \E n \in Nodes, r \in Requests : GetFailed(n, r)
    \/ \E n \in Nodes, b \in Blocks : PushQuery(n, b)
    \/ \E n \in Nodes, b \in Blocks : PullQuery(n, b)
    \/ \E n \in Nodes, r \in Requests, p \in Blocks, h \in Blocks, acc \in Frontiers :
          Chits(n, r, p, h, acc)
    \/ \E n \in Nodes, r \in Requests : QueryFailed(n, r)
    \/ \E n \in Nodes : Gossip(n)
    \/ NotifyPendingTxs
    \/ Lookup \/ Walk \/ SkipBlock \/ AddBlock \/ Repoll
    \/ Vote \/ RecordDone \/ Prefer \/ Build
    \/ \E c \in Blocks \ {Genesis} : RecordAccept(c)

Next == PutNext \/ OtherNext

Spec == Init /\ [][Next]_vars

-----------------------------------------------------------------------------
(* Properties.                                                             *)

Requesters == Nodes \cup {Self}

TypeOK ==
    /\ lastAccepted \in Blocks /\ accepted \subseteq Blocks /\ rejected \subseteq Blocks
    /\ processing \subseteq Blocks \ {Genesis}
    /\ preference \in Blocks /\ vmPreference \in Blocks
    /\ requestId \in 0 .. MaxRequests
    /\ DOMAIN polls \subseteq 1 .. requestId
    /\ \A r \in DOMAIN polls : polls[r] \in [waiting : SUBSET Nodes, hopeless : BOOLEAN,
                                             finished : BOOLEAN]
    /\ DOMAIN blkReqs \subseteq Requesters \X (1 .. requestId)
    /\ \A k \in DOMAIN blkReqs : blkReqs[k] \in Blocks
    /\ DOMAIN blkReqsById \subseteq Blocks
    /\ pendingBuildBlocks \in 0 .. MaxBuilds /\ failures \in 0 .. MaxFailures

\* blk_reqs and blk_reqs_by_id are inverse maps and hold no block that was
\* issued, whatever order answers, failures, unsolicited blocks and new
\* requests come in and however a block came (an answer, a query, an ancestor
\* of another block, built here): a block is never asked for twice at a time,
\* no failure forgets a newer request, and no request outlives its block.
RequestsAreExact ==
    /\ \A k \in DOMAIN blkReqs :
          blkReqs[k] \in DOMAIN blkReqsById /\ blkReqsById[blkReqs[k]] = k
    /\ \A b \in DOMAIN blkReqsById :
          blkReqsById[b] \in DOMAIN blkReqs /\ blkReqs[blkReqsById[b]] = b
    /\ DOMAIN blkReqsById \cap (processing \cup accepted) = {}

\* add() is only ever called for a block whose parent is the last accepted
\* block or processing, so the processing blocks are a tree on the last
\* accepted block and consensus.add never fails.
ProcessingIsRooted ==
    \A b \in processing : Parent[b] \in processing \cup {lastAccepted}

\* A call that ends polls starts new ones and tells the VM, so that between
\* two calls concurrent_repolls polls are outstanding while blocks process
\* (consensus never waits with nothing to wait for) and the VM prefers what
\* consensus prefers, unless sampling, the VM or consensus failed.
CallsEndReady ==
    Idle /\ failures = 0 =>
        /\ processing # {} => Cardinality(DOMAIN polls) >= ConcurrentRepolls
        /\ vmPreference = preference
=============================================================================
