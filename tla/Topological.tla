---------------------------- MODULE Topological ----------------------------
(***************************************************************************)
(* Topological, the Snowman consensus of crates/ava-snow/src/snowman/      *)
(* topological.rs.  Every processing block that has children holds a       *)
(* snowball instance (`sb`) that decides between them.  record_poll pushes *)
(* the votes of a poll towards the last accepted block and records them,   *)
(* from there outwards, on every instance that got an alpha majority.      *)
(*                                                                         *)
(* record_poll runs under &mut self: nothing else happens while it is in   *)
(* progress (pc # "idle").  It is split at its two loops: VoteStep is one  *)
(* turn of the loop of vote(), RejectStep one turn of the loop of          *)
(* reject_transitively(), FinishPoll what follows.  The calls out of the   *)
(* module (the block acceptor, Block::accept, Block::reject) may fail; the *)
(* `?` then abandons record_poll and the engine carries on (the handler    *)
(* only logs the error), which is what the Fail actions do.                *)
(*                                                                         *)
(* The snowball instance is a parameter: SnowballTree supplies it for TLC, *)
(* and what is proved here holds for any instance at all.                  *)
(***************************************************************************)
EXTENDS Snowman, Parameters, FiniteSetsExt, Functions

CONSTANTS
    NoTree,                     \* sb: None
    NoId,                       \* Id::EMPTY
    SbNew(_), SbAdd(_, _), SbRecordPoll(_, _), SbRecordUnsuccessful(_),
    SbPreference(_), SbFinalized(_),
    MaxPolls,                   \* bound on poll_number
    MaxFailures                 \* bound on failing calls out of the module

VARIABLES
    blocks,            \* the last accepted block and all processing blocks
    preferredIds,      \* preferred_ids
    preferredHeights,  \* preferred_heights
    preference,        \* the tail of the preferred branch
    pollNumber,        \* poll_number
    pc,                \* where record_poll is: "idle", "vote" or "reject"
    stack,             \* the vote stack: parent id -> votes of its children
    newPreferred,      \* new_preferred of vote()
    onPreferredBranch, \* on_preferred_branch of vote()
    worklist,          \* rejected blocks whose children are still to reject
    oldParent,         \* the node to remove once the rejections are done
    acceptorDone,      \* blocks handed to the BlockAcceptor
    failures           \* number of failed calls so far

consensusVars == <<blocks, preferredIds, preferredHeights, preference>>
pollVars == <<pc, stack, newPreferred, onPreferredBranch, worklist, oldParent>>
vars == <<snowmanVars, consensusVars, pollVars, pollNumber, acceptorDone, failures>>

Pending == DOMAIN blocks

\* A SnowmanBlock: the falter flag, the instance and the children.
NewNode == [shouldFalter |-> FALSE, sb |-> NoTree, children |-> {}]

Decided(b) == Height[b] <= Height[lastAccepted]

Undecided(b) == b \in Pending /\ ~Decided(b)

EmptyFun == [x \in {} |-> {}]

-----------------------------------------------------------------------------
(* Vote propagation.  calculate_in_degree and push_votes compute, for each *)
(* ancestor of a voted block, the votes of its subtree; KahnVotes runs the *)
(* two algorithms of the code and checks them against these definitions.   *)

\* The proper ancestors of a block.
Ancestors[b \in Blocks] ==
    IF b = Genesis THEN {} ELSE {Parent[b]} \cup Ancestors[Parent[b]]

\* d is c or descends from c through blocks that are all undecided.
Under(d, c) ==
    /\ Undecided(d)
    /\ \/ d = c
       \/ c \in Ancestors[d] /\ \A a \in Ancestors[d] :
                                    Height[a] >= Height[c] => Undecided(a)

\* The votes for c and everything that transitively votes for it.
Weight(votes, c) ==
    MapThenSumSet(LAMBDA d : votes[d], {d \in DOMAIN votes : Under(d, c)})

ChildVotes(votes, p) ==
    LET voted == {c \in Blocks \ {Genesis} : Parent[c] = p /\ Weight(votes, c) > 0}
    IN  [c \in voted |-> Weight(votes, c)]

\* The parents whose children got an alpha majority, with those votes.
VoteStack(votes) ==
    LET majority == {p \in Blocks : SumFunction(ChildVotes(votes, p)) >= AlphaPreference}
    IN  [p \in majority |-> ChildVotes(votes, p)]

VoteBags ==
    {v \in UNION {[S -> 1 .. K] : S \in SUBSET Blocks} : SumFunction(v) <= K}

-----------------------------------------------------------------------------
(* Issuing a block.                                                        *)

Init ==
    /\ SnowmanInit
    /\ blocks = [b \in {Genesis} |-> NewNode]
    /\ preferredIds = {}
    /\ preferredHeights = EmptyFun
    /\ preference = Genesis
    /\ pollNumber = 0
    /\ pc = "idle" /\ stack = EmptyFun
    /\ newPreferred = Genesis /\ onPreferredBranch = TRUE
    /\ worklist = {} /\ oldParent = Genesis
    /\ acceptorDone = {} /\ failures = 0

\* SnowmanBlock::add_child.
AddChild(node, c) ==
    [node EXCEPT !.sb = IF @ = NoTree THEN SbNew(c) ELSE SbAdd(@, c),
                 !.children = @ \cup {c}]

Put(f, x, y) == [z \in DOMAIN f \cup {x} |-> IF z = x THEN y ELSE f[z]]

\* Topological::add.  A known block (DuplicateAdd) and an unknown parent
\* (UnknownParentBlock) change nothing.  The engine never adds a block at or
\* below the last accepted height (is_decided in engine.rs).
Add(b) ==
    /\ pc = "idle"
    /\ b # Genesis /\ ~Decided(b)
    /\ b \notin Pending /\ Parent[b] \in Pending
    /\ blocks' = Put([blocks EXCEPT ![Parent[b]] = AddChild(@, b)], b, NewNode)
    /\ IF preference = Parent[b]
       THEN /\ preference' = b
            /\ preferredIds' = preferredIds \cup {b}
            /\ preferredHeights' = Put(preferredHeights, Height[b], b)
       ELSE UNCHANGED <<preference, preferredIds, preferredHeights>>
    /\ UNCHANGED <<snowmanVars, pollVars, pollNumber, acceptorDone, failures>>

-----------------------------------------------------------------------------
(* Recording a poll.                                                       *)

\* record_poll up to the loop of vote().  Without an alpha majority anywhere
\* the whole tree falters and the preference stays.
RecordPoll(votes) ==
    /\ pc = "idle" /\ pollNumber < MaxPolls
    /\ pollNumber' = pollNumber + 1
    /\ pc' = "vote"
    /\ stack' = VoteStack(votes)
    /\ onPreferredBranch' = TRUE
    /\ IF DOMAIN stack' = {}
       THEN /\ blocks' = [blocks EXCEPT ![lastAccepted].shouldFalter = TRUE]
            /\ newPreferred' = preference
       ELSE /\ blocks' = blocks
            /\ newPreferred' = lastAccepted
    /\ UNCHANGED <<snowmanVars, preferredIds, preferredHeights, preference,
                   worklist, oldParent, acceptorDone, failures>>

\* p is the entry vote() pops next: the stack is a branch, its lowest block
\* is on top.
IsTop(p) == p \in DOMAIN stack /\ \A q \in DOMAIN stack : Height[p] <= Height[q]

\* The instance of the popped block after this poll.  A pending falter resets
\* it first.
PolledTree(p) ==
    LET node == blocks[p]
        sb   == IF node.shouldFalter THEN SbRecordUnsuccessful(node.sb) ELSE node.sb
    IN  IF node.sb = NoTree THEN NoTree ELSE SbRecordPoll(sb, stack[p])

PolledPreference(p) ==
    IF PolledTree(p) = NoTree THEN NoId ELSE SbPreference(PolledTree(p))

\* The popped block decides its child now.
Finalizes(p) ==
    /\ PolledTree(p) # NoTree /\ SbFinalized(PolledTree(p))
    /\ lastAccepted = p

\* The id of the next block to be voted on, if any.
NextId(p) ==
    LET rest == DOMAIN stack \ {p}
    IN  IF rest = {} THEN NoId
        ELSE CHOOSE q \in rest : \A r \in rest : Height[q] <= Height[r]

\* The popped block with its instance replaced.
Recorded(p) ==
    [blocks EXCEPT ![p].sb = PolledTree(p), ![p].shouldFalter = FALSE]

\* The bookkeeping of one turn that does not depend on the rejections.
PopStack(p) ==
    /\ stack' = Restrict(stack, DOMAIN stack \ {p})
    /\ newPreferred' = IF onPreferredBranch THEN PolledPreference(p) ELSE newPreferred
    /\ onPreferredBranch' = (onPreferredBranch /\ NextId(p) = PolledPreference(p))

\* One turn of vote() that decides nothing: every child but the one about to
\* be polled falters, that one too when this block had to falter itself.
VoteStep(p) ==
    /\ pc = "vote" /\ IsTop(p) /\ p \in Pending
    /\ ~Finalizes(p)
    /\ LET faltering == {c \in blocks[p].children :
                             blocks[p].shouldFalter \/ c # NextId(p)}
       IN  blocks' = [b \in Pending |->
                        [Recorded(p)[b] EXCEPT !.shouldFalter = @ \/ b \in faltering]]
    /\ PopStack(p)
    /\ UNCHANGED <<snowmanVars, preferredIds, preferredHeights, preference, pc,
                   worklist, oldParent, pollNumber, acceptorDone, failures>>

\* Mutant: the children of the accepted block are rejected along.
SiblingsAndNephews(p, c) == (blocks[p].children \ {c}) \cup blocks[c].children

Siblings(p, c) == blocks[p].children \ {c}

\* One turn of vote() that accepts the preferred child c of the last accepted
\* block: acceptor, Block::accept, then the siblings are rejected.  The old
\* parent is gone when the falter loop looks up its children, so nothing
\* falters here.
AcceptPreferredChild(p) ==
    LET c == PolledPreference(p)
    IN  /\ pc = "vote" /\ IsTop(p) /\ p \in Pending
        /\ Finalizes(p) /\ c \in blocks[p].children
        /\ acceptorDone' = acceptorDone \cup {c}
        /\ accepted' = accepted \cup {c}
        /\ lastAccepted' = c
        /\ preferredIds' = preferredIds \ {c}
        /\ preferredHeights' =
               Restrict(preferredHeights, DOMAIN preferredHeights \ {Height[c]})
        /\ rejected' = rejected \cup Siblings(p, c)
        /\ worklist' = Siblings(p, c)
        /\ oldParent' = p
        /\ pc' = "reject"
        /\ blocks' = Recorded(p)
        /\ PopStack(p)
        /\ UNCHANGED <<preference, pollNumber, failures>>

\* Mutant: the children of a rejected block stay in the tree.
RejectStepShallow(r) ==
    /\ pc = "reject" /\ r \in worklist
    /\ worklist' = worklist \ {r}
    /\ blocks' = Restrict(blocks, Pending \ {r})
    /\ UNCHANGED <<snowmanVars, preferredIds, preferredHeights, preference,
                   pc, stack, newPreferred, onPreferredBranch, oldParent,
                   pollNumber, acceptorDone, failures>>

\* Mutant: the children of a rejected block leave the tree without being told.
RejectStepSilent(r) ==
    /\ pc = "reject" /\ r \in worklist
    /\ worklist' = worklist \ {r}
    /\ blocks' = Restrict(blocks, {b \in Pending \ {r} : r \notin Ancestors[b]})
    /\ UNCHANGED <<snowmanVars, preferredIds, preferredHeights, preference,
                   pc, stack, newPreferred, onPreferredBranch, oldParent,
                   pollNumber, acceptorDone, failures>>

\* One turn of reject_transitively: r leaves the tree, its children are
\* rejected in turn.
RejectStep(r) ==
    /\ pc = "reject" /\ r \in worklist
    /\ LET children == IF r \in Pending THEN blocks[r].children ELSE {}
       IN  /\ rejected' = rejected \cup children
           /\ worklist' = (worklist \ {r}) \cup children
    /\ blocks' = Restrict(blocks, Pending \ {r})
    /\ UNCHANGED <<lastAccepted, accepted, preferredIds, preferredHeights, preference,
                   pc, stack, newPreferred, onPreferredBranch, oldParent,
                   pollNumber, acceptorDone, failures>>

\* vote() removes the old parent after its child was accepted.
RemoveOldParent ==
    /\ pc = "reject" /\ worklist = {}
    /\ pc' = "vote"
    /\ blocks' = Restrict(blocks, Pending \ {oldParent})
    /\ UNCHANGED <<snowmanVars, preferredIds, preferredHeights, preference, stack,
                   newPreferred, onPreferredBranch, worklist, oldParent,
                   pollNumber, acceptorDone, failures>>

-----------------------------------------------------------------------------
(* The end of record_poll: the preferred branch.                           *)

\* The undecided blocks from b down to the last accepted block.
UpPath(b) ==
    LET line == {b} \cup Ancestors[b]
    IN  {a \in line : \A x \in line : Height[x] >= Height[a] => Undecided(x)}

\* Following the preferred child n times from b, as long as there is one.
Descend(b, n) ==
    LET walk[i \in 0 .. n] ==
            IF i = 0 THEN b
            ELSE LET c == walk[i - 1]
                 IN  IF c \in Pending /\ blocks[c].sb # NoTree
                     THEN SbPreference(blocks[c].sb) ELSE c
    IN  walk

PreferredTail(b) == LET n == Cardinality(Pending) IN Descend(b, n)[n]

DownPath(b) ==
    LET n == Cardinality(Pending)
    IN  {Descend(b, n)[i] : i \in 1 .. n} \ {b}

\* preferred_heights of a preferred branch.
HeightsOf(ids) ==
    [h \in {Height[b] : b \in ids} |-> CHOOSE b \in ids : Height[b] = h]

\* Mutant: preferred_ids and preferred_heights are not cleared first.
FinishPollNoClear ==
    /\ pc = "vote"
    /\ \A p \in DOMAIN stack : IsTop(p) => p \notin Pending
    /\ pc' = "idle" /\ stack' = EmptyFun
    /\ IF newPreferred \in preferredIds
       THEN UNCHANGED <<preferredIds, preferredHeights, preference>>
       ELSE /\ preference' = PreferredTail(newPreferred)
            /\ preferredIds' = preferredIds \cup UpPath(newPreferred) \cup DownPath(newPreferred)
            /\ UNCHANGED preferredHeights
    /\ UNCHANGED <<snowmanVars, blocks, newPreferred, onPreferredBranch, worklist,
                   oldParent, pollNumber, acceptorDone, failures>>

\* record_poll after vote() returned: the early return when the new preferred
\* block is already preferred, else the branch through it.  vote() ends when
\* the stack is empty or when the next block on it was rejected.
FinishPoll ==
    /\ pc = "vote"
    /\ \A p \in DOMAIN stack : IsTop(p) => p \notin Pending
    /\ pc' = "idle" /\ stack' = EmptyFun
    /\ IF newPreferred \in preferredIds
       THEN UNCHANGED <<preferredIds, preferredHeights, preference>>
       ELSE /\ preference' = PreferredTail(newPreferred)
            /\ preferredIds' = UpPath(newPreferred) \cup DownPath(newPreferred)
            /\ preferredHeights' =
                   HeightsOf(UpPath(newPreferred) \cup (DownPath(newPreferred) \cap Pending))
    /\ UNCHANGED <<snowmanVars, blocks, newPreferred, onPreferredBranch, worklist,
                   oldParent, pollNumber, acceptorDone, failures>>

-----------------------------------------------------------------------------
(* The `?` of the calls that may fail.  Each abandons record_poll where it *)
(* stands; what was changed before stays changed.                          *)

Abandon ==
    /\ failures < MaxFailures /\ failures' = failures + 1
    /\ pc' = "idle" /\ stack' = EmptyFun /\ worklist' = {}
    /\ UNCHANGED <<newPreferred, onPreferredBranch, oldParent, preference, pollNumber>>

\* The BlockAcceptor fails (or the preferred child is not known): nothing has
\* been decided yet.
AcceptorFails(p) ==
    /\ pc = "vote" /\ IsTop(p) /\ p \in Pending /\ Finalizes(p)
    /\ Abandon
    /\ blocks' = Recorded(p)
    /\ UNCHANGED <<snowmanVars, preferredIds, preferredHeights, acceptorDone>>

\* Block::accept fails after the acceptor was told.
BlockAcceptFails(p) ==
    /\ pc = "vote" /\ IsTop(p) /\ p \in Pending /\ Finalizes(p)
    /\ PolledPreference(p) \in blocks[p].children
    /\ Abandon
    /\ blocks' = Recorded(p)
    /\ acceptorDone' = acceptorDone \cup {PolledPreference(p)}
    /\ UNCHANGED <<snowmanVars, preferredIds, preferredHeights>>

\* Block::reject of a sibling fails after the preferred child was accepted:
\* `told` siblings heard of their rejection, all of them stay in the tree.
SiblingRejectFails(p) ==
    LET c == PolledPreference(p)
    IN  /\ pc = "vote" /\ IsTop(p) /\ p \in Pending /\ Finalizes(p)
        /\ c \in blocks[p].children /\ Siblings(p, c) # {}
        /\ Abandon
        /\ blocks' = Recorded(p)
        /\ acceptorDone' = acceptorDone \cup {c}
        /\ accepted' = accepted \cup {c}
        /\ lastAccepted' = c
        /\ preferredIds' = preferredIds \ {c}
        /\ preferredHeights' =
               Restrict(preferredHeights, DOMAIN preferredHeights \ {Height[c]})
        /\ \E told \in SUBSET Siblings(p, c) : rejected' = rejected \cup told

\* Block::reject of a child of the rejected block r fails: r is gone, the
\* rest of the worklist and the old parent stay in the tree.
ChildRejectFails(r) ==
    /\ pc = "reject" /\ r \in worklist /\ r \in Pending
    /\ blocks[r].children # {}
    /\ Abandon
    /\ blocks' = Restrict(blocks, Pending \ {r})
    /\ \E told \in SUBSET blocks[r].children : rejected' = rejected \cup told
    /\ UNCHANGED <<lastAccepted, accepted, preferredIds, preferredHeights, acceptorDone>>

Next ==
    \/ \E b \in Blocks : Add(b)
    \/ \E votes \in VoteBags : RecordPoll(votes)
    \/ \E p \in Blocks : VoteStep(p) \/ AcceptPreferredChild(p)
    \/ \E r \in Blocks : RejectStep(r)
    \/ RemoveOldParent
    \/ FinishPoll
    \/ \E p \in Blocks : AcceptorFails(p) \/ BlockAcceptFails(p) \/ SiblingRejectFails(p)
    \/ \E r \in Blocks : ChildRejectFails(r)

Spec == Init /\ [][Next]_vars

-----------------------------------------------------------------------------
(* Properties.                                                             *)

\* A SnowmanBlock over some snowball instance (any value).
IsNode(n) ==
    /\ n = [shouldFalter |-> n.shouldFalter, sb |-> n.sb, children |-> n.children]
    /\ n.shouldFalter \in BOOLEAN
    /\ n.children \subseteq Blocks

\* Per parent, a bag of votes for children of that parent.
IsVoteStack ==
    /\ DOMAIN stack \subseteq Blocks
    /\ \A p \in DOMAIN stack : \A c \in DOMAIN stack[p] :
          c \in Blocks \ {Genesis} /\ Parent[c] = p /\ stack[p][c] > 0

\* The types of the variables; the snowball instances may be anything.
TypeOK ==
    /\ lastAccepted \in Blocks
    /\ accepted \subseteq Blocks /\ rejected \subseteq Blocks
    /\ acceptorDone \subseteq Blocks
    /\ Pending \subseteq Blocks
    /\ \A b \in Pending : IsNode(blocks[b])
    /\ pc \in {"idle", "vote", "reject"}
    /\ IsVoteStack
    /\ onPreferredBranch \in BOOLEAN
    /\ worklist \subseteq Blocks
    /\ oldParent \in Blocks
    /\ pollNumber \in Nat /\ failures \in Nat

\* The accepted blocks are one chain from Genesis to the last accepted block:
\* closed under parents, one block per height, nothing above the last one.
\* It also holds after any call out of accept_preferred_child has failed.
AcceptedChain ==
    /\ Genesis \in accepted /\ lastAccepted \in accepted
    /\ \A a \in accepted \ {Genesis} : Parent[a] \in accepted
    /\ \A a \in accepted : Height[a] <= Height[lastAccepted]
    /\ \A a, b \in accepted : Height[a] = Height[b] => a = b

\* No block is told both to accept and to reject (accept_preferred_child and
\* reject_transitively never meet), failures or not.
DecidedOnce == accepted \cap rejected = {}

\* "Acceptor BEFORE the block's own accept (invariant)": a block is accepted
\* only after the block acceptor has taken it, also when one of them fails.
AcceptorBeforeAccept == accepted \ {Genesis} \subseteq acceptorDone

\* A block leaves the tree only by being decided: no processing block is ever
\* forgotten.
NoBlockForgotten == [][Pending \ Pending' \subseteq accepted' \cup rejected']_vars

\* Between polls, while no call has failed, the tree holds the last accepted
\* block and undecided descendants of it only: every conflicting branch was
\* rejected to its last leaf, and children lists match the tree.
TreeIsUndecided ==
    pc = "idle" /\ failures = 0 =>
        /\ Pending \cap (accepted \cup rejected) = {lastAccepted}
        /\ \A b \in Pending \ {lastAccepted} : Parent[b] \in Pending
        /\ \A b \in Pending : blocks[b].children = {c \in Pending \ {Genesis} : Parent[c] = b}

\* Between polls, while no call has failed, `preference` is where following
\* the snowball preferences from the last accepted block ends, and
\* preferred_ids and preferred_heights are the branch that leads there.  This
\* is what the early return of record_poll takes for granted.
PreferredBranch ==
    pc = "idle" /\ failures = 0 =>
        /\ preference = PreferredTail(lastAccepted)
        /\ preferredIds = UpPath(preference)
        /\ preferredHeights = HeightsOf(preferredIds)

\* vote() accepts a child only of the last accepted block.  It never sees a
\* finalized instance anywhere else: an instance is finalized no earlier than
\* the one above it, so no decision waits unnoticed between polls.
NoUnnoticedDecision ==
    pc = "idle" /\ failures = 0 =>
        \A b \in Pending : blocks[b].sb # NoTree => ~SbFinalized(blocks[b].sb)

\* Topological implements Snowman: accepted blocks form one chain, rejected
\* ones conflict with it (the variables have the same names in both modules).
ImplementsSnowman == SnowmanSpec
=============================================================================
