-------------------------- MODULE Consensus_proofs --------------------------
(***************************************************************************)
(* Safety of Topological, for every block tree, every snowball instance    *)
(* and any number of polls and failing calls; and of PollSet, for every    *)
(* sample size, every pair of thresholds Parameters::verify admits, any    *)
(* number of validators, ids and polls.                                    *)
(*                                                                         *)
(* Of the polls the heart is a fact about one poll: once the four cases of *)
(* finished() let a poll stop, every id is settled - further votes leave   *)
(* it on the same side of both thresholds - and being settled survives     *)
(* every vote and every drop.  The order of drains rests on the ids: they  *)
(* are handed out one after the other, the outstanding ones are an         *)
(* interval, and drain_finished takes an initial part of it.               *)
(***************************************************************************)
EXTENDS Topological, PollSet, TLAPS

-----------------------------------------------------------------------------
(* The inductive invariant.                                                *)

\* Children lists hold children.
ChildrenInv ==
    \A b \in Pending : \A c \in blocks[b].children : c # Genesis /\ Parent[c] = b

\* A rejected block hangs off another rejected block, or off an accepted block
\* whose other child has been accepted.  This is what keeps a rejected block
\* from becoming a child of the last accepted block, hence from acceptance.
RejectedInv ==
    \A r \in rejected :
        /\ r # Genesis
        /\ \/ Parent[r] \in rejected
           \/ /\ Parent[r] \in accepted
              /\ Height[r] <= Height[lastAccepted]

\* The blocks waiting in the loop of reject_transitively were told to reject,
\* the node to remove after it was accepted.
WorklistInv == worklist \subseteq rejected /\ oldParent \in accepted

SafetyInv ==
    /\ TypeOK
    /\ ChildrenInv
    /\ AcceptedChain
    /\ RejectedInv
    /\ DecidedOnce
    /\ WorklistInv
    /\ AcceptorBeforeAccept

-----------------------------------------------------------------------------
(* What the updates of `blocks` preserve.                                  *)

\* Recording a poll on a node changes neither the tree nor the children.
LEMMA RecordedNode ==
    ASSUME TypeOK, NEW p \in Pending
    PROVE  /\ DOMAIN Recorded(p) = Pending
           /\ \A b \in Pending : /\ IsNode(Recorded(p)[b])
                                 /\ Recorded(p)[b].children = blocks[b].children
<1> DEFINE t == PolledTree(p)
<1>1. Recorded(p) = [blocks EXCEPT ![p].sb = t, ![p].shouldFalter = FALSE]
  BY Zenon DEF Recorded
<1> HIDE DEF t
<1>2. DOMAIN Recorded(p) = Pending
  BY <1>1, Zenon DEF Pending
<1>3. ASSUME NEW b \in Pending
      PROVE  IsNode(Recorded(p)[b]) /\ Recorded(p)[b].children = blocks[b].children
  <2>1. IsNode(blocks[b])
    BY Zenon DEF TypeOK
  <2>2. CASE b # p
    BY <1>1, <2>1, <2>2, Zenon DEF Pending
  <2>3. CASE b = p
    <3>1. Recorded(p)[b] = [shouldFalter |-> FALSE, sb |-> t, children |-> blocks[b].children]
      BY ZenonT(20), <1>1, <2>1, <2>3 DEF Pending, IsNode
    <3>2. QED BY <2>1, <3>1 DEF IsNode
  <2>4. QED BY <2>2, <2>3, Zenon
<1>4. QED BY <1>2, <1>3, Zenon

\* Removing nodes keeps the others as they are.
LEMMA RestrictedNodes ==
    ASSUME TypeOK, ChildrenInv, NEW S, blocks' = Restrict(blocks, Pending \ S)
    PROVE  /\ Pending' = Pending \ S
           /\ Pending' \subseteq Blocks
           /\ \A b \in Pending' : IsNode(blocks'[b])
           /\ ChildrenInv'
<1>1. /\ Pending' = Pending \ S
      /\ \A b \in Pending \ S : blocks'[b] = blocks[b]
  BY Zenon DEF Pending, Restrict
<1>2. QED
  BY ZenonT(20), <1>1 DEF TypeOK, ChildrenInv, IsNode

\* Recording a poll on a node, with falter flags set on others, keeps the
\* shape of the tree.
LEMMA RecordedTree ==
    ASSUME TypeOK, ChildrenInv, NEW p \in Pending, blocks' = Recorded(p)
    PROVE  /\ Pending' = Pending
           /\ \A b \in Pending' : IsNode(blocks'[b])
           /\ ChildrenInv'
<1>1. /\ DOMAIN blocks' = Pending
      /\ \A b \in Pending : IsNode(blocks'[b]) /\ blocks'[b].children = blocks[b].children
  BY RecordedNode, Zenon
<1>2. Pending' = Pending
  BY <1>1, Zenon DEF Pending
<1>3. QED
  BY <1>1, <1>2, Zenon DEF ChildrenInv

-----------------------------------------------------------------------------
(* What a decision preserves.                                              *)

\* Accepting a child of the last accepted block and rejecting siblings of it.
LEMMA AcceptKeepsChain ==
    ASSUME SafetyInv,
           NEW c \in Blocks \ {Genesis}, Parent[c] = lastAccepted,
           NEW S \in SUBSET (Blocks \ {Genesis}),
           \A s \in S : s # c /\ Parent[s] = lastAccepted,
           lastAccepted' = c, accepted' = accepted \cup {c},
           rejected' = rejected \cup S
    PROVE  /\ AcceptedChain' /\ RejectedInv' /\ DecidedOnce'
           /\ c \notin accepted \cup rejected
<1> USE DEF SafetyInv, TypeOK
<1>1. Height[c] = Height[lastAccepted] + 1 /\ Height[lastAccepted] \in Nat
  BY BlockTreeAssumption, Zenon
<1>2. \A a \in accepted : Height[a] \in Nat /\ Height[a] <= Height[lastAccepted]
  BY BlockTreeAssumption, Zenon DEF AcceptedChain
<1>3. c \notin accepted
  BY <1>1, <1>2
<1>4. c \notin rejected
  BY <1>1 DEF RejectedInv, DecidedOnce, AcceptedChain
<1>5. \A s \in S : Height[s] = Height[c] /\ s \notin accepted
  BY <1>1, <1>2, BlockTreeAssumption
<1>6. AcceptedChain'
  BY <1>1, <1>2, <1>3 DEF AcceptedChain
<1>7. RejectedInv'
  <2> SUFFICES ASSUME NEW r \in rejected'
               PROVE  /\ r # Genesis
                      /\ \/ Parent[r] \in rejected'
                         \/ Parent[r] \in accepted' /\ Height[r] <= Height[c]
    BY Zenon DEF RejectedInv
  <2>1. CASE r \in rejected
    BY <1>1, <2>1, BlockTreeAssumption DEF RejectedInv
  <2>2. CASE r \in S
    BY <1>1, <1>5, <2>2 DEF AcceptedChain
  <2>3. QED BY <2>1, <2>2, Zenon
<1>8. DecidedOnce'
  BY <1>3, <1>4, <1>5, Zenon DEF DecidedOnce
<1>9. QED BY <1>3, <1>4, <1>6, <1>7, <1>8, Zenon

\* Rejecting children of rejected blocks.
LEMMA RejectKeepsChain ==
    ASSUME SafetyInv,
           NEW S \in SUBSET (Blocks \ {Genesis}), \A s \in S : Parent[s] \in rejected,
           UNCHANGED <<lastAccepted, accepted>>, rejected' = rejected \cup S
    PROVE  AcceptedChain' /\ RejectedInv' /\ DecidedOnce'
<1> USE DEF SafetyInv
<1>1. \A s \in S : s \notin accepted
  BY Zenon DEF AcceptedChain, DecidedOnce
<1>2. AcceptedChain'
  BY Zenon DEF AcceptedChain
<1>3. RejectedInv'
  BY Zenon DEF RejectedInv
<1>4. DecidedOnce'
  BY <1>1, Zenon DEF DecidedOnce
<1>5. QED BY <1>2, <1>3, <1>4, Zenon

\* Deciding nothing.
LEMMA NoDecision ==
    ASSUME SafetyInv, UNCHANGED snowmanVars
    PROVE  AcceptedChain' /\ RejectedInv' /\ DecidedOnce'
BY Zenon DEF SafetyInv, AcceptedChain, RejectedInv, DecidedOnce, snowmanVars

-----------------------------------------------------------------------------
(* The invariant is inductive: one lemma per action.                       *)

LEMMA InitSafety == Init => SafetyInv
<1> SUFFICES ASSUME Init PROVE SafetyInv
  BY Zenon
<1> USE BlockTreeAssumption DEF Init, SnowmanInit
<1>1. /\ Pending = {Genesis}
      /\ \A b \in Pending : IsNode(blocks[b]) /\ blocks[b].children = {}
  BY ZenonT(20) DEF Pending, NewNode, IsNode
<1>2. TypeOK
  BY <1>1, Zenon DEF TypeOK, EmptyFun, IsVoteStack
<1>3. ChildrenInv
  BY <1>1, Zenon DEF ChildrenInv
<1>4. AcceptedChain /\ RejectedInv /\ DecidedOnce /\ WorklistInv /\ AcceptorBeforeAccept
  BY DEF AcceptedChain, RejectedInv, DecidedOnce, WorklistInv, AcceptorBeforeAccept
<1>5. QED BY <1>2, <1>3, <1>4, Zenon DEF SafetyInv

LEMMA AddSafety ==
    ASSUME SafetyInv, NEW b \in Blocks, Add(b)
    PROVE  SafetyInv'
<1> DEFINE par == Parent[b]
           grown == [blocks EXCEPT ![par] = AddChild(@, b)]
<1>1. /\ TypeOK /\ ChildrenInv
      /\ b # Genesis /\ par \in Pending /\ b \notin Pending
      /\ blocks' = Put(grown, b, NewNode)
  BY Zenon DEF SafetyInv, Add
<1>2. /\ Pending' = Pending \cup {b}
      /\ blocks'[b] = NewNode
      /\ \A x \in Pending : blocks'[x] = IF x = par THEN AddChild(blocks[par], b) ELSE blocks[x]
  BY <1>1, Zenon DEF Pending, Put
<1>3. /\ IsNode(AddChild(blocks[par], b))
      /\ AddChild(blocks[par], b).children = blocks[par].children \cup {b}
  <2> DEFINE sb2 == IF blocks[par].sb = NoTree THEN SbNew(b) ELSE SbAdd(blocks[par].sb, b)
  <2>1. AddChild(blocks[par], b) =
          [blocks[par] EXCEPT !.sb = sb2, !.children = blocks[par].children \cup {b}]
    BY Zenon DEF AddChild
  <2> HIDE DEF sb2
  <2>2. IsNode(blocks[par])
    BY <1>1, Zenon DEF TypeOK
  <2>3. AddChild(blocks[par], b) =
          [shouldFalter |-> blocks[par].shouldFalter, sb |-> sb2,
           children |-> blocks[par].children \cup {b}]
    BY ZenonT(20), <2>1, <2>2 DEF IsNode
  <2>4. QED BY <2>2, <2>3 DEF IsNode
<1>4. IsNode(NewNode) /\ NewNode.children = {}
  BY Zenon DEF IsNode, NewNode
<1>5. /\ Pending' \subseteq Blocks
      /\ \A x \in Pending' : IsNode(blocks'[x])
  BY ZenonT(20), <1>1, <1>2, <1>3, <1>4 DEF TypeOK
<1>6. ChildrenInv'
  <2> HIDE DEF par, grown
  <2> SUFFICES ASSUME NEW x \in Pending', NEW c \in blocks'[x].children
               PROVE  c # Genesis /\ Parent[c] = x
    BY Zenon DEF ChildrenInv
  <2>1. CASE x = b
    BY <1>2, <1>4, <2>1, Zenon
  <2>2. CASE x # b /\ x # par
    BY <1>1, <1>2, <2>2, Zenon DEF ChildrenInv
  <2>3. CASE x # b /\ x = par
    BY <1>1, <1>2, <1>3, <2>3 DEF ChildrenInv, par
  <2>4. QED BY <2>1, <2>2, <2>3, Zenon
<1>7. TypeOK'
  BY ZenonT(20), <1>1, <1>5 DEF IsVoteStack, TypeOK, Add, snowmanVars, pollVars
<1>8. AcceptedChain' /\ RejectedInv' /\ DecidedOnce'
  BY NoDecision, Zenon DEF Add
<1>9. WorklistInv' /\ AcceptorBeforeAccept'
  BY Zenon DEF SafetyInv, WorklistInv, AcceptorBeforeAccept, Add, snowmanVars,
               pollVars
<1>10. QED BY <1>6, <1>7, <1>8, <1>9, Zenon DEF SafetyInv

LEMMA RecordPollSafety ==
    ASSUME SafetyInv, NEW votes, RecordPoll(votes)
    PROVE  SafetyInv'
<1>1. TypeOK /\ ChildrenInv
  BY Zenon DEF SafetyInv
<1>2. /\ Pending' = Pending
      /\ \A b \in Pending : IsNode(blocks'[b]) /\ blocks'[b].children = blocks[b].children
  <2>1. CASE blocks' = blocks
    BY <1>1, <2>1, Zenon DEF TypeOK, Pending
  <2>2. CASE blocks' = [blocks EXCEPT ![lastAccepted].shouldFalter = TRUE]
    <3>1. Pending' = Pending
      BY <2>2, Zenon DEF Pending
    <3>2. ASSUME NEW b \in Pending
          PROVE  IsNode(blocks'[b]) /\ blocks'[b].children = blocks[b].children
      <4>1. IsNode(blocks[b])
        BY <1>1, Zenon DEF TypeOK
      <4>2. \/ blocks'[b] = blocks[b]
            \/ blocks'[b] = [blocks[b] EXCEPT !.shouldFalter = TRUE]
        BY ZenonT(20), <2>2 DEF Pending
      <4>3. QED BY ZenonT(20), <4>1, <4>2 DEF IsNode
    <3>3. QED BY <3>1, <3>2, Zenon
  <2>3. QED BY <2>1, <2>2, Zenon DEF RecordPoll
<1>3. IsVoteStack'
  <2> DEFINE voted(p) == {c \in Blocks \ {Genesis} : Parent[c] = p /\ Weight(votes, c) > 0}
             majority == {p \in Blocks : SumFunction(ChildVotes(votes, p)) >= AlphaPreference}
  <2>1. stack' = [p \in majority |-> ChildVotes(votes, p)]
    BY Zenon DEF RecordPoll, VoteStack
  <2>2. \A p : ChildVotes(votes, p) = [c \in voted(p) |-> Weight(votes, c)]
    BY Zenon DEF ChildVotes
  <2> HIDE DEF majority
  <2>3. DOMAIN stack' = majority /\ majority \subseteq Blocks
    BY <2>1, Zenon DEF majority
  <2>4. ASSUME NEW p \in DOMAIN stack', NEW c \in DOMAIN stack'[p]
        PROVE  c \in Blocks \ {Genesis} /\ Parent[c] = p /\ stack'[p][c] > 0
    <3>1. stack'[p] = [x \in voted(p) |-> Weight(votes, x)]
      BY ZenonT(20), <2>1, <2>2, <2>3
    <3>2. c \in voted(p) /\ stack'[p][c] = Weight(votes, c)
      BY <3>1, Zenon
    <3>3. QED BY <3>2, Zenon
  <2>5. QED BY <2>3, <2>4, Zenon DEF IsVoteStack
<1>4. ChildrenInv'
  BY <1>1, <1>2, Zenon DEF ChildrenInv
<1>5. TypeOK'
  BY <1>1, <1>2, <1>3 DEF TypeOK, RecordPoll, snowmanVars
<1>6. AcceptedChain' /\ RejectedInv' /\ DecidedOnce'
  BY NoDecision, Zenon DEF RecordPoll
<1>7. WorklistInv' /\ AcceptorBeforeAccept'
  BY Zenon DEF SafetyInv, WorklistInv, AcceptorBeforeAccept, RecordPoll, snowmanVars
<1>8. QED BY <1>4, <1>5, <1>6, <1>7, Zenon DEF SafetyInv

\* PopStack only shrinks the stack.
LEMMA PopStackType ==
    ASSUME TypeOK, NEW p, PopStack(p)
    PROVE  IsVoteStack' /\ onPreferredBranch' \in BOOLEAN
<1>1. /\ DOMAIN stack' = DOMAIN stack \ {p}
      /\ \A q \in DOMAIN stack' : stack'[q] = stack[q]
  BY Zenon DEF PopStack, Restrict
<1>2. onPreferredBranch' \in BOOLEAN
  BY Zenon DEF PopStack
<1>3. IsVoteStack'
  BY <1>1, Zenon DEF TypeOK, IsVoteStack
<1>4. QED BY <1>2, <1>3, Zenon

LEMMA VoteStepSafety ==
    ASSUME SafetyInv, NEW p \in Blocks, VoteStep(p)
    PROVE  SafetyInv'
<1> DEFINE rec == Recorded(p)
           faltering == {c \in blocks[p].children :
                            blocks[p].shouldFalter \/ c # NextId(p)}
<1>1. TypeOK /\ ChildrenInv /\ p \in Pending
  BY Zenon DEF SafetyInv, VoteStep
<1>2. blocks' = [b \in Pending |-> [rec[b] EXCEPT !.shouldFalter = @ \/ b \in faltering]]
  BY Zenon DEF VoteStep
<1>3. \A b \in Pending : IsNode(rec[b]) /\ rec[b].children = blocks[b].children
  BY <1>1, RecordedNode, Zenon
<1> HIDE DEF rec, faltering
<1>4. Pending' = Pending
  BY <1>2, Zenon DEF Pending
<1>5. ASSUME NEW b \in Pending
      PROVE  IsNode(blocks'[b]) /\ blocks'[b].children = blocks[b].children
  <2> DEFINE f == rec[b].shouldFalter \/ b \in faltering
  <2>1. blocks'[b] = [rec[b] EXCEPT !.shouldFalter = f]
    BY <1>2, Zenon
  <2>2. f \in BOOLEAN
    BY Zenon
  <2> HIDE DEF f
  <2>3. blocks'[b] = [shouldFalter |-> f, sb |-> rec[b].sb, children |-> rec[b].children]
    BY ZenonT(20), <1>3, <2>1 DEF IsNode
  <2>4. IsNode(rec[b])
    BY <1>3, Zenon
  <2>5. IsNode(blocks'[b])
    BY <2>2, <2>3, <2>4 DEF IsNode
  <2>6. QED BY <1>3, <2>3, <2>5
<1>6. ChildrenInv'
  BY <1>1, <1>4, <1>5, Zenon DEF ChildrenInv
<1>7. PopStack(p) /\ UNCHANGED <<snowmanVars, pc, worklist, oldParent, pollNumber,
                                 acceptorDone, failures>>
  BY Zenon DEF VoteStep
<1>8. TypeOK'
  BY <1>1, <1>4, <1>5, <1>7, PopStackType, Zenon DEF TypeOK, snowmanVars
<1>9. AcceptedChain' /\ RejectedInv' /\ DecidedOnce'
  BY <1>7, NoDecision, Zenon
<1>10. WorklistInv' /\ AcceptorBeforeAccept'
  BY <1>7, Zenon DEF SafetyInv, WorklistInv, AcceptorBeforeAccept, snowmanVars
<1>11. QED BY <1>6, <1>8, <1>9, <1>10, Zenon DEF SafetyInv

\* The children vote() decides between are children of the last accepted block.
LEMMA DecidedChild ==
    ASSUME SafetyInv, NEW p \in Pending, p = lastAccepted, NEW c \in blocks[p].children
    PROVE  /\ c \in Blocks \ {Genesis} /\ Parent[c] = lastAccepted
           /\ Siblings(p, c) \in SUBSET (Blocks \ {Genesis})
           /\ \A s \in Siblings(p, c) : s # c /\ Parent[s] = lastAccepted
BY ZenonT(20) DEF SafetyInv, TypeOK, IsNode, ChildrenInv, Siblings

LEMMA AcceptSafety ==
    ASSUME SafetyInv, NEW p \in Blocks, AcceptPreferredChild(p)
    PROVE  SafetyInv' /\ PolledPreference(p) \notin accepted \cup rejected
<1> DEFINE c == PolledPreference(p)
           S == Siblings(p, c)
<1>1. TypeOK /\ ChildrenInv /\ p \in Pending /\ p = lastAccepted /\ c \in blocks[p].children
  BY Zenon DEF SafetyInv, AcceptPreferredChild, Finalizes
<1>2. /\ lastAccepted' = c /\ accepted' = accepted \cup {c}
      /\ rejected' = rejected \cup S /\ worklist' = S
      /\ acceptorDone' = acceptorDone \cup {c} /\ oldParent' = p
      /\ pc' = "reject" /\ blocks' = Recorded(p) /\ PopStack(p)
      /\ UNCHANGED <<pollNumber, failures>>
  BY Zenon DEF AcceptPreferredChild
<1>3. /\ c \in Blocks \ {Genesis} /\ Parent[c] = lastAccepted
      /\ S \in SUBSET (Blocks \ {Genesis})
      /\ \A s \in S : s # c /\ Parent[s] = lastAccepted
  BY <1>1, DecidedChild, Zenon
<1> HIDE DEF c, S
<1>4. /\ AcceptedChain' /\ RejectedInv' /\ DecidedOnce'
      /\ c \notin accepted \cup rejected
  BY <1>2, <1>3, AcceptKeepsChain, Zenon
<1>5. /\ Pending' = Pending /\ ChildrenInv'
      /\ \A b \in Pending' : IsNode(blocks'[b])
  BY <1>1, <1>2, RecordedTree, Zenon
<1>6. TypeOK'
  BY <1>1, <1>2, <1>3, <1>5, PopStackType, Zenon DEF TypeOK
<1>7. WorklistInv' /\ AcceptorBeforeAccept'
  BY <1>1, <1>2, Zenon DEF SafetyInv, WorklistInv, AcceptorBeforeAccept,
                           AcceptedChain
<1>8. QED BY <1>4, <1>5, <1>6, <1>7, Zenon DEF SafetyInv, c

LEMMA RejectStepSafety ==
    ASSUME SafetyInv, NEW r \in Blocks, RejectStep(r)
    PROVE  SafetyInv'
<1> DEFINE S == IF r \in Pending THEN blocks[r].children ELSE {}
<1>1. TypeOK /\ ChildrenInv /\ r \in worklist /\ r \in rejected
  BY Zenon DEF SafetyInv, RejectStep, WorklistInv
<1>2. /\ rejected' = rejected \cup S /\ worklist' = (worklist \ {r}) \cup S
      /\ blocks' = Restrict(blocks, Pending \ {r})
      /\ UNCHANGED <<lastAccepted, accepted, pc, stack, onPreferredBranch, oldParent,
                     pollNumber, acceptorDone, failures>>
  BY Zenon DEF RejectStep
<1>3. S \in SUBSET (Blocks \ {Genesis}) /\ \A s \in S : Parent[s] = r
  BY ZenonT(20), <1>1 DEF TypeOK, IsNode, ChildrenInv
<1> HIDE DEF S
<1>4. AcceptedChain' /\ RejectedInv' /\ DecidedOnce'
  BY <1>1, <1>2, <1>3, RejectKeepsChain, Zenon
<1>5. /\ ChildrenInv' /\ Pending' \subseteq Blocks
      /\ \A b \in Pending' : IsNode(blocks'[b])
  BY ZenonT(20), <1>1, <1>2, RestrictedNodes
<1>6. TypeOK'
  BY ZenonT(20), <1>1, <1>2, <1>3, <1>5 DEF IsVoteStack, TypeOK
<1>7. WorklistInv' /\ AcceptorBeforeAccept'
  BY <1>2, Zenon DEF SafetyInv, WorklistInv, AcceptorBeforeAccept
<1>8. QED BY <1>4, <1>5, <1>6, <1>7, Zenon DEF SafetyInv

LEMMA RemoveOldParentSafety ==
    ASSUME SafetyInv, RemoveOldParent
    PROVE  SafetyInv'
<1>1. TypeOK /\ ChildrenInv
  BY Zenon DEF SafetyInv
<1>2. /\ blocks' = Restrict(blocks, Pending \ {oldParent}) /\ pc' = "vote"
      /\ UNCHANGED <<snowmanVars, stack, onPreferredBranch, worklist, oldParent,
                     pollNumber, acceptorDone, failures>>
  BY Zenon DEF RemoveOldParent
<1>3. /\ ChildrenInv' /\ Pending' \subseteq Blocks
      /\ \A b \in Pending' : IsNode(blocks'[b])
  BY ZenonT(20), <1>1, <1>2, RestrictedNodes
<1>4. TypeOK'
  BY ZenonT(20), <1>1, <1>2, <1>3 DEF IsVoteStack, TypeOK, snowmanVars
<1>5. AcceptedChain' /\ RejectedInv' /\ DecidedOnce'
  BY <1>2, NoDecision, Zenon
<1>6. WorklistInv' /\ AcceptorBeforeAccept'
  BY <1>2, Zenon DEF SafetyInv, WorklistInv, AcceptorBeforeAccept, snowmanVars
<1>7. QED BY <1>3, <1>4, <1>5, <1>6, Zenon DEF SafetyInv

LEMMA FinishPollSafety ==
    ASSUME SafetyInv, FinishPoll
    PROVE  SafetyInv'
<1>1. /\ pc' = "idle" /\ stack' = EmptyFun
      /\ UNCHANGED <<snowmanVars, blocks, onPreferredBranch, worklist, oldParent,
                     pollNumber, acceptorDone, failures>>
  BY Zenon DEF FinishPoll
<1>2. TypeOK'
  BY <1>1, Zenon DEF SafetyInv, TypeOK, IsVoteStack, EmptyFun, Pending, snowmanVars
<1>3. ChildrenInv'
  BY <1>1, Zenon DEF SafetyInv, ChildrenInv, Pending
<1>4. AcceptedChain' /\ RejectedInv' /\ DecidedOnce'
  BY <1>1, NoDecision, Zenon
<1>5. WorklistInv' /\ AcceptorBeforeAccept'
  BY <1>1, Zenon DEF SafetyInv, WorklistInv, AcceptorBeforeAccept, snowmanVars
<1>6. QED BY <1>2, <1>3, <1>4, <1>5, Zenon DEF SafetyInv

\* A failure resets what is in flight.
LEMMA AbandonType ==
    ASSUME TypeOK, Abandon
    PROVE  /\ pc' \in {"idle", "vote", "reject"} /\ IsVoteStack'
           /\ onPreferredBranch' \in BOOLEAN /\ worklist' \subseteq Blocks
           /\ oldParent' \in Blocks /\ pollNumber' \in Nat /\ failures' \in Nat
BY DEF TypeOK, IsVoteStack, Abandon, EmptyFun

\* A failure before anything is decided.
LEMMA AcceptFailureSafety ==
    ASSUME SafetyInv, NEW p \in Blocks, AcceptorFails(p) \/ BlockAcceptFails(p)
    PROVE  SafetyInv'
<1>1. TypeOK /\ ChildrenInv /\ p \in Pending
  BY Zenon DEF SafetyInv, AcceptorFails, BlockAcceptFails
<1>2. /\ blocks' = Recorded(p) /\ Abandon /\ UNCHANGED snowmanVars
      /\ \/ acceptorDone' = acceptorDone
         \/ acceptorDone' = acceptorDone \cup {PolledPreference(p)} /\
            PolledPreference(p) \in blocks[p].children
  BY Zenon DEF AcceptorFails, BlockAcceptFails
<1>3. /\ Pending' = Pending /\ ChildrenInv'
      /\ \A b \in Pending' : IsNode(blocks'[b])
  BY <1>1, <1>2, RecordedTree, Zenon
<1>4. acceptorDone \subseteq acceptorDone' /\ acceptorDone' \subseteq Blocks
  BY ZenonT(20), <1>1, <1>2 DEF TypeOK, IsNode
<1>5. TypeOK'
  BY <1>1, <1>2, <1>3, <1>4, AbandonType, Zenon DEF TypeOK, snowmanVars
<1>6. AcceptedChain' /\ RejectedInv' /\ DecidedOnce'
  BY <1>2, NoDecision, Zenon
<1>7. WorklistInv' /\ AcceptorBeforeAccept'
  BY <1>2, <1>4, Zenon DEF SafetyInv, WorklistInv, AcceptorBeforeAccept, Abandon,
                           snowmanVars
<1>8. QED BY <1>3, <1>5, <1>6, <1>7, Zenon DEF SafetyInv

\* A failure after the preferred child was accepted.
LEMMA SiblingRejectFailsSafety ==
    ASSUME SafetyInv, NEW p \in Blocks, SiblingRejectFails(p)
    PROVE  SafetyInv' /\ PolledPreference(p) \notin accepted \cup rejected
<1> DEFINE c == PolledPreference(p)
<1>1. TypeOK /\ ChildrenInv /\ p \in Pending /\ p = lastAccepted /\ c \in blocks[p].children
  BY Zenon DEF SafetyInv, SiblingRejectFails, Finalizes
<1>2. PICK told \in SUBSET Siblings(p, c) : rejected' = rejected \cup told
  BY Zenon DEF SiblingRejectFails
<1>3. /\ lastAccepted' = c /\ accepted' = accepted \cup {c}
      /\ acceptorDone' = acceptorDone \cup {c}
      /\ blocks' = Recorded(p) /\ Abandon
  BY Zenon DEF SiblingRejectFails
<1>4. /\ c \in Blocks \ {Genesis} /\ Parent[c] = lastAccepted
      /\ told \in SUBSET (Blocks \ {Genesis})
      /\ \A s \in told : s # c /\ Parent[s] = lastAccepted
  BY <1>1, <1>2, DecidedChild, Zenon
<1> HIDE DEF c
<1>5. /\ AcceptedChain' /\ RejectedInv' /\ DecidedOnce'
      /\ c \notin accepted \cup rejected
  BY <1>2, <1>3, <1>4, AcceptKeepsChain, Zenon
<1>6. /\ Pending' = Pending /\ ChildrenInv'
      /\ \A b \in Pending' : IsNode(blocks'[b])
  BY <1>1, <1>3, RecordedTree, Zenon
<1>7. TypeOK'
  BY <1>1, <1>2, <1>3, <1>4, <1>6, AbandonType, Zenon DEF TypeOK
<1>8. WorklistInv' /\ AcceptorBeforeAccept'
  BY <1>1, <1>3, Zenon DEF SafetyInv, WorklistInv, AcceptorBeforeAccept, Abandon
<1>9. QED BY <1>5, <1>6, <1>7, <1>8, Zenon DEF SafetyInv, c

LEMMA ChildRejectFailsSafety ==
    ASSUME SafetyInv, NEW r \in Blocks, ChildRejectFails(r)
    PROVE  SafetyInv'
<1>1. TypeOK /\ ChildrenInv /\ r \in rejected /\ r \in Pending
  BY Zenon DEF SafetyInv, ChildRejectFails, WorklistInv
<1>2. PICK told \in SUBSET blocks[r].children : rejected' = rejected \cup told
  BY Zenon DEF ChildRejectFails
<1>3. /\ blocks' = Restrict(blocks, Pending \ {r}) /\ Abandon
      /\ UNCHANGED <<lastAccepted, accepted, acceptorDone>>
  BY Zenon DEF ChildRejectFails
<1>4. told \in SUBSET (Blocks \ {Genesis}) /\ \A s \in told : Parent[s] \in rejected
  BY ZenonT(20), <1>1, <1>2 DEF TypeOK, IsNode, ChildrenInv
<1>5. AcceptedChain' /\ RejectedInv' /\ DecidedOnce'
  BY <1>2, <1>3, <1>4, RejectKeepsChain, Zenon
<1>6. /\ ChildrenInv' /\ Pending' \subseteq Blocks
      /\ \A b \in Pending' : IsNode(blocks'[b])
  BY ZenonT(20), <1>1, <1>3, RestrictedNodes
<1>7. TypeOK'
  <2>1. rejected' \subseteq Blocks
    BY <1>1, <1>2, <1>4, Zenon DEF TypeOK
  <2>2. /\ lastAccepted' \in Blocks /\ accepted' \subseteq Blocks
        /\ acceptorDone' \subseteq Blocks
    BY <1>1, <1>3, Zenon DEF TypeOK
  <2>3. QED BY <1>1, <1>3, <1>6, <2>1, <2>2, AbandonType, Zenon DEF TypeOK
<1>8. WorklistInv' /\ AcceptorBeforeAccept'
  BY <1>3, Zenon DEF SafetyInv, WorklistInv, AcceptorBeforeAccept, Abandon
<1>9. QED BY <1>5, <1>6, <1>7, <1>8, Zenon DEF SafetyInv

LEMMA StutterSafety ==
    ASSUME SafetyInv, UNCHANGED vars
    PROVE  SafetyInv'
BY Zenon DEF SafetyInv, TypeOK, IsVoteStack, ChildrenInv, AcceptedChain,
             RejectedInv, DecidedOnce,
       WorklistInv, AcceptorBeforeAccept, Pending, IsNode,
       vars, snowmanVars, consensusVars, pollVars

LEMMA NextSafety == SafetyInv /\ [Next]_vars => SafetyInv'
BY AddSafety, RecordPollSafety, VoteStepSafety, AcceptSafety, RejectStepSafety,
   RemoveOldParentSafety, FinishPollSafety, AcceptFailureSafety,
   SiblingRejectFailsSafety, ChildRejectFailsSafety, StutterSafety, Zenon DEF Next

-----------------------------------------------------------------------------
(* The theorems.                                                           *)

\* The inductive invariant holds in every reachable state.
THEOREM SafetyInvariant == Spec => []SafetyInv
<1>1. QED BY InitSafety, NextSafety, PTL DEF Spec

\* Every variable that decisions depend on keeps its type.
THEOREM TypeCorrect == Spec => []TypeOK
<1>1. SafetyInv => TypeOK
  BY Zenon DEF SafetyInv
<1>2. QED BY <1>1, SafetyInvariant, PTL

\* The blocks Topological accepts are one chain, one block per height, for
\* any snowball instance and even when calls out of it fail half-way.
THEOREM OneChain == Spec => []AcceptedChain
<1>1. SafetyInv => AcceptedChain
  BY Zenon DEF SafetyInv
<1>2. QED BY <1>1, SafetyInvariant, PTL

\* No block is told both to accept and to reject.
THEOREM NeverBoth == Spec => []DecidedOnce
<1>1. SafetyInv => DecidedOnce
  BY Zenon DEF SafetyInv
<1>2. QED BY <1>1, SafetyInvariant, PTL

\* A block is accepted only after the block acceptor has taken it.
THEOREM AcceptorFirst == Spec => []AcceptorBeforeAccept
<1>1. SafetyInv => AcceptorBeforeAccept
  BY Zenon DEF SafetyInv
<1>2. QED BY <1>1, SafetyInvariant, PTL

-----------------------------------------------------------------------------
(* Topological implements Snowman.                                         *)

\* The steps that decide nothing leave the variables of Snowman alone.
Deciding ==
    \/ \E p \in Blocks : AcceptPreferredChild(p) \/ SiblingRejectFails(p)
    \/ \E r \in Blocks : RejectStep(r) \/ ChildRejectFails(r)

LEMMA OtherStepsStutter ==
    [Next]_vars => Deciding \/ UNCHANGED snowmanVars
<1> SUFFICES ASSUME [Next]_vars PROVE Deciding \/ UNCHANGED snowmanVars
  BY Zenon
<1>1. CASE UNCHANGED vars
  BY <1>1, Zenon DEF vars
<1>2. ASSUME NEW b \in Blocks, Add(b) PROVE UNCHANGED snowmanVars
  BY <1>2, Zenon DEF Add
<1>3. ASSUME NEW votes, RecordPoll(votes) PROVE UNCHANGED snowmanVars
  BY <1>3, Zenon DEF RecordPoll
<1>4. ASSUME NEW p, VoteStep(p) PROVE UNCHANGED snowmanVars
  BY <1>4, Zenon DEF VoteStep
<1>5. CASE RemoveOldParent
  BY <1>5, Zenon DEF RemoveOldParent
<1>6. CASE FinishPoll
  BY <1>6, Zenon DEF FinishPoll
<1>7. ASSUME NEW p, AcceptorFails(p) \/ BlockAcceptFails(p) PROVE UNCHANGED snowmanVars
  BY <1>7, Zenon DEF AcceptorFails, BlockAcceptFails
<1>8. QED BY <1>1, <1>2, <1>3, <1>4, <1>5, <1>6, <1>7, Zenon DEF Next, Deciding

\* Accepting c and rejecting some siblings of it is an Accept step of Snowman.
LEMMA AcceptRefines ==
    ASSUME SafetyInv, SafetyInv',
           NEW p \in Blocks, AcceptPreferredChild(p) \/ SiblingRejectFails(p)
    PROVE  SnowmanNext
<1> DEFINE c == PolledPreference(p)
<1>1. c \notin accepted \cup rejected
  BY AcceptSafety, SiblingRejectFailsSafety, Zenon
<1>2. /\ p \in Pending /\ p = lastAccepted /\ c \in blocks[p].children
      /\ lastAccepted' = c /\ accepted' = accepted \cup {c}
  BY Zenon DEF AcceptPreferredChild, SiblingRejectFails, Finalizes
<1>3. PICK told \in SUBSET Siblings(p, c) : rejected' = rejected \cup told
  BY Zenon DEF AcceptPreferredChild, SiblingRejectFails
<1>4. /\ c \in Blocks \ {Genesis} /\ Parent[c] = lastAccepted
      /\ \A s \in told : s # Genesis /\ s # c /\ Parent[s] = lastAccepted
  BY <1>2, <1>3, DecidedChild, Zenon
<1> HIDE DEF c
<1>5. \A b \in rejected' \ rejected : Conflicts(b, accepted', rejected)
  BY <1>2, <1>3, <1>4, Zenon DEF Conflicts
<1>6. rejected' \cap accepted' = {}
  BY Zenon DEF SafetyInv, DecidedOnce
<1>7. Accept(c)
  BY <1>1, <1>2, <1>3, <1>4, <1>5, <1>6, Zenon DEF Accept
<1>8. QED BY <1>4, <1>7, Zenon DEF SnowmanNext

\* A turn of reject_transitively is a Reject step of Snowman.
LEMMA RejectRefines ==
    ASSUME SafetyInv, SafetyInv', NEW r \in Blocks, RejectStep(r) \/ ChildRejectFails(r)
    PROVE  SnowmanNext
<1>1. r \in rejected
  BY Zenon DEF SafetyInv, WorklistInv, RejectStep, ChildRejectFails
<1>2. PICK told : /\ rejected' = rejected \cup told
                  /\ \A s \in told : r \in Pending /\ s \in blocks[r].children
  <2>1. CASE RejectStep(r)
    <3> DEFINE S == IF r \in Pending THEN blocks[r].children ELSE {}
    <3>1. rejected' = rejected \cup S
      BY <2>1, Zenon DEF RejectStep
    <3>2. \A s \in S : r \in Pending /\ s \in blocks[r].children
      BY Zenon
    <3> HIDE DEF S
    <3>3. QED BY <3>1, <3>2, Zenon
  <2>2. CASE ChildRejectFails(r)
    BY <2>2, Zenon DEF ChildRejectFails
  <2>3. QED BY <2>1, <2>2, Zenon
<1>3. \A b \in rejected' \ rejected : Conflicts(b, accepted, rejected)
  BY <1>1, <1>2, Zenon DEF SafetyInv, ChildrenInv, Conflicts
<1>4. UNCHANGED <<lastAccepted, accepted>>
  BY Zenon DEF RejectStep, ChildRejectFails
<1>5. rejected' \cap accepted = {} /\ rejected' \in SUBSET Blocks
  BY <1>4, Zenon DEF SafetyInv, DecidedOnce, TypeOK
<1>6. Reject
  BY <1>2, <1>3, <1>4, <1>5, Zenon DEF Reject
<1>7. QED BY <1>6, Zenon DEF SnowmanNext

\* Topological is an implementation of Snowman.
THEOREM Refinement == Spec => ImplementsSnowman
<1>1. Init => SnowmanInit
  BY Zenon DEF Init
<1>2. SafetyInv /\ SafetyInv' /\ [Next]_vars => [SnowmanNext]_snowmanVars
  BY OtherStepsStutter, AcceptRefines, RejectRefines, Zenon DEF Deciding
<1>3. QED BY <1>1, <1>2, SafetyInvariant, PTL
             DEF Spec, SnowmanSpec, ImplementsSnowman

-----------------------------------------------------------------------------
(* No block is forgotten.                                                  *)

\* A block leaves the tree only by being decided.
THEOREM NothingForgotten == Spec => NoBlockForgotten
<1>1. SafetyInv /\ SafetyInv' /\ [Next]_vars =>
        [Pending \ Pending' \subseteq accepted' \cup rejected']_vars
  <2> SUFFICES ASSUME SafetyInv, SafetyInv', Next
               PROVE  Pending \ Pending' \subseteq accepted' \cup rejected'
    BY Zenon
  <2>1. TypeOK /\ ChildrenInv
    BY Zenon DEF SafetyInv
  <2>2. ASSUME NEW b \in Blocks, Add(b) PROVE Pending \subseteq Pending'
    BY <2>2, Zenon DEF Add, Put, Pending
  <2>3. ASSUME NEW votes, RecordPoll(votes) PROVE Pending \subseteq Pending'
    BY <2>3, Zenon DEF RecordPoll, Pending
  <2>4. ASSUME NEW p, VoteStep(p) PROVE Pending \subseteq Pending'
    BY <2>4, Zenon DEF VoteStep, Pending
  <2>5. ASSUME NEW p, p \in Pending, blocks' = Recorded(p) PROVE Pending \subseteq Pending'
    BY <2>1, <2>5, RecordedTree, Zenon
  <2>6. ASSUME NEW p, AcceptPreferredChild(p) \/ AcceptorFails(p)
                        \/ BlockAcceptFails(p) \/ SiblingRejectFails(p)
        PROVE Pending \subseteq Pending'
    BY <2>5, <2>6, Zenon DEF AcceptPreferredChild, AcceptorFails, BlockAcceptFails,
                             SiblingRejectFails
  <2>7. ASSUME NEW r, RejectStep(r) \/ ChildRejectFails(r)
        PROVE Pending \ Pending' \subseteq rejected'
    <3>1. r \in worklist /\ r \in rejected /\ blocks' = Restrict(blocks, Pending \ {r})
      BY <2>7, Zenon DEF RejectStep, ChildRejectFails, SafetyInv, WorklistInv
    <3>2. Pending' = Pending \ {r}
      BY ZenonT(20), <2>1, <3>1, RestrictedNodes
    <3>3. rejected \subseteq rejected'
      BY <2>7, Zenon DEF RejectStep, ChildRejectFails
    <3>4. QED BY <3>1, <3>2, <3>3, Zenon
  <2>8. CASE RemoveOldParent
    <3>1. /\ oldParent \in accepted /\ blocks' = Restrict(blocks, Pending \ {oldParent})
          /\ accepted' = accepted
      BY <2>8, Zenon DEF RemoveOldParent, SafetyInv, WorklistInv, snowmanVars
    <3>2. Pending' = Pending \ {oldParent}
      BY ZenonT(20), <2>1, <3>1, RestrictedNodes
    <3>3. QED BY <3>1, <3>2, Zenon
  <2>9. CASE FinishPoll
    BY <2>9, Zenon DEF FinishPoll, Pending
  <2>10. QED BY <2>2, <2>3, <2>4, <2>6, <2>7, <2>8, <2>9, Zenon DEF Next
<1>2. QED BY <1>1, SafetyInvariant, PTL DEF Spec, NoBlockForgotten

-----------------------------------------------------------------------------
(* Rejection is complete: between polls the tree holds the last accepted   *)
(* block and undecided descendants of it only, while no call has failed.   *)
(* The invariant has to describe the tree in the middle of a rejection     *)
(* too, when it is neither what it was nor what it will be.                *)

\* While no call has failed, the tree is the last accepted block and what
\* descends from it; during a rejection, also the old parent, and the blocks
\* below rejected ones wait in the worklist.
Root == IF pc = "reject" THEN oldParent ELSE lastAccepted

TreeShape ==
    /\ lastAccepted \in Pending /\ Root \in Pending
    /\ pc # "reject" => worklist = {}
    /\ pc = "reject" =>
          /\ lastAccepted # Genesis /\ Parent[lastAccepted] = oldParent
          /\ blocks[oldParent].children \ {lastAccepted} \subseteq rejected
    /\ \A b \in Pending \ {Root} :
          b # Genesis /\ (Parent[b] \in Pending \/ b \in worklist)
    /\ \A w \in worklist : Parent[w] \notin Pending \/ Parent[w] = oldParent
    /\ \A b \in Pending : blocks[b].children \subseteq Pending \/ (pc = "reject" /\ b = oldParent)
    /\ \A c \in Pending \ {Genesis} : Parent[c] \in Pending => c \in blocks[Parent[c]].children
    /\ Pending \cap rejected \subseteq worklist
    /\ Pending \cap accepted \subseteq {lastAccepted, Root}

TreeInv == failures = 0 => TreeShape

LEMMA InitTree == Init => TreeInv
<1> SUFFICES ASSUME Init PROVE TreeShape
  BY Zenon DEF TreeInv
<1>1. Pending = {Genesis} /\ blocks[Genesis].children = {}
  BY Zenon DEF Init, Pending, NewNode
<1>2. QED BY <1>1, Zenon DEF Init, SnowmanInit, TreeShape, Root

\* Steps that keep the decisions and the shape of the tree.
LEMMA SameTree ==
    ASSUME TreeShape, UNCHANGED <<snowmanVars, oldParent, worklist>>,
           pc # "reject", pc' # "reject",
           Pending' = Pending,
           \A b \in Pending : blocks'[b].children = blocks[b].children
    PROVE  TreeShape'
BY Zenon DEF TreeShape, Root, snowmanVars

LEMMA AddTree ==
    ASSUME SafetyInv, TreeShape, NEW b \in Blocks, Add(b)
    PROVE  TreeShape'
<1> DEFINE par == Parent[b]
<1>1. /\ b # Genesis /\ par \in Pending /\ b \notin Pending /\ pc = "idle"
      /\ UNCHANGED <<lastAccepted, accepted, rejected, worklist, oldParent, pc>>
      /\ ~(Height[b] <= Height[lastAccepted])
      /\ blocks' = Put([blocks EXCEPT ![par] = AddChild(@, b)], b, NewNode)
  BY Zenon DEF Add, snowmanVars, pollVars, Decided
<1>2. IsNode(blocks[par])
  BY <1>1, Zenon DEF SafetyInv, TypeOK
<1>3. /\ Pending' = Pending \cup {b}
      /\ blocks'[b] = NewNode
      /\ \A x \in Pending : blocks'[x] = IF x = par THEN AddChild(blocks[par], b) ELSE blocks[x]
  BY <1>1, Zenon DEF Pending, Put
<1>4. AddChild(blocks[par], b).children = blocks[par].children \cup {b}
  <2> DEFINE sb2 == IF blocks[par].sb = NoTree THEN SbNew(b) ELSE SbAdd(blocks[par].sb, b)
  <2>1. AddChild(blocks[par], b) =
          [blocks[par] EXCEPT !.sb = sb2, !.children = blocks[par].children \cup {b}]
    BY Zenon DEF AddChild
  <2> HIDE DEF sb2
  <2>2. QED BY <1>2, <2>1, Zenon DEF IsNode
<1>5. /\ blocks'[b].children = {}
      /\ \A x \in Pending : blocks'[x].children =
                              IF x = par THEN blocks[x].children \cup {b} ELSE blocks[x].children
  BY <1>3, <1>4 DEF NewNode
<1>6. b \notin accepted /\ b \notin rejected
  BY <1>1, Zenon DEF SafetyInv, AcceptedChain, RejectedInv, TreeShape
<1>7. \A c \in Pending \ {Genesis} : Parent[c] # b
  <2> SUFFICES ASSUME NEW c \in Pending \ {Genesis}, Parent[c] = b PROVE FALSE
    BY Zenon
  <2>1. c = lastAccepted
    BY <1>1, Zenon DEF TreeShape, Root
  <2>2. Height[lastAccepted] = Height[b] + 1 /\ Height[b] \in Nat
    BY <2>1, BlockTreeAssumption, Zenon DEF SafetyInv, TypeOK
  <2>3. ~(Height[b] <= Height[lastAccepted])
    BY <1>1, Zenon
  <2>4. QED BY <2>2, <2>3
<1> HIDE DEF par
<1>8. /\ Root' = Root /\ Root = lastAccepted /\ worklist = {} /\ pc' # "reject"
      /\ par = Parent[b]
  BY <1>1, Zenon DEF Root, TreeShape, par
<1>9. lastAccepted' \in Pending' /\ Root' \in Pending' /\ worklist' = {}
  BY <1>1, <1>3, <1>8, Zenon DEF TreeShape
<1>10. \A x \in Pending' \ {Root'} : x # Genesis /\ Parent[x] \in Pending'
  BY <1>1, <1>3, <1>8, Zenon DEF TreeShape
<1>11. \A x \in Pending' : blocks'[x].children \subseteq Pending'
  <2> SUFFICES ASSUME NEW x \in Pending' PROVE blocks'[x].children \subseteq Pending'
    BY Zenon
  <2>1. CASE x = b
    BY <1>5, <2>1, Zenon
  <2>2. CASE x # b
    <3>1. x \in Pending /\ blocks[x].children \subseteq Pending
      BY <1>1, <1>3, <2>2, Zenon DEF TreeShape
    <3>2. blocks'[x].children \subseteq blocks[x].children \cup {b}
      BY ZenonT(20), <1>5, <3>1
    <3>3. QED BY <1>3, <3>1, <3>2, Zenon
  <2>3. QED BY <2>1, <2>2, Zenon
<1>12. \A c \in Pending' \ {Genesis} : Parent[c] \in Pending' => c \in blocks'[Parent[c]].children
  <2> SUFFICES ASSUME NEW c \in Pending' \ {Genesis}, Parent[c] \in Pending'
               PROVE  c \in blocks'[Parent[c]].children
    BY Zenon
  <2>1. CASE c = b
    BY ZenonT(20), <1>1, <1>5, <1>8, <2>1
  <2>2. CASE c # b
    <3>1. c \in Pending \ {Genesis} /\ Parent[c] \in Pending
      BY <1>3, <1>7, <2>2, Zenon
    <3>2. c \in blocks[Parent[c]].children
      BY <3>1, Zenon DEF TreeShape
    <3>3. blocks[Parent[c]].children \subseteq blocks'[Parent[c]].children
      BY ZenonT(20), <1>5, <3>1
    <3>4. QED BY <3>2, <3>3, Zenon
  <2>3. QED BY <2>1, <2>2, Zenon
<1>13. Pending' \cap rejected' \subseteq worklist' /\ Pending' \cap accepted' \subseteq {lastAccepted', Root'}
  BY <1>1, <1>3, <1>6, <1>8 DEF TreeShape
<1>14. QED BY <1>8, <1>9, <1>10, <1>11, <1>12, <1>13, Zenon DEF TreeShape

LEMMA AcceptTree ==
    ASSUME SafetyInv, TreeShape, NEW p \in Blocks, AcceptPreferredChild(p)
    PROVE  TreeShape'
<1> DEFINE c == PolledPreference(p)
           S == Siblings(p, c)
<1>1. /\ p \in Pending /\ p = lastAccepted /\ c \in blocks[p].children /\ pc = "vote"
      /\ lastAccepted' = c /\ accepted' = accepted \cup {c}
      /\ rejected' = rejected \cup S /\ worklist' = S /\ oldParent' = p
      /\ pc' = "reject" /\ blocks' = Recorded(p)
      /\ S = blocks[p].children \ {c}
  BY Zenon DEF AcceptPreferredChild, Finalizes, Siblings
<1>2. /\ c \in Blocks \ {Genesis} /\ Parent[c] = lastAccepted
      /\ S \in SUBSET (Blocks \ {Genesis})
      /\ \A s \in S : s # c /\ Parent[s] = lastAccepted
  BY <1>1, DecidedChild, Zenon
<1>3. /\ Pending' = Pending
      /\ \A b \in Pending : blocks'[b].children = blocks[b].children
  BY <1>1, RecordedNode, Zenon DEF SafetyInv, Pending
<1> HIDE DEF c, S
<1>4. Root = p /\ Root' = p /\ worklist = {}
  BY <1>1, Zenon DEF Root, TreeShape
<1>5. c \in Pending /\ S \subseteq Pending
  BY <1>1, <1>4, Zenon DEF TreeShape
<1>6. QED BY <1>1, <1>2, <1>3, <1>4, <1>5, Zenon DEF TreeShape

LEMMA RejectTree ==
    ASSUME SafetyInv, TreeShape, NEW r \in Blocks, RejectStep(r)
    PROVE  TreeShape'
<1> DEFINE S == IF r \in Pending THEN blocks[r].children ELSE {}
<1>1. /\ pc = "reject" /\ r \in worklist /\ r \in rejected
      /\ rejected' = rejected \cup S /\ worklist' = (worklist \ {r}) \cup S
      /\ blocks' = Restrict(blocks, Pending \ {r})
      /\ UNCHANGED <<lastAccepted, accepted, pc, oldParent>>
  BY Zenon DEF RejectStep, SafetyInv, WorklistInv
<1>2. /\ Pending' = Pending \ {r}
      /\ \A b \in Pending \ {r} : blocks'[b] = blocks[b]
  BY <1>1, Zenon DEF Pending, Restrict
<1>3. /\ \A s \in S : s # Genesis /\ Parent[s] = r
      /\ r \in Pending => S = blocks[r].children
  BY Zenon DEF SafetyInv, ChildrenInv
<1>4. r # lastAccepted /\ r # oldParent
  BY <1>1, Zenon DEF SafetyInv, DecidedOnce, AcceptedChain, WorklistInv
<1>5. Root = oldParent /\ Root' = oldParent
  BY <1>1, Zenon DEF Root
<1> HIDE DEF S
<1>6. lastAccepted' \in Pending' /\ Root' \in Pending'
  BY <1>1, <1>2, <1>4, <1>5, Zenon DEF TreeShape
<1>7. blocks'[oldParent].children \ {lastAccepted} \subseteq rejected'
  BY ZenonT(20), <1>1, <1>2, <1>4, <1>5 DEF TreeShape
<1>8. \A b \in Pending' \ {Root'} : b # Genesis /\ (Parent[b] \in Pending' \/ b \in worklist')
  <2> SUFFICES ASSUME NEW b \in Pending' \ {Root'}
               PROVE  b # Genesis /\ (Parent[b] \in Pending' \/ b \in worklist')
    BY Zenon
  <2>1. b \in Pending \ {Root} /\ b # r
    BY <1>2, <1>5, Zenon
  <2>2. b # Genesis /\ (Parent[b] \in Pending \/ b \in worklist)
    BY <2>1, Zenon DEF TreeShape
  <2>3. CASE Parent[b] = r /\ r \in Pending
    BY <1>1, <1>3, <2>1, <2>2, <2>3, Zenon DEF TreeShape
  <2>4. CASE Parent[b] # r \/ r \notin Pending
    BY <1>1, <1>2, <2>1, <2>2, <2>4, Zenon
  <2>5. QED BY <2>3, <2>4, Zenon
<1>9. \A w \in worklist' : Parent[w] \notin Pending' \/ Parent[w] = oldParent'
  BY <1>1, <1>2, <1>3, Zenon DEF TreeShape
<1>10. \A b \in Pending' : blocks'[b].children \subseteq Pending' \/ (pc' = "reject" /\ b = oldParent')
  <2> SUFFICES ASSUME NEW b \in Pending', b # oldParent
               PROVE  blocks'[b].children \subseteq Pending'
    BY <1>1, Zenon
  <2>1. b \in Pending /\ blocks'[b] = blocks[b] /\ blocks[b].children \subseteq Pending
    BY <1>2, Zenon DEF TreeShape
  <2>2. r \notin blocks[b].children
    BY <1>1, <2>1 DEF SafetyInv, ChildrenInv, TreeShape
  <2>3. QED BY <1>2, <2>1, <2>2, Zenon
<1>11. \A x \in Pending' \ {Genesis} : Parent[x] \in Pending' => x \in blocks'[Parent[x]].children
  BY <1>2, Zenon DEF TreeShape
<1>12. Pending' \cap rejected' \subseteq worklist' /\ Pending' \cap accepted' \subseteq {lastAccepted', Root'}
  BY <1>1, <1>2, <1>5, Zenon DEF TreeShape
<1>13. lastAccepted # Genesis /\ Parent[lastAccepted] = oldParent
  BY <1>1, Zenon DEF TreeShape
<1>14. QED
  BY <1>1, <1>6, <1>7, <1>8, <1>9, <1>10, <1>11, <1>12, <1>13, Zenon DEF TreeShape

LEMMA RemoveOldParentTree ==
    ASSUME SafetyInv, TreeShape, RemoveOldParent
    PROVE  TreeShape'
<1>1. /\ pc = "reject" /\ pc' = "vote" /\ worklist = {}
      /\ blocks' = Restrict(blocks, Pending \ {oldParent})
      /\ UNCHANGED <<lastAccepted, accepted, rejected, worklist, oldParent>>
  BY Zenon DEF RemoveOldParent, snowmanVars
<1>2. /\ Pending' = Pending \ {oldParent}
      /\ \A b \in Pending \ {oldParent} : blocks'[b] = blocks[b]
  BY <1>1, Zenon DEF Pending, Restrict
<1>3. /\ lastAccepted \in Pending /\ lastAccepted # Genesis
      /\ Parent[lastAccepted] = oldParent /\ oldParent \in Pending
  BY <1>1, Zenon DEF TreeShape, Root
<1>4. lastAccepted # oldParent
  BY <1>3, BlockTreeAssumption DEF SafetyInv, TypeOK
<1>5. Root = oldParent /\ Root' = lastAccepted
  BY <1>1, Zenon DEF Root
<1>6. \A b \in Pending' \ {lastAccepted} : b # Genesis /\ Parent[b] \in Pending'
  <2> SUFFICES ASSUME NEW b \in Pending' \ {lastAccepted}
               PROVE  b # Genesis /\ Parent[b] \in Pending'
    BY Zenon
  <2>1. b \in Pending \ {Root} /\ b # Genesis /\ Parent[b] \in Pending
    BY <1>1, <1>2, <1>5, Zenon DEF TreeShape
  <2>2. b \notin rejected
    BY <1>1, <2>1, Zenon DEF TreeShape
  <2>3. Parent[b] # oldParent
    BY <1>1, <2>1, <2>2, Zenon DEF TreeShape
  <2>4. QED BY <1>2, <2>1, <2>3, Zenon
<1>7. \A b \in Pending' : blocks'[b].children \subseteq Pending'
  <2> SUFFICES ASSUME NEW b \in Pending' PROVE blocks'[b].children \subseteq Pending'
    BY Zenon
  <2>1. b \in Pending /\ blocks'[b] = blocks[b] /\ blocks[b].children \subseteq Pending
    BY <1>2, Zenon DEF TreeShape
  <2>2. oldParent \notin blocks[b].children
    <3> SUFFICES ASSUME oldParent \in blocks[b].children PROVE FALSE
      BY Zenon
    <3>1. oldParent # Genesis /\ Parent[oldParent] = b /\ b \in Blocks /\ oldParent \in Blocks
      BY <2>1, Zenon DEF SafetyInv, ChildrenInv, TypeOK
    <3>2. b \in accepted
      BY <3>1, Zenon DEF SafetyInv, AcceptedChain, WorklistInv
    <3>3. b = lastAccepted
      BY <1>2, <1>5, <2>1, <3>2, Zenon DEF TreeShape
    <3>4. /\ Height[oldParent] = Height[lastAccepted] + 1
          /\ Height[lastAccepted] = Height[oldParent] + 1
          /\ Height[oldParent] \in Nat
      BY <1>3, <3>1, <3>3, BlockTreeAssumption, Zenon
    <3>5. QED BY <3>4
  <2>3. QED BY <1>2, <2>1, <2>2, Zenon
<1>8. \A x \in Pending' \ {Genesis} : Parent[x] \in Pending' => x \in blocks'[Parent[x]].children
  BY <1>2, Zenon DEF TreeShape
<1>9. Pending' \cap rejected' = {} /\ Pending' \cap accepted' \subseteq {lastAccepted}
  BY <1>1, <1>2, <1>5, Zenon DEF TreeShape
<1>10. lastAccepted' \in Pending' /\ Root' \in Pending'
  BY <1>1, <1>2, <1>3, <1>4, <1>5, Zenon
<1>11. QED
  BY ZenonT(20), <1>1, <1>5, <1>6, <1>7, <1>8, <1>9, <1>10 DEF TreeShape

LEMMA NextTree == SafetyInv /\ TreeInv /\ [Next]_vars => TreeInv'
<1> SUFFICES ASSUME SafetyInv, TreeInv, [Next]_vars, failures' = 0 PROVE TreeShape'
  BY Zenon DEF TreeInv
<1>1. failures \in Nat /\ TypeOK
  BY Zenon DEF SafetyInv, TypeOK
<1>2. ~Abandon
  BY <1>1 DEF Abandon
<1>3. CASE UNCHANGED vars
  <2>1. TreeShape
    BY <1>3, Zenon DEF TreeInv, vars
  <2>2. QED BY <1>3, <2>1, Zenon DEF TreeShape, Root, Pending, vars, snowmanVars,
                                     consensusVars, pollVars
<1>4. CASE Next
  <2>1. ASSUME NEW b \in Blocks, Add(b) PROVE TreeShape'
    BY <2>1, AddTree, Zenon DEF TreeInv, Add
  <2>2. ASSUME NEW votes, RecordPoll(votes) PROVE TreeShape'
    <3>1. /\ Pending' = Pending
          /\ \A b \in Pending : blocks'[b].children = blocks[b].children
      <4>1. CASE blocks' = blocks
        BY <4>1, Zenon DEF Pending
      <4>2. CASE blocks' = [blocks EXCEPT ![lastAccepted].shouldFalter = TRUE]
        <5>1. Pending' = Pending
          BY <4>2, Zenon DEF Pending
        <5>2. ASSUME NEW b \in Pending PROVE blocks'[b].children = blocks[b].children
          <6>1. IsNode(blocks[b])
            BY <1>1, Zenon DEF TypeOK
          <6>2. \/ blocks'[b] = blocks[b]
                \/ blocks'[b] = [blocks[b] EXCEPT !.shouldFalter = TRUE]
            BY ZenonT(20), <4>2 DEF Pending
          <6>3. QED BY <6>1, <6>2, Zenon DEF IsNode
        <5>3. QED BY <5>1, <5>2, Zenon
      <4>3. QED BY <2>2, <4>1, <4>2, Zenon DEF RecordPoll
    <3>2. QED BY <2>2, <3>1, SameTree, Zenon DEF TreeInv, RecordPoll
  <2>3. ASSUME NEW p \in Blocks, VoteStep(p) PROVE TreeShape'
    <3> DEFINE rec == Recorded(p)
               falters(b) == b \in {c \in blocks[p].children :
                                        blocks[p].shouldFalter \/ c # NextId(p)}
    <3>1. blocks' = [b \in Pending |-> [rec[b] EXCEPT !.shouldFalter = @ \/ falters(b)]]
      BY <2>3, Zenon DEF VoteStep
    <3>2. \A b \in Pending : IsNode(rec[b]) /\ rec[b].children = blocks[b].children
      BY <1>1, <2>3, RecordedNode, Zenon DEF VoteStep
    <3> HIDE DEF rec, falters
    <3>3. ASSUME NEW b \in Pending PROVE blocks'[b].children = blocks[b].children
      <4> DEFINE f == rec[b].shouldFalter \/ falters(b)
      <4>1. blocks'[b] = [rec[b] EXCEPT !.shouldFalter = f]
        BY <3>1, Zenon
      <4> HIDE DEF f
      <4>2. QED BY ZenonT(20), <3>2, <4>1 DEF IsNode
    <3>4. Pending' = Pending
      BY <3>1, Zenon DEF Pending
    <3>5. QED BY <2>3, <3>3, <3>4, SameTree, Zenon DEF TreeInv, VoteStep
  <2>4. ASSUME NEW p \in Blocks, AcceptPreferredChild(p) PROVE TreeShape'
    BY <2>4, AcceptTree, Zenon DEF TreeInv, AcceptPreferredChild
  <2>5. ASSUME NEW r \in Blocks, RejectStep(r) PROVE TreeShape'
    BY <2>5, RejectTree, Zenon DEF TreeInv, RejectStep
  <2>6. CASE RemoveOldParent
    BY <2>6, RemoveOldParentTree, Zenon DEF TreeInv, RemoveOldParent
  <2>7. CASE FinishPoll
    BY <2>7, SameTree, Zenon DEF TreeInv, FinishPoll, Pending
  <2>8. QED
    BY <1>2, <1>4, <2>1, <2>2, <2>3, <2>4, <2>5, <2>6, <2>7, Zenon
    DEF Next, AcceptorFails, BlockAcceptFails, SiblingRejectFails, ChildRejectFails
<1>5. QED BY <1>3, <1>4, Zenon

\* Between polls the tree holds the last accepted block and its undecided
\* descendants, as long as no call has failed: rejection reaches every leaf of
\* every conflicting branch.
THEOREM RejectionComplete == Spec => []TreeIsUndecided
<1>1. SafetyInv /\ TreeInv => TreeIsUndecided
  <2> SUFFICES ASSUME SafetyInv, TreeShape, pc = "idle" PROVE TreeIsUndecided
    BY Zenon DEF TreeInv, TreeIsUndecided
  <2>1. Root = lastAccepted /\ worklist = {}
    BY Zenon DEF Root, TreeShape
  <2>2. Pending \cap (accepted \cup rejected) = {lastAccepted}
    BY <2>1 DEF TreeShape, SafetyInv, AcceptedChain
  <2>3. \A b \in Pending \ {lastAccepted} : Parent[b] \in Pending
    BY <2>1, Zenon DEF TreeShape
  <2>4. \A b \in Pending : blocks[b].children = {c \in Pending \ {Genesis} : Parent[c] = b}
    BY DEF TreeShape, SafetyInv, ChildrenInv
  <2>5. QED BY <2>2, <2>3, <2>4, Zenon DEF TreeIsUndecided
<1>2. QED BY <1>1, InitTree, NextTree, SafetyInvariant, PTL DEF Spec

-----------------------------------------------------------------------------
(* Polls.                                                                  *)

INSTANCE FiniteSetTheorems

\* Every id is settled.
Settled(poll) == \A i \in Ids : ShouldTerminate(Count(poll, i), Remaining(poll))

\* The inductive invariant: a cached `finished` is still justified.
SettledInv == \A r \in Outstanding : polls[r].finished => Settled(polls[r])

-----------------------------------------------------------------------------
(* Counting draws.                                                         *)

LEMMA DrawsFinite ==
    ASSUME NEW poll, IsPoll(poll)
    PROVE  /\ IsFiniteSet(DOMAIN poll.owner) /\ Cardinality(DOMAIN poll.owner) <= K
           /\ \A v : IsFiniteSet(Draws(poll, v)) /\ Count(poll, v) \in Nat
           /\ Remaining(poll) \in Nat
<1>1. PICK n \in 1 .. K : poll.owner \in [1 .. n -> Nodes]
  BY Zenon DEF IsPoll
<1>2. DOMAIN poll.owner = 1 .. n /\ n \in Nat /\ n >= 1 /\ n <= K
  BY <1>1, PollAssumption
<1>3. IsFiniteSet(1 .. n) /\ Cardinality(1 .. n) = n
  BY <1>2, FS_Interval
<1>4. ASSUME NEW v
      PROVE  IsFiniteSet(Draws(poll, v)) /\ Count(poll, v) \in Nat
  <2>1. Draws(poll, v) \in SUBSET (1 .. n)
    BY <1>2, Zenon DEF Draws
  <2>2. QED BY <1>3, <2>1, FS_Subset, FS_CardinalityType, Zenon DEF Count
<1>5. QED BY <1>2, <1>3, <1>4, Zenon DEF Remaining

\* The draws that wait and those that voted for one id are at most K.
LEMMA CountBound ==
    ASSUME NEW poll, IsPoll(poll), NEW i \in Ids
    PROVE  Count(poll, i) + Remaining(poll) <= K
<1> DEFINE A == Draws(poll, i)
           B == Draws(poll, Waiting)
<1>1. IsFiniteSet(A) /\ IsFiniteSet(B) /\ A \cap B = {}
  BY DrawsFinite, PollAssumption, ZenonT(20) DEF Draws
<1>2. A \cup B \in SUBSET DOMAIN poll.owner
  BY Zenon DEF Draws
<1>3. Cardinality(A \cup B) = Cardinality(A) + Cardinality(B) - Cardinality(A \cap B)
  BY <1>1, FS_Union, Zenon
<1>4. Cardinality(A \cap B) = 0
  BY <1>1, FS_EmptySet, Zenon
<1>5. Cardinality(A \cup B) <= Cardinality(DOMAIN poll.owner)
  BY <1>2, DrawsFinite, FS_Subset, Zenon
<1>6. Cardinality(A) \in Nat /\ Cardinality(B) \in Nat
  BY DrawsFinite, Zenon DEF Count
<1>7. Cardinality(DOMAIN poll.owner) \in Nat /\ Cardinality(DOMAIN poll.owner) <= K
  BY DrawsFinite, FS_CardinalityType, Zenon
<1> HIDE DEF A, B
<1>8. Cardinality(A) + Cardinality(B) <= K
  BY <1>3, <1>4, <1>5, <1>6, <1>7, PollAssumption
<1>9. QED BY <1>8, Zenon DEF A, B, Count, Remaining

LEMMA CountReceived ==
    ASSUME NEW poll, IsPoll(poll), NEW i \in Ids
    PROVE  Received(poll) \in Nat /\ Count(poll, i) <= Received(poll)
<1> DEFINE R == {d \in DOMAIN poll.owner : poll.answer[d] \in Ids}
<1>1. IsFiniteSet(R)
  BY DrawsFinite, FS_Subset, R \in SUBSET DOMAIN poll.owner, Zenon
<1>2. Draws(poll, i) \in SUBSET R
  BY Zenon DEF Draws
<1>3. Cardinality(R) \in Nat /\ Cardinality(Draws(poll, i)) <= Cardinality(R)
  BY <1>1, <1>2, FS_Subset, FS_CardinalityType, Zenon
<1>4. QED BY <1>3, Zenon DEF Received, Count

\* The early termination rule is right for the ids it looks at and for those
\* nobody has voted for: an unvoted id can no longer reach AlphaPreference.
LEMMA CanFinishSettles ==
    ASSUME NEW poll, IsPoll(poll), CanFinish(poll)
    PROVE  Settled(poll)
<1> SUFFICES ASSUME NEW i \in Ids
             PROVE  ShouldTerminate(Count(poll, i), Remaining(poll))
  BY Zenon DEF Settled
<1> DEFINE c == Count(poll, i)
           r == Remaining(poll)
<1>1. c \in Nat /\ r \in Nat /\ c + r <= K
  BY DrawsFinite, CountBound, Zenon
<1>2. CASE r = 0
  BY <1>1, <1>2, PollAssumption DEF ShouldTerminate
<1>3. CASE Received(poll) + r < AlphaPreference
  BY <1>1, <1>3, CountReceived, PollAssumption DEF ShouldTerminate
<1>4. CASE /\ \E j \in Ids : Count(poll, j) > 0
           /\ \A j \in Ids : Count(poll, j) > 0 => ShouldTerminate(Count(poll, j), r)
  <2>1. CASE c > 0
    BY <1>4, <2>1, Zenon
  <2>2. CASE c = 0
    <3>1. PICK j \in Ids : Count(poll, j) > 0 /\ ShouldTerminate(Count(poll, j), r)
      BY <1>4, Zenon
    <3>2. Count(poll, j) \in Nat /\ Count(poll, j) + r <= K
      BY DrawsFinite, CountBound, Zenon
    <3>3. r < AlphaPreference
      BY <1>1, <3>1, <3>2, PollAssumption DEF ShouldTerminate
    <3>4. QED BY <1>1, <2>2, <3>3, PollAssumption DEF ShouldTerminate
  <2>3. QED BY <1>1, <2>1, <2>2
<1>5. QED BY <1>2, <1>3, <1>4, Zenon DEF CanFinish

-----------------------------------------------------------------------------
(* One answer.                                                             *)

LEMMA AnsweredType ==
    ASSUME NEW poll, IsPoll(poll), NEW vdr, NEW v \in Ids \cup {Dropped}
    PROVE  IsPoll(Answered(poll, vdr, v)) /\ Answered(poll, vdr, v).finished = poll.finished
<1> DEFINE ans == [d \in DOMAIN poll.owner |->
                     IF poll.owner[d] = vdr /\ poll.answer[d] = Waiting
                     THEN v ELSE poll.answer[d]]
<1>1. ans \in [DOMAIN poll.owner -> Ids \cup {Waiting, Dropped}]
  BY Zenon DEF IsPoll
<1> HIDE DEF ans
<1>2. Answered(poll, vdr, v)
        = [owner |-> poll.owner, answer |-> ans, finished |-> poll.finished]
  <2>1. Answered(poll, vdr, v) = [poll EXCEPT !.answer = ans]
    BY Zenon DEF Answered, ans
  <2>2. poll = [owner |-> poll.owner, answer |-> poll.answer, finished |-> poll.finished]
    BY Zenon DEF IsPoll
  <2>3. QED BY <2>1, <2>2, Zenon
<1>3. QED BY <1>1, <1>2 DEF IsPoll

\* An answer moves draws from Waiting to one value; the sum of the two stays.
LEMMA AnsweredCounts ==
    ASSUME NEW poll, IsPoll(poll), NEW vdr, NEW v \in Ids \cup {Dropped},
           NEW new, new = Answered(poll, vdr, v)
    PROVE  /\ Remaining(new) <= Remaining(poll)
           /\ \A i \in Ids \ {v} : Count(new, i) = Count(poll, i)
           /\ Count(poll, v) <= Count(new, v)
           /\ Count(new, v) + Remaining(new) = Count(poll, v) + Remaining(poll)
<1> DEFINE M == {d \in Draws(poll, Waiting) : poll.owner[d] = vdr}
           W == Draws(poll, Waiting)
           V == Draws(poll, v)
<1>1. /\ new.owner = poll.owner
      /\ \A d \in DOMAIN poll.owner : new.answer[d] =
            IF poll.owner[d] = vdr /\ poll.answer[d] = Waiting THEN v ELSE poll.answer[d]
  BY Zenon DEF Answered, IsPoll
<1>2. v # Waiting /\ \A i \in Ids : i # Waiting
  BY PollAssumption, Zenon
<1>3. Draws(new, Waiting) = W \ M
  BY <1>1, <1>2, Zenon DEF Draws
<1>4. Draws(new, v) = V \cup M
  BY <1>1, <1>2, Zenon DEF Draws
<1>5. \A i \in Ids \ {v} : Draws(new, i) = Draws(poll, i)
  BY <1>1, <1>2, Zenon DEF Draws
<1>6. W \cap M = M /\ V \cap M = {} /\ M \in SUBSET W
  BY <1>2, Zenon DEF Draws
<1>7. IsFiniteSet(W) /\ IsFiniteSet(V)
  BY DrawsFinite, Zenon
<1>8. IsFiniteSet(M)
  BY <1>6, <1>7, FS_Subset, Zenon
<1> HIDE DEF M, W, V
<1>9. /\ Cardinality(W \ M) = Cardinality(W) - Cardinality(M)
      /\ Cardinality(V \cup M) = Cardinality(V) + Cardinality(M)
      /\ Cardinality(M) \in Nat /\ Cardinality(W) \in Nat /\ Cardinality(V) \in Nat
  <2>1. Cardinality(M) \in Nat /\ Cardinality(W) \in Nat /\ Cardinality(V) \in Nat
    BY <1>7, <1>8, FS_CardinalityType, Zenon
  <2>2. Cardinality(W \ M) = Cardinality(W) - Cardinality(W \cap M)
    BY <1>7, FS_Difference, ZenonT(20)
  <2>3. Cardinality(V \cup M) = Cardinality(V) + Cardinality(M) - Cardinality(V \cap M)
    BY <1>7, <1>8, FS_Union, Zenon
  <2>4. Cardinality(V \cap M) = 0
    BY <1>6, FS_EmptySet, Zenon
  <2>5. Cardinality(W \cap M) = Cardinality(M)
    BY <1>6, Zenon
  <2>6. QED BY <2>1, <2>2, <2>3, <2>4, <2>5
<1>10. /\ Remaining(new) = Cardinality(W) - Cardinality(M)
       /\ Remaining(poll) = Cardinality(W)
       /\ Count(new, v) = Cardinality(V) + Cardinality(M)
       /\ Count(poll, v) = Cardinality(V)
  BY <1>3, <1>4, <1>9, Zenon DEF Remaining, Count, W, V
<1>11. \A i \in Ids \ {v} : Count(new, i) = Count(poll, i)
  BY <1>5, Zenon DEF Count
<1>12. QED BY <1>9, <1>10, <1>11

\* A settled poll stays settled, with the same outcome for every id.
LEMMA AnsweredSettled ==
    ASSUME NEW poll, IsPoll(poll), Settled(poll), NEW vdr, NEW v \in Ids \cup {Dropped}
    PROVE  /\ Settled(Answered(poll, vdr, v))
           /\ \A i \in Ids : Outcome(Answered(poll, vdr, v), i) = Outcome(poll, i)
<1> DEFINE new == Answered(poll, vdr, v)
<1> SUFFICES ASSUME NEW i \in Ids
             PROVE  /\ ShouldTerminate(Count(new, i), Remaining(new))
                    /\ Outcome(new, i) = Outcome(poll, i)
  BY Zenon DEF Settled
<1>1. IsPoll(new)
  BY AnsweredType, Zenon
<1>2. /\ Count(poll, i) \in Nat /\ Remaining(poll) \in Nat
      /\ Count(new, i) \in Nat /\ Remaining(new) \in Nat
  BY <1>1, DrawsFinite, Zenon
<1>3. ShouldTerminate(Count(poll, i), Remaining(poll))
  BY Zenon DEF Settled
<1>4. /\ Remaining(new) <= Remaining(poll)
      /\ Count(poll, i) <= Count(new, i)
      /\ Count(new, i) + Remaining(new) <= Count(poll, i) + Remaining(poll)
  <2>1. /\ Remaining(new) <= Remaining(poll)
        /\ i # v => Count(new, i) = Count(poll, i)
        /\ i = v => /\ Count(poll, i) <= Count(new, i)
                    /\ Count(new, i) + Remaining(new) = Count(poll, i) + Remaining(poll)
    BY AnsweredCounts
  <2>2. QED BY <1>2, <2>1
<1> HIDE DEF new
<1>5. ShouldTerminate(Count(new, i), Remaining(new))
  BY <1>2, <1>3, <1>4, PollAssumption DEF ShouldTerminate
<1>6. /\ Count(new, i) >= AlphaPreference <=> Count(poll, i) >= AlphaPreference
      /\ Count(new, i) >= AlphaConfidence <=> Count(poll, i) >= AlphaConfidence
  BY <1>2, <1>3, <1>4, PollAssumption DEF ShouldTerminate
<1>7. Outcome(new, i) = Outcome(poll, i)
  BY <1>6 DEF Outcome
<1>8. QED BY <1>5, <1>7, Zenon

\* Caching finished() changes the flag only, and only when it is justified.
LEMMA EvaluatedPoll ==
    ASSUME NEW poll, IsPoll(poll)
    PROVE  /\ IsPoll(Evaluated(poll))
           /\ \A i : Count(Evaluated(poll), i) = Count(poll, i)
           /\ Evaluated(poll).finished => poll.finished \/ CanFinish(poll)
<1> DEFINE new == Evaluated(poll)
           f == poll.finished \/ CanFinish(poll)
<1>1. new = [poll EXCEPT !.finished = f]
  BY Zenon DEF Evaluated
<1>2. f \in BOOLEAN
  BY Zenon
<1> HIDE DEF new, f
<1>3. new = [owner |-> poll.owner, answer |-> poll.answer, finished |-> f]
  BY <1>1, Zenon DEF IsPoll
<1>4. IsPoll(new) /\ new.finished = f
  BY <1>2, <1>3, Zenon DEF IsPoll
<1>5. \A i : Count(new, i) = Count(poll, i)
  BY <1>3, Zenon DEF Count, Draws
<1>6. QED BY <1>4, <1>5, ZenonT(20) DEF new, f

-----------------------------------------------------------------------------
(* The poll set.                                                           *)

\* A finished poll that is answered stays justified, and so does a poll that
\* is evaluated.
LEMMA EvaluatedSettled ==
    ASSUME NEW poll, IsPoll(poll), poll.finished => Settled(poll)
    PROVE  Evaluated(poll).finished => Settled(Evaluated(poll))
<1>1. /\ \A i : Count(Evaluated(poll), i) = Count(poll, i)
      /\ Evaluated(poll).finished => poll.finished \/ CanFinish(poll)
  BY EvaluatedPoll, Zenon
<1>2. CanFinish(poll) => Settled(poll)
  BY CanFinishSettles, Zenon
<1>3. QED BY <1>1, <1>2 DEF Settled, Remaining

LEMMA EvaluatedOutcome ==
    ASSUME NEW poll, IsPoll(poll)
    PROVE  \A i : Outcome(Evaluated(poll), i) = Outcome(poll, i)
BY EvaluatedPoll, Zenon DEF Outcome

\* The polls after vote or drop: each one is the old poll, answered or not,
\* evaluated or not.
LEMMA RespondPolls ==
    ASSUME NEW r \in Outstanding, NEW vdr, NEW v, Respond(r, vdr, v)
    PROVE  /\ Outstanding' \subseteq Outstanding
           /\ \A q \in Outstanding' : \E p :
                 /\ p = IF q = r THEN Evaluated(Answered(polls[r], vdr, v)) ELSE polls[q]
                 /\ polls'[q] = p \/ polls'[q] = Evaluated(p)
<1> DEFINE new == Evaluated(Answered(polls[r], vdr, v))
           ps == [polls EXCEPT ![r] = new]
           left == DOMAIN ps \ Drained(ps)
<1>1. DOMAIN ps = Outstanding /\ \A q \in Outstanding : ps[q] = IF q = r THEN new ELSE polls[q]
  BY Zenon DEF Outstanding
<1>2. polls' = AfterDrain(ps) \/ polls' = ps
  BY Zenon DEF Respond
<1>3. AfterDrain(ps) = [q \in left |-> IF q = Min(left) THEN Evaluated(ps[q]) ELSE ps[q]]
  BY Zenon DEF AfterDrain
<1> HIDE DEF new, ps
<1>4. CASE polls' = ps
  BY <1>1, <1>4, Zenon DEF Outstanding, new
<1>5. CASE polls' = AfterDrain(ps)
  <2>1. Outstanding' = left /\ left \subseteq Outstanding
    BY <1>1, <1>3, <1>5, Zenon DEF Outstanding
  <2>2. \A q \in left : polls'[q] = ps[q] \/ polls'[q] = Evaluated(ps[q])
    BY <1>3, <1>5, Zenon
  <2> HIDE DEF left
  <2>3. QED BY <1>1, <2>1, <2>2, Zenon DEF new
<1>6. QED BY <1>2, <1>4, <1>5, Zenon

LEMMA RespondKeeps ==
    ASSUME PollTypeOK, SettledInv, NEW r \in Outstanding, NEW vdr,
           NEW v \in Ids \cup {Dropped}, Respond(r, vdr, v)
    PROVE  /\ \A q \in Outstanding' : /\ IsPoll(polls'[q])
                                      /\ polls'[q].finished => Settled(polls'[q])
           /\ \A q \in Outstanding' : polls[q].finished =>
                 \A i \in Ids : Outcome(polls'[q], i) = Outcome(polls[q], i)
<1> SUFFICES ASSUME NEW q \in Outstanding'
             PROVE  /\ IsPoll(polls'[q])
                    /\ polls'[q].finished => Settled(polls'[q])
                    /\ polls[q].finished =>
                          \A i \in Ids : Outcome(polls'[q], i) = Outcome(polls[q], i)
  BY Zenon
<1>1. q \in Outstanding /\ IsPoll(polls[q]) /\ (polls[q].finished => Settled(polls[q]))
  BY RespondPolls, ZenonT(20) DEF PollTypeOK, SettledInv
<1>2. PICK p :
        /\ p = IF q = r THEN Evaluated(Answered(polls[r], vdr, v)) ELSE polls[q]
        /\ polls'[q] = p \/ polls'[q] = Evaluated(p)
  BY RespondPolls
<1>3. /\ IsPoll(p) /\ (p.finished => Settled(p))
      /\ polls[q].finished => \A i \in Ids : Outcome(p, i) = Outcome(polls[q], i)
  <2>1. CASE q # r
    BY <1>1, <1>2, <2>1, Zenon
  <2>2. CASE q = r
    <3> DEFINE a == Answered(polls[r], vdr, v)
    <3>1. IsPoll(a) /\ a.finished = polls[r].finished
      BY <1>1, <2>2, AnsweredType, Zenon
    <3>2. polls[r].finished => /\ Settled(a)
                               /\ \A i \in Ids : Outcome(a, i) = Outcome(polls[r], i)
      BY <1>1, <2>2, AnsweredSettled, Zenon
    <3> HIDE DEF a
    <3>3. IsPoll(Evaluated(a)) /\ (Evaluated(a).finished => Settled(Evaluated(a)))
      BY <3>1, <3>2, EvaluatedPoll, EvaluatedSettled, Zenon
    <3>4. \A i \in Ids : Outcome(Evaluated(a), i) = Outcome(a, i)
      BY <3>1, EvaluatedOutcome, Zenon
    <3>5. p = Evaluated(a)
      BY <1>2, <2>2, Zenon DEF a
    <3>6. QED BY <2>2, <3>2, <3>3, <3>4, <3>5, Zenon
  <2>3. QED BY <2>1, <2>2, Zenon
<1>4. CASE polls'[q] = p
  BY <1>3, <1>4, Zenon
<1>5. CASE polls'[q] = Evaluated(p)
  <2>1. IsPoll(Evaluated(p)) /\ (Evaluated(p).finished => Settled(Evaluated(p)))
    BY <1>3, EvaluatedPoll, EvaluatedSettled, Zenon
  <2>2. \A i \in Ids : Outcome(Evaluated(p), i) = Outcome(p, i)
    BY <1>3, EvaluatedOutcome, Zenon
  <2>3. QED BY <1>3, <1>5, <2>1, <2>2, Zenon
<1>6. QED BY <1>2, <1>4, <1>5, Zenon

\* A set of request ids has a least element.
LEMMA LeastId ==
    ASSUME NEW S, S \subseteq Nat, S # {}
    PROVE  Min(S) \in S /\ \A y \in S : Min(S) <= y
<1>1. PICK x \in S : \A y \in S : ~(<<y, x>> \in OpToRel(<, Nat))
  BY WFMin, NatLessThanWellFounded, Zenon
<1>2. \A y \in S : x <= y
  <2>1. OpToRel(<, Nat) = {ss \in Nat \X Nat : ss[1] < ss[2]}
    BY Zenon DEF OpToRel
  <2>2. \A y \in S : ~(<<y, x>> \in {ss \in Nat \X Nat : ss[1] < ss[2]})
    BY <1>1, <2>1, Zenon
  <2>3. ASSUME NEW y \in S
        PROVE  x <= y
    <3>1. x \in Nat /\ y \in Nat
      BY Zenon
    <3>2. ~(<<y, x>> \in {ss \in Nat \X Nat : ss[1] < ss[2]})
      BY <2>2, Zenon
    <3>3. ~(y < x)
      BY <3>1, <3>2, Zenon
    <3>4. QED BY <3>1, <3>3
  <2>4. QED BY <2>3, Zenon
<1>3. QED BY <1>2, ZenonT(20) DEF Min

\* vote and drop leave no finished poll in front.
LEMMA RespondOldest ==
    ASSUME PollTypeOK, OldestUnfinished, NEW r \in Outstanding, NEW vdr,
           NEW v \in Ids \cup {Dropped}, Respond(r, vdr, v)
    PROVE  OldestUnfinished'
<1> DEFINE new == Evaluated(Answered(polls[r], vdr, v))
           ps == [polls EXCEPT ![r] = new]
           left == DOMAIN ps \ Drained(ps)
<1>1. DOMAIN ps = Outstanding /\ \A q \in Outstanding : ps[q] = IF q = r THEN new ELSE polls[q]
  BY Zenon DEF Outstanding
<1>2. IF new.finished THEN polls' = AfterDrain(ps) ELSE polls' = ps
  BY Zenon DEF Respond
<1>3. AfterDrain(ps) = [q \in left |-> IF q = Min(left) THEN Evaluated(ps[q]) ELSE ps[q]]
  BY Zenon DEF AfterDrain
<1>4. Outstanding \subseteq Nat
  BY PollAssumption DEF PollTypeOK
<1>5. \A q : q \in left <=> /\ q \in Outstanding
                           /\ \E p \in Outstanding : p <= q /\ ~Evaluated(ps[p]).finished
  BY <1>1, Zenon DEF Drained
<1> HIDE DEF new, ps, left
<1>6. CASE new.finished
  <2>1. Outstanding' = left /\ polls' = [q \in left |->
                                 IF q = Min(left) THEN Evaluated(ps[q]) ELSE ps[q]]
    BY <1>2, <1>3, <1>6, Zenon DEF Outstanding
  <2> SUFFICES ASSUME left # {}
               PROVE  ~Evaluated(ps[Min(left)]).finished
    <3>1. left # {} => Min(left) \in left
      BY <1>4, <1>5, LeastId, ZenonT(20)
    <3>2. QED BY <2>1, <3>1, Zenon DEF OldestUnfinished
  <2>2. left \subseteq Nat
    BY <1>4, <1>5, ZenonT(20)
  <2>3. Min(left) \in left /\ \A y \in left : Min(left) <= y
    BY <2>2, LeastId, ZenonT(20)
  <2>4. PICK p \in Outstanding : p <= Min(left) /\ ~Evaluated(ps[p]).finished
    BY <1>5, <2>3, Zenon
  <2>5. p \in left /\ p \in Nat /\ Min(left) \in Nat
    <3>1. p \in Nat
      BY <1>4, <2>4, Zenon
    <3>2. p <= p
      BY <3>1
    <3>3. p \in left
      BY <1>5, <2>4, <3>2, Zenon
    <3>4. QED BY <2>2, <2>3, <3>1, <3>3, ZenonT(20)
  <2>6. p = Min(left)
    BY <2>3, <2>4, <2>5
  <2>7. QED BY <2>4, <2>6, Zenon
<1>7. CASE ~new.finished
  <2>1. polls' = ps /\ Outstanding' = Outstanding
    BY <1>1, <1>2, <1>7, Zenon DEF Outstanding
  <2>2. Min(Outstanding) \in Outstanding
    BY <1>4, LeastId, ZenonT(20)
  <2>3. ~ps[Min(Outstanding)].finished
    BY <1>1, <1>7, <2>2, Zenon DEF OldestUnfinished
  <2>4. QED BY <2>1, <2>3, Zenon DEF OldestUnfinished
<1>8. QED BY <1>6, <1>7, Zenon

-----------------------------------------------------------------------------
(* The steps and the theorems.                                             *)

PollInv == PollTypeOK /\ SettledInv /\ OldestUnfinished

\* The poll PollSet::add registers.
LEMMA NewPollFacts ==
    ASSUME NEW owner \in Samples
    PROVE  IsPoll(NewPoll(owner)) /\ ~NewPoll(owner).finished
<1>1. PICK n \in 1 .. K : owner \in [1 .. n -> Nodes]
  BY Zenon DEF Samples
<1>2. /\ NewPoll(owner).owner = owner
      /\ NewPoll(owner).answer = [d \in DOMAIN owner |-> Waiting]
      /\ NewPoll(owner).finished = FALSE
      /\ NewPoll(owner) = [owner |-> NewPoll(owner).owner, answer |-> NewPoll(owner).answer,
                           finished |-> NewPoll(owner).finished]
  BY Zenon DEF NewPoll
<1>3. QED BY <1>1, <1>2, ZenonT(20) DEF IsPoll

LEMMA AddPollKeeps ==
    ASSUME PollInv, NEW owner \in Samples, AddPoll(owner)
    PROVE  /\ PollInv'
           /\ Outstanding \subseteq Outstanding'
           /\ \A r \in Outstanding : polls'[r] = polls[r]
<1>1. requestId' \in 0 .. IdSpace - 1
  <2>1. requestId' = (requestId + 1) % IdSpace /\ requestId + 1 \in Nat
    BY PollAssumption, SMTT(20) DEF AddPoll, PollInv, PollTypeOK
  <2>2. IdSpace \in Nat \ {0}
    BY PollAssumption, Zenon
  <2>3. QED BY <2>1, <2>2
<1>2. CASE polls' = polls
  BY <1>1, <1>2, Zenon DEF PollInv, PollTypeOK, SettledInv, OldestUnfinished,
                           Outstanding, Settled
<1>3. CASE /\ requestId' \notin Outstanding
           /\ polls' = [r \in Outstanding \cup {requestId'} |->
                          IF r = requestId' THEN NewPoll(owner) ELSE polls[r]]
  <2>1. /\ Outstanding' = Outstanding \cup {requestId'}
        /\ polls'[requestId'] = NewPoll(owner)
        /\ \A r \in Outstanding : polls'[r] = polls[r]
    BY <1>3, Zenon DEF Outstanding
  <2>2. IsPoll(NewPoll(owner)) /\ ~NewPoll(owner).finished
    BY NewPollFacts, Zenon
  <2>3. PollTypeOK'
    BY <1>1, <2>1, <2>2, ZenonT(20) DEF PollInv, PollTypeOK
  <2>4. SettledInv'
    BY <2>1, <2>2, Zenon DEF PollInv, SettledInv
  <2>5. OldestUnfinished'
    <3>1. Outstanding' \subseteq Nat /\ Outstanding' # {} /\ Outstanding \subseteq Nat
      BY <1>1, <2>1, PollAssumption DEF PollInv, PollTypeOK
    <3>2. Min(Outstanding') \in Outstanding' /\ \A y \in Outstanding' : Min(Outstanding') <= y
      BY <3>1, LeastId, ZenonT(20)
    <3>3. CASE Min(Outstanding') = requestId'
      BY <2>1, <2>2, <3>3, Zenon DEF OldestUnfinished
    <3>4. CASE Min(Outstanding') # requestId'
      <4> DEFINE m == Min(Outstanding')
      <4>1. m \in Outstanding
        BY <2>1, <3>2, <3>4, Zenon
      <4>2. Min(Outstanding) \in Outstanding /\ \A y \in Outstanding : Min(Outstanding) <= y
        BY <3>1, <4>1, LeastId, ZenonT(20)
      <4>3. m <= Min(Outstanding) /\ Min(Outstanding) <= m
        BY <2>1, <3>2, <4>1, <4>2, Zenon
      <4>4. m \in Nat /\ Min(Outstanding) \in Nat
        BY <3>1, <4>1, <4>2, ZenonT(20)
      <4> HIDE DEF m
      <4>5. m = Min(Outstanding)
        BY <4>3, <4>4
      <4>6. ~polls'[m].finished
        BY <2>1, <4>1, <4>5, Zenon DEF PollInv, OldestUnfinished
      <4>7. QED BY <4>6, Zenon DEF m, OldestUnfinished
    <3>5. QED BY <3>3, <3>4, Zenon
  <2>6. QED BY <2>1, <2>3, <2>4, <2>5, Zenon DEF PollInv
<1>4. QED BY <1>2, <1>3, Zenon DEF AddPoll

LEMMA RespondInv ==
    ASSUME PollInv, NEW r \in Outstanding, NEW vdr, NEW v \in Ids \cup {Dropped},
           Respond(r, vdr, v), UNCHANGED requestId
    PROVE  PollInv'
<1>1. Outstanding' \subseteq Outstanding
  BY RespondPolls, Zenon
<1>2. \A q \in Outstanding' : IsPoll(polls'[q]) /\ (polls'[q].finished => Settled(polls'[q]))
  BY RespondKeeps, Zenon DEF PollInv
<1>3. PollTypeOK'
  BY <1>1, <1>2, Zenon DEF PollInv, PollTypeOK
<1>4. SettledInv'
  BY <1>2, Zenon DEF SettledInv
<1>5. OldestUnfinished'
  BY RespondOldest, Zenon DEF PollInv
<1>6. QED BY <1>3, <1>4, <1>5, Zenon DEF PollInv

\* The polls of poll.rs are well formed, every cached `finished` is still
\* justified by the votes counted, and the oldest poll is not finished, after
\* any sequence of add, vote and drop.
THEOREM PollsInvariant == PollSpec => []PollInv
<1>1. PollInit => PollInv
  <2> SUFFICES ASSUME PollInit PROVE PollInv
    BY Zenon
  <2>1. Outstanding = {} /\ requestId = 0
    BY Zenon DEF PollInit, Outstanding
  <2>2. QED BY <2>1, PollAssumption DEF PollInv, PollTypeOK, SettledInv,
                                        OldestUnfinished
<1>2. PollInv /\ [PollNext]_pollSetVars => PollInv'
  <2> SUFFICES ASSUME PollInv, [PollNext]_pollSetVars PROVE PollInv'
    BY Zenon
  <2>1. ASSUME NEW owner \in Samples, AddPoll(owner) PROVE PollInv'
    BY <2>1, AddPollKeeps, Zenon
  <2>2. ASSUME NEW r \in Outstanding, NEW vdr \in Nodes, NEW id \in Ids, Vote(r, vdr, id)
        PROVE  PollInv'
    BY <2>2, RespondInv, Zenon DEF Vote
  <2>3. ASSUME NEW r \in Outstanding, NEW vdr \in Nodes, Drop(r, vdr)
        PROVE  PollInv'
    BY <2>3, RespondInv, Zenon DEF Drop
  <2>4. CASE UNCHANGED pollSetVars
    BY <2>4, Zenon DEF pollSetVars, PollInv, PollTypeOK, SettledInv,
                       OldestUnfinished, Outstanding, Settled
  <2>5. QED BY <2>1, <2>2, <2>3, <2>4, Zenon DEF PollNext
<1>3. QED BY <1>1, <1>2, PTL DEF PollSpec

\* The type invariant of the poll set, for every K and every pair of alphas.
THEOREM PollsTypeCorrect == PollSpec => []PollTypeOK
BY PollsInvariant, PTL DEF PollInv

\* drain_finished never leaves a finished poll at the head of the queue.
THEOREM NoFinishedHead == PollSpec => []OldestUnfinished
BY PollsInvariant, PTL DEF PollInv

\* Early termination is sound for the ids that are voted for: whatever the
\* outstanding validators still answer, no id of a finished poll crosses
\* alpha_preference or alpha_confidence any more.
THEOREM EarlyTerminationSound == PollSpec => FinishedIsSettled
<1> DEFINE Same == \A r \in Outstanding \cap Outstanding' :
                      polls[r].finished =>
                          \A i \in Ids : Outcome(polls'[r], i) = Outcome(polls[r], i)
<1>1. PollInv /\ [PollNext]_pollSetVars => Same \/ UNCHANGED pollSetVars
  <2> SUFFICES ASSUME PollInv, [PollNext]_pollSetVars, ~UNCHANGED pollSetVars PROVE Same
    BY Zenon
  <2>1. ASSUME NEW owner \in Samples, AddPoll(owner) PROVE Same
    BY <2>1, AddPollKeeps, Zenon
  <2>2. ASSUME NEW r \in Outstanding, NEW vdr \in Nodes, NEW id \in Ids, Vote(r, vdr, id)
        PROVE  Same
    BY <2>2, RespondKeeps, Zenon DEF Vote, PollInv
  <2>3. ASSUME NEW r \in Outstanding, NEW vdr \in Nodes, Drop(r, vdr)
        PROVE  Same
    BY <2>3, RespondKeeps, Zenon DEF Drop, PollInv
  <2>4. QED BY <2>1, <2>2, <2>3, Zenon DEF PollNext
<1>2. QED BY <1>1, PollsInvariant, PTL DEF PollSpec, FinishedIsSettled

-----------------------------------------------------------------------------
(* Polls are drained in the order they were registered.                    *)

\* The numbers after d, in ascending order, are what one would think.
LEMMA AscendingInterval ==
    ASSUME NEW d \in Nat, NEW n \in Nat
    PROVE  /\ Ascending(d + 1 .. d + n) \in Seq(Nat) /\ Len(Ascending(d + 1 .. d + n)) = n
           /\ \A i \in 1 .. n : Ascending(d + 1 .. d + n)[i] = d + i
<1> DEFINE S == d + 1 .. d + n
           Up(s) == \A i, j \in DOMAIN s : i < j => s[i] < s[j]
           t == [i \in 1 .. n |-> d + i]
<1>1. Cardinality(S) = n
    <2>1. d + 1 \in Int /\ d + n \in Int
        OBVIOUS
    <2>2. Cardinality(S) = IF d + 1 > d + n THEN 0 ELSE (d + n) - (d + 1) + 1
        BY <2>1, FS_Interval, Zenon
    <2> QED BY <2>2
<1>2. t \in [1 .. n -> S] /\ Up(t)
    OBVIOUS
<1>3. Ascending(S) \in [1 .. n -> S] /\ Up(Ascending(S))
    <2>1. \E s \in [1 .. Cardinality(S) -> S] : Up(s)
        BY <1>1, <1>2, Zenon
    <2>2. Ascending(S) = CHOOSE s \in [1 .. Cardinality(S) -> S] : Up(s)
        BY Zenon DEF Ascending
    <2> QED BY <1>1, <2>1, <2>2, Zenon
<1> DEFINE s == Ascending(S)
<1> HIDE DEF s
<1>4. /\ DOMAIN s = 1 .. n /\ \A i \in 1 .. n : s[i] \in Nat /\ d + 1 <= s[i] /\ s[i] <= d + n
      /\ \A i, j \in 1 .. n : i < j => s[i] < s[j]
    <2>1. s \in [1 .. n -> S] /\ Up(s)
        BY <1>3, Zenon DEF s
    <2> QED BY <2>1
<1>5. \A i \in 1 .. n : s[i] >= d + i
    <2> SUFFICES ASSUME NEW x \in 1 .. n, ~(s[x] >= d + x) PROVE FALSE
        BY Zenon
    <2> DEFINE Low == {i \in 1 .. n : ~(s[i] >= d + i)}
               m == Min(Low)
    <2>1. m \in Low /\ \A y \in Low : m <= y
        <3>1. Low \subseteq Nat /\ Low # {}
            OBVIOUS
        <3> QED BY <3>1, LeastId, Zenon
    <2> HIDE DEF m
    <2>2. m \in 1 .. n /\ s[m] < d + m
        BY <1>4, <2>1
    <2>3. CASE m = 1
        BY <1>4, <2>2, <2>3
    <2>4. CASE m > 1
        <3>1. m - 1 \in 1 .. n /\ ~(m <= m - 1) /\ m - 1 < m
            BY <2>2, <2>4
        <3>2. s[m - 1] >= d + (m - 1)
            BY <2>1, <3>1, Zenon
        <3>3. s[m - 1] < s[m] /\ s[m - 1] \in Nat /\ s[m] \in Nat
            BY <1>4, <2>2, <3>1, Zenon
        <3> QED BY <2>2, <3>2, <3>3
    <2> QED BY <2>2, <2>3, <2>4
<1>6. \A i \in 1 .. n : s[i] <= d + i
    <2> SUFFICES ASSUME NEW x \in 1 .. n, ~(s[x] <= d + x) PROVE FALSE
        BY Zenon
    <2> DEFINE High == {k \in 0 .. n - 1 : ~(s[n - k] <= d + (n - k))}
               m == Min(High)
    <2>1. m \in High /\ \A y \in High : m <= y
        <3>1. n - x \in 0 .. n - 1 /\ n - (n - x) = x
            OBVIOUS
        <3>2. ~(s[n - (n - x)] <= d + (n - (n - x)))
            BY <3>1, Zenon
        <3>3. n - x \in High
            BY <3>1, <3>2, Zenon
        <3>4. High \subseteq Nat
            OBVIOUS
        <3>5. High # {}
            BY <3>3, Zenon
        <3> QED BY <3>4, <3>5, LeastId, Zenon
    <2> HIDE DEF m
    <2>2. m \in 0 .. n - 1 /\ n - m \in 1 .. n /\ s[n - m] > d + (n - m)
        <3>1. m \in 0 .. n - 1 /\ ~(s[n - m] <= d + (n - m))
            BY <2>1, Zenon
        <3>2. n - m \in 1 .. n
            BY <3>1
        <3> QED BY <1>4, <3>1, <3>2
    <2>3. CASE m = 0
        BY <1>4, <2>2, <2>3
    <2>4. CASE m > 0
        <3>1. m - 1 \in 0 .. n - 1 /\ ~(m <= m - 1) /\ n - (m - 1) = n - m + 1
            BY <2>2, <2>4
        <3>2. s[n - m + 1] <= d + (n - m + 1)
            <4>1. m - 1 \notin High
                BY <2>1, <3>1, Zenon
            <4> QED BY <3>1, <4>1, Zenon
        <3>3. n - m + 1 \in 1 .. n /\ n - m < n - m + 1
            BY <2>2, <2>4
        <3>4. s[n - m] < s[n - m + 1] /\ s[n - m] \in Nat /\ s[n - m + 1] \in Nat
            BY <1>4, <2>2, <3>3, Zenon
        <3> QED BY <2>2, <3>2, <3>4
    <2> QED BY <2>2, <2>3, <2>4
<1>7. \A i \in 1 .. n : s[i] = d + i
    <2> SUFFICES ASSUME NEW i \in 1 .. n PROVE s[i] = d + i
        BY Zenon
    <2>1. s[i] \in Nat /\ s[i] >= d + i /\ s[i] <= d + i
        BY <1>4, <1>5, <1>6, Zenon
    <2> QED BY <2>1
<1>8. s \in Seq(Nat) /\ Len(s) = n
    <2>1. s \in [1 .. n -> Nat]
        BY <1>3, <1>4, Zenon DEF s
    <2> QED BY <2>1
<1> QED BY <1>7, <1>8, Zenon DEF s

\* Ids are handed out one after the other and drained from the low end; the
\* polls that are left are those between.
OrderInv ==
    /\ order \in Seq(Nat) /\ drained \in Seq(Nat)
    /\ requestId = Len(order) /\ Len(order) <= MaxRequests /\ Len(drained) <= Len(order)
    /\ \A i \in DOMAIN order : order[i] = i
    /\ \A i \in DOMAIN drained : drained[i] = i
    /\ Outstanding = Len(drained) + 1 .. requestId

\* add: the next id is free.
LEMMA AddInOrder ==
    ASSUME MaxRequests < IdSpace, OrderInv, NEW owner, AddPoll(owner)
    PROVE  OrderInv'
<1>1. Len(order) \in Nat /\ Len(drained) \in Nat /\ requestId = Len(order)
    BY DEF OrderInv
<1>2. requestId' = requestId + 1 /\ requestId + 1 <= MaxRequests
    <2>1. requestId + 1 \in 0 .. IdSpace - 1 /\ requestId + 1 <= MaxRequests
        BY <1>1, PollAssumption DEF AddPoll
    <2>2. (requestId + 1) % IdSpace = requestId + 1
        BY <1>1, <2>1, PollAssumption
    <2> QED BY <2>1, <2>2, Zenon DEF AddPoll
<1>3. requestId' \notin Outstanding
    BY <1>1, <1>2 DEF OrderInv
<1>4. /\ Outstanding' = Outstanding \cup {requestId'} /\ order' = Append(order, requestId')
      /\ UNCHANGED drained
    BY <1>3, Zenon DEF AddPoll, Outstanding
<1>5. /\ order' \in Seq(Nat) /\ Len(order') = Len(order) + 1
      /\ \A i \in DOMAIN order' : order'[i] = i
    BY <1>1, <1>2, <1>4 DEF OrderInv
<1>6. Outstanding' = Len(drained') + 1 .. requestId'
    BY <1>1, <1>2, <1>4 DEF OrderInv
<1> QED BY <1>1, <1>2, <1>4, <1>5, <1>6 DEF OrderInv

\* vote and drop: what drain_finished takes is an initial part of what is
\* outstanding.
LEMMA RespondInOrder ==
    ASSUME OrderInv, NEW r \in Outstanding, NEW vdr, NEW v, Respond(r, vdr, v),
           UNCHANGED <<requestId, order>>
    PROVE  OrderInv'
<1> DEFINE new == Evaluated(Answered(polls[r], vdr, v))
           ps == [polls EXCEPT ![r] = new]
           gone == Drained(ps)
           left == DOMAIN ps \ gone
           d == Len(drained)
<1>1. DOMAIN ps = Outstanding
    BY Zenon DEF Outstanding
<1>2. \/ DOMAIN polls' = left /\ drained' = drained \o Ascending(gone)
      \/ polls' = ps /\ UNCHANGED drained
    BY Zenon DEF Respond, AfterDrain
<1>3. /\ gone \subseteq Outstanding
      /\ \A p, q \in Outstanding : q \in gone /\ p <= q => p \in gone
    <2>1. gone = {q \in Outstanding : \A p \in Outstanding : p <= q => Evaluated(ps[p]).finished}
        BY <1>1, Zenon DEF Drained
    <2>2. Outstanding \subseteq Int
        BY DEF OrderInv
    <2> HIDE DEF gone, ps
    <2> QED BY <2>1, <2>2
<1>4. d \in Nat /\ requestId \in Nat /\ d <= requestId /\ Outstanding = d + 1 .. requestId
    BY DEF OrderInv
<1>5. CASE polls' = ps /\ UNCHANGED drained
    BY <1>1, <1>5, Zenon DEF OrderInv, Outstanding
<1>6. CASE DOMAIN polls' = left /\ drained' = drained \o Ascending(gone)
    <2> HIDE DEF gone, ps
    <2>1. PICK n \in Nat : gone = d + 1 .. d + n /\ left = d + n + 1 .. requestId /\ d + n <= requestId
        <3>1. CASE left = {}
            <4>1. gone = d + 1 .. requestId
                BY <1>1, <1>3, <1>4, <3>1, Zenon
            <4>2. requestId - d \in Nat /\ d + (requestId - d) = requestId
                BY <1>4
            <4>3. left = requestId + 1 .. requestId
                BY <1>4, <3>1
            <4>4. requestId <= requestId
                BY <1>4
            <4> QED BY <4>1, <4>2, <4>3, <4>4, Zenon
        <3>2. CASE left # {}
            <4> DEFINE m == Min(left)
            <4>1. left \subseteq Nat
                BY <1>1, <1>4
            <4>2. m \in left /\ \A y \in left : m <= y
                BY <3>2, <4>1, LeastId, Zenon
            <4> HIDE DEF m
            <4>3. m \in d + 1 .. requestId /\ m \notin gone
                BY <1>1, <1>4, <4>2, Zenon
            <4>4. ASSUME NEW x \in d + 1 .. requestId
                  PROVE  x \in gone <=> x < m
                BY <1>1, <1>3, <1>4, <4>2, <4>3
            <4>5. gone = d + 1 .. m - 1
                <5>1. \A x : x \in gone <=> x \in d + 1 .. requestId /\ x < m
                    BY <1>3, <1>4, <4>4, Zenon
                <5>2. \A x : x \in d + 1 .. m - 1 <=> x \in d + 1 .. requestId /\ x < m
                    BY <1>4, <4>3
                <5> QED BY <5>1, <5>2, Zenon
            <4>6. left = m .. requestId
                <5>1. \A x : x \in left <=> x \in d + 1 .. requestId /\ ~(x < m)
                    BY <1>1, <1>4, <4>4, Zenon
                <5>2. \A x : x \in m .. requestId <=> x \in d + 1 .. requestId /\ ~(x < m)
                    BY <1>4, <4>3
                <5> QED BY <5>1, <5>2, Zenon
            <4>7. /\ m - 1 - d \in Nat /\ d + (m - 1 - d) <= requestId
                  /\ d + (m - 1 - d) = m - 1 /\ d + (m - 1 - d) + 1 = m
                BY <1>4, <4>3
            <4> QED BY <4>5, <4>6, <4>7, Zenon
        <3> QED BY <3>1, <3>2, Zenon
    <2> DEFINE s == Ascending(gone)
    <2>2. s \in Seq(Nat) /\ Len(s) = n /\ \A i \in 1 .. n : s[i] = d + i
        BY <1>4, <2>1, AscendingInterval, Zenon
    <2>3. drained' = drained \o s /\ drained \in Seq(Nat)
        BY <1>6, Zenon DEF OrderInv
    <2> HIDE DEF s
    <2>4. /\ drained' \in Seq(Nat) /\ Len(drained') = d + n
          /\ DOMAIN drained' = 1 .. d + n
          /\ \A i \in 1 .. d + n : drained'[i] = IF i <= d THEN drained[i] ELSE s[i - d]
        <3>1. ASSUME NEW a \in Seq(Nat), NEW b \in Seq(Nat)
              PROVE  /\ a \o b \in Seq(Nat) /\ Len(a \o b) = Len(a) + Len(b)
                     /\ DOMAIN (a \o b) = 1 .. Len(a) + Len(b)
                     /\ \A i \in 1 .. Len(a) + Len(b) :
                           (a \o b)[i] = IF i <= Len(a) THEN a[i] ELSE b[i - Len(a)]
            OBVIOUS
        <3> QED BY <2>2, <2>3, <3>1, Zenon
    <2>5. ASSUME NEW i \in 1 .. d + n
          PROVE  drained'[i] = i
        <3>1. CASE i <= d
            <4>1. i \in DOMAIN drained
                BY <1>4, <2>3, <3>1
            <4> QED BY <2>4, <3>1, <4>1, Zenon DEF OrderInv
        <3>2. CASE i > d
            <4>1. i - d \in 1 .. n /\ d + (i - d) = i /\ ~(i <= d)
                BY <1>4, <2>1, <3>2
            <4> QED BY <2>2, <2>4, <4>1, Zenon
        <3> QED BY <1>4, <3>1, <3>2
    <2>6. Outstanding' = Len(drained') + 1 .. requestId'
        BY <1>6, <2>1, <2>4, Zenon DEF Outstanding
    <2>7. Len(drained') <= Len(order')
        BY <2>1, <2>4, Zenon DEF OrderInv
    <2> QED BY <2>4, <2>5, <2>6, <2>7, Zenon DEF OrderInv
<1> QED BY <1>2, <1>5, <1>6, Zenon

\* Polls reach consensus in the order they were registered, none twice and
\* none left out, while fewer queries were sent than there are request ids
\* (drain_finished orders polls by id, and request_id wraps).
THEOREM DrainsInOrder ==
    ASSUME MaxRequests < IdSpace
    PROVE  PollSpec => []DrainedInOrder
<1>1. PollInit => OrderInv
    <2> SUFFICES ASSUME PollInit PROVE OrderInv
        BY Zenon
    <2>1. Outstanding = {} /\ requestId = 0 /\ Len(order) = 0 /\ Len(drained) = 0
          /\ DOMAIN order = {} /\ DOMAIN drained = {} /\ order \in Seq(Nat) /\ drained \in Seq(Nat)
        BY DEF PollInit, Outstanding
    <2> QED BY <2>1, PollAssumption DEF OrderInv
<1>2. OrderInv /\ [PollNext]_pollSetVars => OrderInv'
    <2> SUFFICES ASSUME OrderInv, [PollNext]_pollSetVars PROVE OrderInv'
        BY Zenon
    <2>1. ASSUME NEW owner \in Samples, AddPoll(owner) PROVE OrderInv'
        BY <2>1, AddInOrder, Zenon
    <2>2. ASSUME NEW r \in Outstanding, NEW vdr, NEW id, Vote(r, vdr, id) PROVE OrderInv'
        BY <2>2, RespondInOrder, Zenon DEF Vote
    <2>3. ASSUME NEW r \in Outstanding, NEW vdr, Drop(r, vdr) PROVE OrderInv'
        BY <2>3, RespondInOrder, Zenon DEF Drop
    <2>4. CASE UNCHANGED pollSetVars
        BY <2>4, Zenon DEF pollSetVars, OrderInv, Outstanding
    <2> QED BY <2>1, <2>2, <2>3, <2>4, Zenon DEF PollNext
<1>3. OrderInv => DrainedInOrder
    BY DEF OrderInv, DrainedInOrder
<1> QED BY <1>1, <1>2, <1>3, PTL DEF PollSpec
=============================================================================
