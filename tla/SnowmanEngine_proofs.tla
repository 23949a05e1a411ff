------------------------ MODULE SnowmanEngine_proofs ------------------------
(***************************************************************************)
(* The loop of the Snowman engine for any tree of blocks, any validators,  *)
(* any parameters and any number of requests, polls and failing calls.     *)
(*                                                                         *)
(* TypeInv types the items of `work`, the calls in progress.  The two maps *)
(* of requests are inverse over it.  ReadyInv looks into `work`: while a   *)
(* poll result, an unreported preference or a missing poll is around, the  *)
(* item that repairs it is still to come.  DecidedInv keeps the heights of *)
(* the processing blocks above the last accepted one, and the rejected     *)
(* blocks below a decided one, which is why no decided block comes back.   *)
(***************************************************************************)
EXTENDS SnowmanEngine, FiniteSetTheorems, TLAPS

-----------------------------------------------------------------------------
(* Types, those of the items of `work` included.                           *)

Item ==
    [op : {"lookup"}, node : Nodes, blk : Blocks]
    \cup [op : {"issue"}, node : Requesters, blk : Blocks, chain : Seq(Blocks \ {Genesis})]
    \cup [op : {"add"}, blk : Blocks \ {Genesis}]
    \cup [op : {"repoll"}, always : BOOLEAN]
    \cup [op : {"vote"}, node : Nodes, req : Nat]
    \cup [op : {"prefer", "record", "build"}]

ChainTypes ==
    /\ lastAccepted \in Blocks /\ accepted \subseteq Blocks /\ rejected \subseteq Blocks
    /\ processing \subseteq Blocks \ {Genesis}
    /\ preference \in Blocks /\ vmPreference \in Blocks
    /\ Height[Genesis] <= Height[lastAccepted]

RequestTypes ==
    /\ requestId \in 0 .. MaxRequests
    /\ DOMAIN blkReqs \subseteq Requesters \X (1 .. requestId)
    /\ \A k \in DOMAIN blkReqs : blkReqs[k] \in Blocks
    /\ DOMAIN blkReqsById \subseteq Blocks

PollType == [waiting : SUBSET Nodes, hopeless : BOOLEAN, finished : BOOLEAN]

PollTypes ==
    /\ DOMAIN polls \subseteq 1 .. requestId
    /\ \A r \in DOMAIN polls : polls[r] \in PollType

WorkTypes ==
    /\ work \in Seq(Item) /\ anyAdded \in BOOLEAN
    /\ DOMAIN acceptedFrontiers \subseteq Nodes
    /\ \A n \in DOMAIN acceptedFrontiers : acceptedFrontiers[n] \in Blocks
    /\ pendingBuildBlocks \in 0 .. MaxBuilds /\ failures \in 0 .. MaxFailures

TypeInv == ChainTypes /\ RequestTypes /\ PollTypes /\ WorkTypes

LEMMA InvImpliesTypeOK == TypeInv => TypeOK
BY Zenon DEF TypeInv, ChainTypes, RequestTypes, PollTypes, PollType, WorkTypes,
             TypeOK

LEMMA InitTypes == Init => TypeInv
<1> SUFFICES ASSUME Init PROVE TypeInv
    BY Zenon
<1> USE EngineAssumption, BlockTreeAssumption DEF Init, SnowmanInit, EmptyFun
<1>1. ChainTypes
    BY DEF ChainTypes
<1>2. RequestTypes
    BY DEF RequestTypes
<1>3. PollTypes
    BY Zenon DEF PollTypes
<1>4. work \in Seq(Item)
    OBVIOUS
<1>5. anyAdded \in BOOLEAN
    BY Zenon
<1>6. WorkTypes
    BY <1>4, <1>5 DEF WorkTypes
<1> QED BY <1>1, <1>2, <1>3, <1>6, Zenon DEF TypeInv

\* The items are what their constructors make.
LEMMA ItemTypes ==
    /\ \A n \in Nodes, b \in Blocks : LookupItem(n, b) \in Item
    /\ \A n \in Requesters, b \in Blocks : IssueItem(n, b) \in Item
    /\ \A b \in Blocks \ {Genesis} : AddItem(b) \in Item
    /\ \A always \in BOOLEAN : RepollItem(always) \in Item
    /\ \A n \in Nodes, r \in Nat : VoteItem(n, r) \in Item
    /\ PreferItem \in Item /\ RecordItem \in Item /\ BuildItem \in Item
BY DEF Item, LookupItem, IssueItem, AddItem, RepollItem, VoteItem, PreferItem,
       RecordItem,
       BuildItem

\* What an item holds, by its op.
LEMMA ItemFields ==
    ASSUME NEW it \in Item
    PROVE  /\ it.op = "lookup" => it.node \in Nodes /\ it.blk \in Blocks
           /\ it.op = "issue" => it.node \in Requesters /\ it.blk \in Blocks
                                   /\ it.chain \in Seq(Blocks \ {Genesis})
           /\ it.op = "add" => it.blk \in Blocks \ {Genesis}
           /\ it.op = "repoll" => it.always \in BOOLEAN
           /\ it.op = "vote" => it.node \in Nodes /\ it.req \in Nat
BY Zenon DEF Item

LEMMA ItemSeqs ==
    /\ <<>> \in Seq(Item)
    /\ \A it \in Item : <<it>> \in Seq(Item) /\ Len(<<it>>) = 1 /\ <<it>>[1] = it
    /\ \A s, t \in Seq(Item) : s \o t \in Seq(Item)
OBVIOUS

LEMMA Concat ==
    ASSUME NEW s \in Seq(Item), NEW t \in Seq(Item)
    PROVE  /\ s \o t \in Seq(Item)
           /\ DOMAIN s = 1 .. Len(s) /\ DOMAIN t = 1 .. Len(t) /\ Len(s) \in Nat /\ Len(t) \in Nat
           /\ DOMAIN (s \o t) = 1 .. Len(s) + Len(t) /\ Len(s \o t) = Len(s) + Len(t)
           /\ \A i \in DOMAIN (s \o t) : (s \o t)[i] = IF i <= Len(s) THEN s[i] ELSE t[i - Len(s)]
OBVIOUS

LEMMA Pair ==
    ASSUME NEW x \in Item, NEW y \in Item
    PROVE  <<x, y>> \in Seq(Item) /\ Len(<<x, y>>) = 2 /\ <<x, y>>[1] = x /\ <<x, y>>[2] = y
OBVIOUS

\* The current item and what follows it.
LEMMA HeadAndTail ==
    ASSUME WorkTypes, NEW op, Doing(op)
    PROVE  /\ Head(work) \in Item /\ Head(work).op = op /\ Head(work) = work[1]
           /\ Tail(work) \in Seq(Item) /\ work # <<>>
           /\ DOMAIN work = 1 .. Len(work) /\ DOMAIN Tail(work) = 1 .. Len(work) - 1
           /\ \A i \in DOMAIN Tail(work) : Tail(work)[i] = work[i + 1]
BY DEF WorkTypes, Doing

-----------------------------------------------------------------------------
(* Requests keep their types.                                              *)

LEMMA SendTypes ==
    ASSUME RequestTypes, PollTypes, NEW n \in Requesters, NEW b \in Blocks, SendRequest(n, b)
    PROVE  RequestTypes' /\ requestId' >= requestId
<1>1. CASE b \in DOMAIN blkReqsById
    BY <1>1 DEF SendRequest, RequestTypes, requestVars
<1>2. CASE b \notin DOMAIN blkReqsById
    <2>1. /\ requestId' = requestId + 1 /\ requestId' \in 0 .. MaxRequests
          /\ DOMAIN blkReqs' = DOMAIN blkReqs \cup {<<n, requestId'>>}
          /\ \A k \in DOMAIN blkReqs' : blkReqs'[k] = IF k = <<n, requestId'>> THEN b ELSE blkReqs[k]
          /\ DOMAIN blkReqsById' = DOMAIN blkReqsById \cup {b}
        BY <1>2, EngineAssumption DEF SendRequest, RequestTypes
    <2>2. <<n, requestId'>> \in Requesters \X (1 .. requestId')
        BY <2>1 DEF RequestTypes
    <2>3. DOMAIN blkReqs \subseteq Requesters \X (1 .. requestId')
        BY <2>1 DEF RequestTypes
    <2>4. \A k \in DOMAIN blkReqs' : blkReqs'[k] \in Blocks
        BY <2>1, Zenon DEF RequestTypes
    <2> QED BY <2>1, <2>2, <2>3, <2>4 DEF RequestTypes
<1> QED BY <1>1, <1>2, Zenon

LEMMA WithoutTypes ==
    ASSUME NEW f, NEW S
    PROVE  /\ DOMAIN Without(f, S) = DOMAIN f \ S
           /\ \A x \in DOMAIN f \ S : Without(f, S)[x] = f[x]
BY Zenon DEF Without, Restrict

LEMMA ClearTypes ==
    ASSUME RequestTypes, NEW b, ClearRequest(b), requestId' \in requestId .. MaxRequests
    PROVE  RequestTypes'
<1>1. /\ DOMAIN blkReqs' \subseteq DOMAIN blkReqs /\ DOMAIN blkReqsById' \subseteq DOMAIN blkReqsById
      /\ \A k \in DOMAIN blkReqs' : blkReqs'[k] = blkReqs[k]
    BY Zenon DEF ClearRequest, requestVars, Without, Restrict
<1> QED BY <1>1 DEF RequestTypes

LEMMA AbandonTypes ==
    ASSUME RequestTypes, NEW n, NEW r, AbandonRequest(n, r), UNCHANGED requestId
    PROVE  RequestTypes'
<1>1. /\ DOMAIN blkReqs' \subseteq DOMAIN blkReqs /\ DOMAIN blkReqsById' \subseteq DOMAIN blkReqsById
      /\ \A k \in DOMAIN blkReqs' : blkReqs'[k] = blkReqs[k]
    BY Zenon DEF AbandonRequest, requestVars, Without, Restrict
<1> QED BY <1>1, Zenon DEF RequestTypes

\* A poll is registered under the next request id.
LEMMA RegisterTypes ==
    ASSUME TypeInv, NEW S \in SUBSET Nodes, NEW hopeless \in BOOLEAN, RegisterPoll(S, hopeless)
    PROVE  /\ requestId' = requestId + 1 /\ requestId' \in requestId .. MaxRequests
           /\ DOMAIN polls' = DOMAIN polls \cup {requestId'}
           /\ PollTypes'
<1>1. /\ requestId' = requestId + 1 /\ requestId' \in requestId .. MaxRequests
      /\ DOMAIN polls' = DOMAIN polls \cup {requestId'}
    BY EngineAssumption DEF RegisterPoll, TypeInv, RequestTypes
<1>2. \A r \in DOMAIN polls' : polls'[r] \in PollType
    BY <1>1, Zenon DEF RegisterPoll, TypeInv, PollTypes, PollType
<1>3. DOMAIN polls' \subseteq 1 .. requestId'
    BY <1>1 DEF TypeInv, PollTypes, RequestTypes
<1> QED BY <1>1, <1>2, <1>3, Zenon DEF PollTypes


\* A query is a poll of the validators it was sent to.
LEMMA SampleTypes ==
    ASSUME TypeInv, NEW S \in Samples, RegisterPoll(S, FALSE)
    PROVE  /\ requestId' = requestId + 1 /\ requestId' \in requestId .. MaxRequests
           /\ DOMAIN polls' = DOMAIN polls \cup {requestId'}
           /\ PollTypes'
<1>1. S \in SUBSET Nodes
    BY EngineAssumption, Zenon
<1>2. FALSE \in BOOLEAN
    BY Zenon
<1> QED BY <1>1, <1>2, RegisterTypes, Zenon

-----------------------------------------------------------------------------
(* The calls of the engine start from an empty `work`.                     *)

\* What most steps leave alone.
ChainUnchanged == UNCHANGED <<consensusVars, vmPreference>>

LEMMA ChainKept ==
    ASSUME ChainTypes, ChainUnchanged
    PROVE  ChainTypes'
BY Zenon DEF ChainTypes, ChainUnchanged, consensusVars, snowmanVars

LEMMA RequestsKept ==
    ASSUME RequestTypes, UNCHANGED <<requestId, requestVars>>
    PROVE  RequestTypes'
BY Zenon DEF RequestTypes, requestVars

LEMMA PollsKept ==
    ASSUME PollTypes, UNCHANGED polls, requestId \in Nat, requestId' \in Nat, requestId' >= requestId
    PROVE  PollTypes'
BY DEF PollTypes

\* The items of a call for one peer's answer.
LEMMA ChitsWorkTypes ==
    ASSUME NEW n \in Nodes, NEW r \in Nat, NEW p \in Blocks, NEW h \in Blocks
    PROVE  ChitsWork(n, r, p, h) \in Seq(Item)
<1>1. LookupItem(n, p) \in Item /\ LookupItem(n, h) \in Item /\ VoteItem(n, r) \in Item
    BY ItemTypes, Zenon
<1>2. /\ <<LookupItem(n, p)>> \in Seq(Item) /\ <<VoteItem(n, r)>> \in Seq(Item)
      /\ (IF h = p THEN <<>> ELSE <<LookupItem(n, h)>>) \in Seq(Item)
    BY <1>1
<1> QED BY <1>2 DEF ChitsWork

LEMMA CallTypes ==
    ASSUME TypeInv,
           \/ PutNext
           \/ \E n \in Nodes, r \in Requests : GetFailed(n, r)
           \/ \E n \in Nodes, b \in Blocks : PushQuery(n, b)
           \/ \E n \in Nodes, b \in Blocks : PullQuery(n, b)
           \/ \E n \in Nodes, r \in Requests, p \in Blocks, h \in Blocks, acc \in Frontiers :
                 Chits(n, r, p, h, acc)
           \/ \E n \in Nodes, r \in Requests : QueryFailed(n, r)
           \/ \E n \in Nodes : Gossip(n)
           \/ NotifyPendingTxs
    PROVE  TypeInv'
<1> USE DEF TypeInv
<1>1. ASSUME NEW n \in Nodes, NEW r \in Requests, NEW b \in Blocks \cup {None}, Put(n, r, b)
      PROVE  TypeInv'
    <2>1. ChainUnchanged /\ UNCHANGED <<polls, requestId>>
        BY <1>1, Zenon DEF Put, ChainUnchanged
    <2>2. RequestTypes'
        BY <1>1, <2>1, AbandonTypes, RequestsKept, Zenon DEF Put
    <2>3. work' \in Seq(Item)
        <3>1. CASE UNCHANGED work
            BY <3>1, Zenon DEF WorkTypes
        <3>2. CASE b \in Blocks /\ work' = <<IssueItem(n, b)>>
            BY <3>2, ItemTypes DEF Requesters
        <3> QED BY <1>1, <3>1, <3>2, Zenon DEF Put
    <2>4. WorkTypes'
        BY <1>1, <2>3, Zenon DEF Put, WorkTypes
    <2> QED BY <2>1, <2>2, <2>4, ChainKept, PollsKept DEF RequestTypes
<1>2. ASSUME NEW n \in Nodes, NEW r \in Requests, GetFailed(n, r)
      PROVE  TypeInv'
    <2>1. ChainUnchanged /\ UNCHANGED <<polls, requestId>>
        BY <1>2, Zenon DEF GetFailed, ChainUnchanged
    <2>2. RequestTypes'
        BY <1>2, <2>1, AbandonTypes, Zenon DEF GetFailed
    <2>4. WorkTypes'
        BY <1>2, Zenon DEF GetFailed, WorkTypes
    <2> QED BY <2>1, <2>2, <2>4, ChainKept, PollsKept DEF RequestTypes
<1>3. ASSUME NEW n \in Nodes, NEW b \in Blocks, PushQuery(n, b) \/ PullQuery(n, b)
      PROVE  TypeInv'
    <2>1. ChainUnchanged /\ UNCHANGED <<polls, requestId, requestVars>>
        BY <1>3, Zenon DEF PushQuery, PullQuery, ChainUnchanged
    <2>2. work' \in Seq(Item)
        <3>1. IssueItem(n, b) \in Item /\ LookupItem(n, b) \in Item
            BY ItemTypes, Zenon DEF Requesters
        <3>2. work' = <<IssueItem(n, b)>> \/ work' = <<LookupItem(n, b)>>
            BY <1>3, Zenon DEF PushQuery, PullQuery
        <3> QED BY <3>1, <3>2, ItemSeqs, Zenon
    <2>3. WorkTypes'
        BY <1>3, <2>2, Zenon DEF PushQuery, PullQuery, WorkTypes
    <2> QED BY <2>1, <2>3, ChainKept, RequestsKept, PollsKept DEF RequestTypes
<1>4. ASSUME NEW n \in Nodes, NEW r \in Requests, NEW p \in Blocks, NEW h \in Blocks,
             NEW acc \in Frontiers, Chits(n, r, p, h, acc)
      PROVE  TypeInv'
    <2>1. ChainUnchanged /\ UNCHANGED <<polls, requestId, requestVars>>
        BY <1>4, Zenon DEF Chits, ChainUnchanged
    <2>2. work' \in Seq(Item)
        BY <1>4, ChitsWorkTypes DEF Chits, Requests
    <2>3. /\ DOMAIN acceptedFrontiers' \subseteq Nodes
          /\ \A m \in DOMAIN acceptedFrontiers' : acceptedFrontiers'[m] \in Blocks
        BY <1>4, EngineAssumption, Zenon DEF Chits, WorkTypes
    <2>4. WorkTypes'
        BY <1>4, <2>2, <2>3, Zenon DEF Chits, WorkTypes
    <2> QED BY <2>1, <2>4, ChainKept, RequestsKept, PollsKept DEF RequestTypes
<1>5. ASSUME NEW n \in Nodes, NEW r \in Requests, QueryFailed(n, r)
      PROVE  TypeInv'
    <2>1. ChainUnchanged /\ UNCHANGED <<polls, requestId, requestVars>>
        BY <1>5, Zenon DEF QueryFailed, ChainUnchanged
    <2>2. work' \in Seq(Item)
        <3>1. CASE n \in DOMAIN acceptedFrontiers
            <4>1. acceptedFrontiers[n] \in Blocks
                BY <3>1, Zenon DEF WorkTypes
            <4> QED BY <1>5, <3>1, <4>1, ChitsWorkTypes DEF QueryFailed, Requests
        <3>2. CASE n \notin DOMAIN acceptedFrontiers
            BY <1>5, <3>2, ItemTypes DEF QueryFailed, Requests
        <3> QED BY <3>1, <3>2, Zenon
    <2>4. WorkTypes'
        BY <1>5, <2>2, Zenon DEF QueryFailed, WorkTypes
    <2> QED BY <2>1, <2>4, ChainKept, RequestsKept, PollsKept DEF RequestTypes
<1>6. ASSUME NEW n \in Nodes, Gossip(n)
      PROVE  TypeInv'
    <2>1. ChainUnchanged /\ UNCHANGED requestVars /\ RegisterPoll({n}, TRUE)
        BY <1>6, Zenon DEF Gossip, ChainUnchanged
    <2>2. PollTypes' /\ requestId' \in requestId .. MaxRequests
        BY <2>1, RegisterTypes, Zenon
    <2>3. RequestTypes'
        BY <2>1, <2>2 DEF RequestTypes, requestVars
    <2>4. WorkTypes'
        BY <1>6, Zenon DEF Gossip, WorkTypes
    <2> QED BY <2>1, <2>2, <2>3, <2>4, ChainKept, Zenon
<1>7. ASSUME NotifyPendingTxs
      PROVE  TypeInv'
    <2>1. ChainUnchanged /\ UNCHANGED <<polls, requestId, requestVars>>
        BY <1>7, Zenon DEF NotifyPendingTxs, ChainUnchanged
    <2>2. work' \in Seq(Item) /\ pendingBuildBlocks' \in 0 .. MaxBuilds
        BY <1>7, ItemTypes, EngineAssumption DEF NotifyPendingTxs, WorkTypes
    <2>4. WorkTypes'
        BY <1>7, <2>2, Zenon DEF NotifyPendingTxs, WorkTypes
    <2> QED BY <2>1, <2>4, ChainKept, RequestsKept, PollsKept DEF RequestTypes
<1> QED BY <1>1, <1>2, <1>3, <1>4, <1>5, <1>6, <1>7, Zenon DEF PutNext


-----------------------------------------------------------------------------
(* The steps of a call take the first item of `work`.                      *)

\* What only the steps of a call change of WorkTypes.
CallersUnchanged == UNCHANGED <<acceptedFrontiers, pendingBuildBlocks>>

LEMMA FailsTypes ==
    ASSUME WorkTypes, Fails \/ UNCHANGED failures
    PROVE  failures' \in 0 .. MaxFailures
BY EngineAssumption DEF WorkTypes, Fails

LEMMA NextWork ==
    ASSUME WorkTypes, CallersUnchanged, work' \in Seq(Item), anyAdded' \in BOOLEAN,
           Fails \/ UNCHANGED failures
    PROVE  WorkTypes'
BY FailsTypes, Zenon DEF WorkTypes, CallersUnchanged

\* The chain collected so far, the items that add it, and the rest.
LEMMA StartAddingTypes ==
    ASSUME TypeInv, NEW chain \in Seq(Blocks \ {Genesis}), Doing("issue"), StartAdding(chain)
    PROVE  RequestTypes' /\ work' \in Seq(Item) /\ anyAdded' \in BOOLEAN
<1> DEFINE adds == [i \in 1 .. Len(chain) |-> AddItem(chain[i])]
<1>1. RequestTypes'
    <2>1. UNCHANGED requestId /\ requestId' \in requestId .. MaxRequests
        BY DEF StartAdding, TypeInv, RequestTypes
    <2> QED BY <2>1, ClearTypes, RequestsKept, Zenon DEF StartAdding, TypeInv
<1>2. adds \in Seq(Item)
    <2>1. \A i \in 1 .. Len(chain) : AddItem(chain[i]) \in Item
        BY ItemTypes
    <2>2. Len(chain) \in Nat
        OBVIOUS
    <2> QED BY <2>1, <2>2
<1>3. RepollItem(FALSE) \in Item /\ Tail(work) \in Seq(Item)
    BY ItemTypes, HeadAndTail, Zenon DEF TypeInv
<1>4. work' = adds \o <<RepollItem(FALSE)>> \o Tail(work) /\ anyAdded' = FALSE
    BY Zenon DEF StartAdding
<1> HIDE DEF adds
<1>5. adds \o <<RepollItem(FALSE)>> \in Seq(Item)
    BY <1>2, <1>3, ItemSeqs, Zenon
<1>6. work' \in Seq(Item)
    BY <1>3, <1>4, <1>5, ItemSeqs, Zenon
<1> QED BY <1>1, <1>4, <1>6, Zenon

\* The walk never reaches the first block: it is decided.
LEMMA IssuedIsNotGenesis ==
    ASSUME ChainTypes, NEW b \in Blocks, ShouldIssueBlock(b)
    PROVE  b \in Blocks \ {Genesis} /\ Parent[b] \in Blocks
<1>1. Height[lastAccepted] \in Nat /\ Height[Genesis] \in Nat /\ Height[b] \in Nat
    BY BlockTreeAssumption, Zenon DEF ChainTypes
<1>2. b # Genesis
    BY <1>1, Zenon DEF ChainTypes, ShouldIssueBlock, IsDecided
<1> QED BY <1>2, BlockTreeAssumption, Zenon

LEMMA IssueTypes ==
    ASSUME TypeInv, Lookup \/ Walk \/ SkipBlock
    PROVE  TypeInv'
<1> USE DEF TypeInv
<1>1. CASE Lookup
    <2> DEFINE it == Head(work)
    <2>1. ChainUnchanged /\ CallersUnchanged /\ UNCHANGED <<polls, anyAdded, failures>>
        BY <1>1, Zenon DEF Lookup, ChainUnchanged, CallersUnchanged
    <2>2. it.node \in Nodes /\ it.node \in Requesters /\ it.blk \in Blocks /\ Tail(work) \in Seq(Item)
        BY <1>1, HeadAndTail, ItemFields, Zenon DEF Lookup, Requesters
    <2>3. IssueItem(it.node, it.blk) \in Item
        BY <2>2, ItemTypes, Zenon
    <2>4. RequestTypes' /\ requestId' >= requestId
        BY <1>1, <2>2, SendTypes, RequestsKept DEF Lookup, RequestTypes
    <2>5. work' \in Seq(Item)
        BY <1>1, <2>2, <2>3 DEF Lookup
    <2>6. WorkTypes'
        BY <2>1, <2>5, NextWork, Zenon DEF WorkTypes
    <2> QED BY <2>1, <2>4, <2>6, ChainKept, PollsKept DEF RequestTypes
<1>2. CASE Walk
    <2> DEFINE it == Head(work)
               cur == it.blk
               up == <<cur>> \o it.chain
               parent == Parent[cur]
               further == [it EXCEPT !.blk = parent, !.chain = up]
    <2>1. ChainUnchanged /\ CallersUnchanged /\ UNCHANGED <<polls, failures>>
        BY <1>2, Zenon DEF Walk, ChainUnchanged, CallersUnchanged
    <2>2. /\ it \in Item /\ it.op = "issue" /\ it.node \in Requesters /\ cur \in Blocks
          /\ it.chain \in Seq(Blocks \ {Genesis}) /\ Tail(work) \in Seq(Item) /\ Doing("issue")
        BY <1>2, HeadAndTail, ItemFields, Zenon DEF Walk
    <2>3. ASSUME ShouldIssueBlock(cur)
          PROVE  up \in Seq(Blocks \ {Genesis}) /\ parent \in Blocks
        BY <2>2, <2>3, IssuedIsNotGenesis
    <2>4. ASSUME ShouldIssueBlock(cur)
          PROVE  further \in Item
        <3>1. it \in [op : {"issue"}, node : Requesters, blk : Blocks, chain : Seq(Blocks \ {Genesis})]
            BY <2>2, Zenon DEF Item
        <3> QED BY <2>3, <2>4, <3>1, Zenon DEF Item
    <2> DEFINE Ends == \E chain \in {it.chain, up} :
                          chain \in Seq(Blocks \ {Genesis}) /\ StartAdding(chain)
               Climbs == /\ further \in Item /\ work' = <<further>> \o Tail(work)
                         /\ UNCHANGED <<requestId, requestVars, anyAdded>>
               Asks == /\ parent \in Blocks /\ SendRequest(it.node, parent)
                       /\ work' = Tail(work) /\ UNCHANGED anyAdded
    <2>5. Ends \/ Climbs \/ Asks
        BY <1>2, <2>2, <2>3, <2>4, Zenon DEF Walk
    <2>6. RequestTypes' /\ work' \in Seq(Item) /\ anyAdded' \in BOOLEAN /\ requestId' >= requestId
        <3>1. CASE Ends
            <4>1. PICK chain \in Seq(Blocks \ {Genesis}) : StartAdding(chain)
                BY <3>1, Zenon
            <4>2. requestId' >= requestId
                BY <4>1 DEF StartAdding, RequestTypes
            <4> QED BY <2>2, <4>1, <4>2, StartAddingTypes, Zenon
        <3>2. CASE Climbs
            BY <2>2, <3>2, RequestsKept DEF WorkTypes, RequestTypes
        <3>3. CASE Asks
            BY <2>2, <3>3, SendTypes, Zenon DEF WorkTypes
        <3> QED BY <2>5, <3>1, <3>2, <3>3, Zenon
    <2>7. WorkTypes'
        BY <2>1, <2>6, NextWork, Zenon
    <2> QED BY <2>1, <2>6, <2>7, ChainKept, PollsKept DEF RequestTypes
<1>3. CASE SkipBlock
    <2>1. ChainUnchanged /\ CallersUnchanged /\ UNCHANGED <<polls, requestId, anyAdded, failures>>
        BY <1>3, Zenon DEF SkipBlock, ChainUnchanged, CallersUnchanged
    <2>2. requestId' \in requestId .. MaxRequests
        BY <2>1 DEF RequestTypes
    <2>3. RequestTypes'
        BY <1>3, <2>1, <2>2, ClearTypes, RequestsKept, Zenon DEF SkipBlock
    <2>4. work' \in Seq(Item)
        BY <1>3, HeadAndTail, Zenon DEF SkipBlock
    <2>5. WorkTypes'
        BY <2>1, <2>4, NextWork, Zenon DEF WorkTypes
    <2> QED BY <2>1, <2>3, <2>5, ChainKept, PollsKept DEF RequestTypes
<1> QED BY <1>1, <1>2, <1>3, Zenon

LEMMA AddBlockTypes ==
    ASSUME TypeInv, AddBlock
    PROVE  TypeInv'
<1> USE DEF TypeInv
<1> DEFINE b == Head(work).blk
<1>1. b \in Blocks \ {Genesis} /\ Tail(work) \in Seq(Item)
    BY HeadAndTail, ItemFields, Zenon DEF AddBlock
<1>2. ChainTypes'
    <2>1. UNCHANGED snowmanVars /\ processing' = processing \cup {b}
        BY Zenon DEF AddBlock
    <2>2. preference' \in Blocks
        BY <1>1, Zenon DEF AddBlock, ChainTypes
    <2>3. vmPreference' \in Blocks
        BY <2>2, Zenon DEF AddBlock, ChainTypes
    <2> QED BY <1>1, <2>1, <2>2, <2>3, Zenon DEF ChainTypes, snowmanVars
<1>3. PollTypes' /\ requestId' \in requestId .. MaxRequests
    <2>1. CASE UNCHANGED <<polls, requestId>>
        BY <2>1, PollsKept DEF RequestTypes
    <2>2. ASSUME NEW S \in Samples, RegisterPoll(S, FALSE)
          PROVE  PollTypes' /\ requestId' \in requestId .. MaxRequests
        BY <2>2, SampleTypes, Zenon
    <2> QED BY <2>1, <2>2, Zenon DEF AddBlock
<1>4. RequestTypes'
    BY <1>3, ClearTypes, Zenon DEF AddBlock
<1>5. work' \in Seq(Item)
    <2>1. work' = Tail(work) \/ work' = <<>>
        BY Zenon DEF AddBlock
    <2> QED BY <1>1, <2>1, ItemSeqs, Zenon
<1>6. anyAdded' \in BOOLEAN
    BY Zenon DEF AddBlock
<1>7. Fails \/ UNCHANGED failures
    BY Zenon DEF AddBlock
<1>8. CallersUnchanged
    BY Zenon DEF AddBlock, CallersUnchanged
<1>9. WorkTypes'
    BY <1>5, <1>6, <1>7, <1>8, NextWork, Zenon
<1> QED BY <1>2, <1>3, <1>4, <1>9, Zenon

LEMMA RepollTypes ==
    ASSUME TypeInv, Repoll
    PROVE  TypeInv'
<1> USE DEF TypeInv
<1>1. ChainUnchanged /\ CallersUnchanged /\ UNCHANGED requestVars /\ (Fails \/ UNCHANGED failures)
    BY Zenon DEF Repoll, ChainUnchanged, CallersUnchanged
<1>2. PollTypes' /\ requestId' \in requestId .. MaxRequests
    <2>1. CASE UNCHANGED <<polls, requestId>>
        BY <2>1, PollsKept DEF RequestTypes
    <2>2. ASSUME NEW S \in Samples, RegisterPoll(S, FALSE)
          PROVE  PollTypes' /\ requestId' \in requestId .. MaxRequests
        BY <2>2, SampleTypes, Zenon
    <2> QED BY <2>1, <2>2, Zenon DEF Repoll
<1>3. RequestTypes'
    BY <1>1, <1>2 DEF RequestTypes, requestVars
<1>4. (work' = work \/ work' = Tail(work)) /\ (anyAdded' = anyAdded \/ anyAdded' = FALSE)
    BY Zenon DEF Repoll
<1>5. work' \in Seq(Item)
    BY <1>4, HeadAndTail, Zenon DEF Repoll, WorkTypes
<1>6. anyAdded' \in BOOLEAN
    BY <1>4, Zenon DEF WorkTypes
<1>7. WorkTypes'
    BY <1>1, <1>5, <1>6, NextWork, Zenon
<1> QED BY <1>1, <1>2, <1>3, <1>7, ChainKept, Zenon

\* The results of n polls.
LEMMA ProcessTypes ==
    ASSUME NEW n \in Nat
    PROVE  /\ ProcessPollResults(n) \in Seq(Item) /\ DOMAIN ProcessPollResults(n) = 1 .. n + 2
           /\ \A i \in 1 .. n : ProcessPollResults(n)[i] = RecordItem
           /\ ProcessPollResults(n)[n + 1] = PreferItem
           /\ ProcessPollResults(n)[n + 2] = RepollItem(TRUE)
<1> DEFINE records == [i \in 1 .. n |-> RecordItem]
           rest == <<PreferItem, RepollItem(TRUE)>>
<1>1. records \in Seq(Item) /\ Len(records) = n /\ \A i \in 1 .. n : records[i] = RecordItem
    BY ItemTypes
<1>2. rest \in Seq(Item) /\ Len(rest) = 2 /\ rest[1] = PreferItem /\ rest[2] = RepollItem(TRUE)
    BY ItemTypes, Pair, Zenon
<1>3. ProcessPollResults(n) = records \o rest
    BY Zenon DEF ProcessPollResults
<1> HIDE DEF records, rest
<1>4. /\ records \o rest \in Seq(Item) /\ DOMAIN (records \o rest) = 1 .. n + 2
      /\ \A i \in 1 .. n + 2 : (records \o rest)[i] = IF i <= n THEN records[i] ELSE rest[i - n]
    <2>1. /\ records \o rest \in Seq(Item) /\ DOMAIN (records \o rest) = 1 .. Len(records) + Len(rest)
          /\ \A i \in DOMAIN (records \o rest) :
                (records \o rest)[i] = IF i <= Len(records) THEN records[i] ELSE rest[i - Len(records)]
        BY <1>1, <1>2, Concat, Zenon
    <2> QED BY <1>1, <1>2, <2>1, Zenon
<1>5. /\ \A i \in 1 .. n : (records \o rest)[i] = RecordItem
      /\ (records \o rest)[n + 1] = rest[1] /\ (records \o rest)[n + 2] = rest[2]
    BY <1>1, <1>4
<1> QED BY <1>2, <1>3, <1>4, <1>5, Zenon

\* A set of polls is finite.
LEMMA PollCount ==
    ASSUME TypeInv, NEW D \in SUBSET (1 .. requestId)
    PROVE  IsFiniteSet(D) /\ Cardinality(D) \in Nat /\ (D # {} => Cardinality(D) > 0)
<1>1. requestId \in Int
    BY DEF TypeInv, RequestTypes
<1>2. IsFiniteSet(1 .. requestId)
    BY <1>1, FS_Interval
<1>3. IsFiniteSet(D)
    BY <1>2, FS_Subset, Zenon
<1> QED BY <1>3, FS_CardinalityType, FS_EmptySet

\* One answer: the poll r keeps waiting for `left` and may be over; the polls
\* of `gone` end.
AfterVote(r, n, over, gone) ==
    LET ps == [polls EXCEPT ![r].waiting = @ \ {n}, ![r].finished = over]
    IN  /\ gone \subseteq DOMAIN polls
        /\ polls' = Without(ps, gone)
        /\ work' = IF gone = {} THEN Tail(work)
                   ELSE ProcessPollResults(Cardinality(gone)) \o Tail(work)

LEMMA VoteCases ==
    ASSUME Vote
    PROVE  LET it == Head(work)
           IN  \/ work' = Tail(work) /\ UNCHANGED polls
               \/ /\ it.req \in DOMAIN polls
                  /\ \E over \in BOOLEAN, gone \in SUBSET DOMAIN polls :
                        AfterVote(it.req, it.node, over, gone)
<1> DEFINE it == Head(work)
<1>1. CASE it.req \notin DOMAIN polls
    BY <1>1, Zenon DEF Vote
<1>2. CASE it.req \in DOMAIN polls
    <2> DEFINE old == polls[it.req]
               left == old.waiting \ {it.node}
               Over(early) == old.finished \/ old.hopeless \/ left = {} \/ early
               Ps(early) == [polls EXCEPT ![it.req].waiting = left, ![it.req].finished = Over(early)]
               Gone(early) == IF Over(early) THEN Drained(Ps(early)) ELSE {}
    <2>1. PICK early \in {FALSE, it.node \in polls[it.req].waiting} :
             /\ polls' = Without(Ps(early), Gone(early))
             /\ work' = IF Gone(early) = {} THEN Tail(work)
                        ELSE ProcessPollResults(Cardinality(Gone(early))) \o Tail(work)
        BY <1>2, Zenon DEF Vote
    <2>2. Gone(early) \subseteq DOMAIN polls
        BY Zenon DEF Drained
    <2>3. Over(early) \in BOOLEAN
        BY Zenon
    <2>4. Ps(early) = [polls EXCEPT ![it.req].waiting = @ \ {it.node}, ![it.req].finished = Over(early)]
        BY Zenon
    <2>5. AfterVote(it.req, it.node, Over(early), Gone(early))
        BY <2>1, <2>2, <2>4, Zenon DEF AfterVote
    <2> HIDE DEF Over, Gone
    <2> QED BY <1>2, <2>2, <2>3, <2>5, Zenon
<1> QED BY <1>1, <1>2, Zenon

\* A vote changes one poll and then removes those that are drained.
LEMMA VoteTypes ==
    ASSUME TypeInv, Vote
    PROVE  TypeInv'
<1> USE DEF TypeInv
<1> DEFINE it == Head(work)
<1>1. /\ ChainUnchanged /\ CallersUnchanged
      /\ UNCHANGED <<requestId, requestVars, anyAdded, failures>>
    BY Zenon DEF Vote, ChainUnchanged, CallersUnchanged
<1>2. Tail(work) \in Seq(Item)
    BY HeadAndTail, Zenon DEF Vote
<1>3. PollTypes' /\ work' \in Seq(Item)
    <2>1. CASE work' = Tail(work) /\ UNCHANGED polls
        BY <1>1, <1>2, <2>1, PollsKept DEF RequestTypes
    <2>2. ASSUME it.req \in DOMAIN polls, NEW over \in BOOLEAN, NEW gone \in SUBSET DOMAIN polls,
                 AfterVote(it.req, it.node, over, gone)
          PROVE  PollTypes' /\ work' \in Seq(Item)
        <3> DEFINE ps == [polls EXCEPT ![it.req].waiting = @ \ {it.node}, ![it.req].finished = over]
        <3>1. polls[it.req] \in PollType
            BY <2>2, Zenon DEF PollTypes
        <3>2. DOMAIN ps = DOMAIN polls /\ \A r \in DOMAIN ps : ps[r] \in PollType
            BY <3>1, Zenon DEF PollTypes, PollType
        <3>3. DOMAIN polls' \subseteq DOMAIN ps /\ \A r \in DOMAIN polls' : polls'[r] = ps[r]
            BY <2>2, Zenon DEF AfterVote, Without, Restrict
        <3>4. PollTypes'
            BY <1>1, <3>2, <3>3, Zenon DEF PollTypes
        <3>5. Cardinality(gone) \in Nat
            BY PollCount, Zenon DEF PollTypes
        <3>6. ProcessPollResults(Cardinality(gone)) \in Seq(Item)
            BY <3>5, ProcessTypes, Zenon
        <3>7. work' \in Seq(Item)
            BY <1>2, <2>2, <3>6, ItemSeqs, Zenon DEF AfterVote
        <3> QED BY <3>4, <3>7, Zenon
    <2> QED BY <2>1, <2>2, VoteCases, Zenon
<1>4. WorkTypes'
    BY <1>1, <1>3, NextWork, Zenon DEF WorkTypes
<1> QED BY <1>1, <1>3, <1>4, ChainKept, RequestsKept, Zenon

LEMMA RecordTypes ==
    ASSUME TypeInv, RecordDone \/ \E c \in Blocks \ {Genesis} : RecordAccept(c)
    PROVE  TypeInv'
<1> USE DEF TypeInv
<1>1. CASE RecordDone
    <2>1. /\ UNCHANGED <<snowmanVars, processing, vmPreference, polls, requestId, requestVars, anyAdded>>
          /\ CallersUnchanged /\ (Fails \/ UNCHANGED failures)
        BY <1>1, Zenon DEF RecordDone, CallersUnchanged
    <2>2. Tail(work) \in Seq(Item)
        BY <1>1, HeadAndTail, Zenon DEF RecordDone
    <2>3. Tails \subseteq Blocks
        BY Zenon DEF Tails, ChainTypes
    <2>4. preference' \in Blocks
        BY <1>1, <2>3, Zenon DEF RecordDone, ChainTypes
    <2>5. work' = Tail(work) \/ work' = <<>>
        BY <1>1, Zenon DEF RecordDone
    <2>6. work' \in Seq(Item)
        BY <2>2, <2>5, ItemSeqs, Zenon
    <2>7. WorkTypes'
        BY <2>1, <2>6, NextWork, Zenon DEF WorkTypes
    <2>8. ChainTypes'
        BY <2>1, <2>4, Zenon DEF ChainTypes, snowmanVars
    <2> QED BY <2>1, <2>7, <2>8, RequestsKept, PollsKept DEF RequestTypes
<1>2. ASSUME NEW c \in Blocks \ {Genesis}, RecordAccept(c)
      PROVE  TypeInv'
    <2>1. /\ UNCHANGED <<preference, vmPreference, polls, requestId, requestVars, work, anyAdded, failures>>
          /\ CallersUnchanged
        BY <1>2, Zenon DEF RecordAccept, CallersUnchanged
    <2>2. /\ lastAccepted' = c /\ accepted' = accepted \cup {c} /\ Parent[c] = lastAccepted
          /\ \E R \in SUBSET processing : rejected' = rejected \cup R /\ processing' \subseteq processing
        BY <1>2, Zenon DEF RecordAccept
    <2>3. Height[Genesis] <= Height[c]
        BY <2>2, BlockTreeAssumption DEF ChainTypes
    <2>4. ChainTypes'
        BY <2>1, <2>2, <2>3, Zenon DEF ChainTypes
    <2>5. WorkTypes'
        BY <2>1, NextWork, Zenon DEF WorkTypes
    <2> QED BY <2>1, <2>4, <2>5, RequestsKept, PollsKept DEF RequestTypes
<1> QED BY <1>1, <1>2, Zenon

LEMMA PreferBuildTypes ==
    ASSUME TypeInv, Prefer \/ Build
    PROVE  TypeInv'
<1> USE DEF TypeInv
<1>1. CASE Prefer
    <2>1. /\ UNCHANGED <<consensusVars, polls, requestId, requestVars, anyAdded>>
          /\ CallersUnchanged /\ (Fails \/ UNCHANGED failures)
        BY <1>1, Zenon DEF Prefer, CallersUnchanged
    <2>2. Tail(work) \in Seq(Item)
        BY <1>1, HeadAndTail, Zenon DEF Prefer
    <2>3. vmPreference' \in Blocks
        BY <1>1, Zenon DEF Prefer, ChainTypes
    <2>4. work' = Tail(work) \/ work' = <<>>
        BY <1>1, Zenon DEF Prefer
    <2>5. work' \in Seq(Item)
        BY <2>2, <2>4, ItemSeqs, Zenon
    <2>6. WorkTypes'
        BY <2>1, <2>5, NextWork, Zenon DEF WorkTypes
    <2>7. ChainTypes'
        BY <2>1, <2>3, Zenon DEF ChainTypes, consensusVars, snowmanVars
    <2> QED BY <2>1, <2>6, <2>7, RequestsKept, PollsKept DEF RequestTypes
<1>2. CASE Build
    <2>1. /\ ChainUnchanged /\ UNCHANGED <<polls, requestId, requestVars, anyAdded, acceptedFrontiers>>
          /\ (Fails \/ UNCHANGED failures)
        BY <1>2, Zenon DEF Build, ChainUnchanged
    <2>2. Tail(work) \in Seq(Item)
        BY <1>2, HeadAndTail, Zenon DEF Build
    <2>3. pendingBuildBlocks' \in 0 .. MaxBuilds
        BY <1>2, EngineAssumption DEF Build, WorkTypes
    <2>4. work' \in Seq(Item)
        <3>1. ASSUME NEW b \in Blocks, work' = <<IssueItem(Self, b), BuildItem>> \o Tail(work)
              PROVE  work' \in Seq(Item)
            <4>1. IssueItem(Self, b) \in Item /\ BuildItem \in Item
                BY ItemTypes, Zenon DEF Requesters
            <4>2. <<IssueItem(Self, b), BuildItem>> \in Seq(Item)
                BY <4>1, Pair, Zenon
            <4> QED BY <2>2, <3>1, <4>2, ItemSeqs, Zenon
        <3>2. CASE work' = Tail(work)
            BY <2>2, <3>2, Zenon
        <3> QED BY <1>2, <3>1, <3>2, Zenon DEF Build
    <2>5. failures' \in 0 .. MaxFailures
        BY <2>1, FailsTypes, Zenon
    <2>6. WorkTypes'
        BY <2>1, <2>3, <2>4, <2>5, Zenon DEF WorkTypes
    <2> QED BY <2>1, <2>6, ChainKept, RequestsKept, PollsKept DEF RequestTypes
<1> QED BY <1>1, <1>2, Zenon

LEMMA TypeStep == TypeInv /\ [Next]_vars => TypeInv'
<1> SUFFICES ASSUME TypeInv, [Next]_vars PROVE TypeInv'
    BY Zenon
<1>1. CASE UNCHANGED vars
    BY <1>1, Zenon DEF vars, consensusVars, snowmanVars, requestVars, TypeInv,
                       ChainTypes, RequestTypes,
                PollTypes, WorkTypes
<1>2. CASE Next
    BY <1>2, CallTypes, IssueTypes, AddBlockTypes, RepollTypes, VoteTypes,
       RecordTypes,
       PreferBuildTypes, Zenon DEF Next, OtherNext
<1> QED BY <1>1, <1>2, Zenon

LEMMA Types == Spec => []TypeInv
BY InitTypes, TypeStep, PTL DEF Spec

\* The types of the engine's state hold, whatever peers, timers and the VM do.
THEOREM EngineTypes == Spec => []TypeOK
BY Types, InvImpliesTypeOK, PTL

-----------------------------------------------------------------------------
(* Requests for blocks.  The invariant is inductive over the types: a new   *)
(* request id is in no key.                                                *)

LEMMA SameRequests ==
    ASSUME RequestsAreExact, UNCHANGED requestVars,
           processing' \cup accepted' \subseteq processing \cup accepted
    PROVE  RequestsAreExact'
BY Zenon DEF RequestsAreExact, requestVars

LEMMA SendExact ==
    ASSUME TypeInv, RequestsAreExact, NEW n, NEW b, b \notin Held, SendRequest(n, b),
           UNCHANGED <<processing, accepted>>
    PROVE  RequestsAreExact'
<1>1. CASE b \in DOMAIN blkReqsById
    BY <1>1, SameRequests, Zenon DEF SendRequest
<1>2. CASE b \notin DOMAIN blkReqsById
    <2> DEFINE key == <<n, requestId'>>
    <2>1. /\ DOMAIN blkReqs' = DOMAIN blkReqs \cup {key}
          /\ \A k \in DOMAIN blkReqs' : blkReqs'[k] = IF k = key THEN b ELSE blkReqs[k]
          /\ DOMAIN blkReqsById' = DOMAIN blkReqsById \cup {b}
          /\ \A c \in DOMAIN blkReqsById' : blkReqsById'[c] = IF c = b THEN key ELSE blkReqsById[c]
        BY <1>2, Zenon DEF SendRequest
    <2>2. key \notin DOMAIN blkReqs
        BY <1>2 DEF SendRequest, TypeInv, RequestTypes
    <2> HIDE DEF key
    <2>3. \A k \in DOMAIN blkReqs' : blkReqs'[k] \in DOMAIN blkReqsById' /\ blkReqsById'[blkReqs'[k]] = k
        BY <1>2, <2>1, <2>2, Zenon DEF RequestsAreExact
    <2>4. \A c \in DOMAIN blkReqsById' : blkReqsById'[c] \in DOMAIN blkReqs' /\ blkReqs'[blkReqsById'[c]] = c
        BY <1>2, <2>1, <2>2, Zenon DEF RequestsAreExact
    <2>5. DOMAIN blkReqsById' \cap (processing' \cup accepted') = {}
        BY <2>1, Zenon DEF RequestsAreExact, Held
    <2> QED BY <2>3, <2>4, <2>5, Zenon DEF RequestsAreExact
<1> QED BY <1>1, <1>2, Zenon

\* The request for b is removed from both maps.
LEMMA RemoveExact ==
    ASSUME RequestsAreExact, NEW b \in DOMAIN blkReqsById,
           blkReqs' = Without(blkReqs, {blkReqsById[b]}), blkReqsById' = Without(blkReqsById, {b}),
           processing' \cup accepted' \subseteq processing \cup accepted \cup {b}
    PROVE  RequestsAreExact'
<1>1. /\ DOMAIN blkReqs' = DOMAIN blkReqs \ {blkReqsById[b]}
      /\ \A k \in DOMAIN blkReqs' : blkReqs'[k] = blkReqs[k]
      /\ DOMAIN blkReqsById' = DOMAIN blkReqsById \ {b}
      /\ \A c \in DOMAIN blkReqsById' : blkReqsById'[c] = blkReqsById[c]
    BY Zenon DEF Without, Restrict
<1>2. \A k \in DOMAIN blkReqs' : blkReqs'[k] \in DOMAIN blkReqsById' /\ blkReqsById'[blkReqs'[k]] = k
    BY <1>1 DEF RequestsAreExact
<1>3. \A c \in DOMAIN blkReqsById' : blkReqsById'[c] \in DOMAIN blkReqs' /\ blkReqs'[blkReqsById'[c]] = c
    BY <1>1 DEF RequestsAreExact
<1>4. DOMAIN blkReqsById' \cap (processing' \cup accepted') = {}
    BY <1>1, Zenon DEF RequestsAreExact
<1> QED BY <1>2, <1>3, <1>4, Zenon DEF RequestsAreExact

LEMMA ClearExact ==
    ASSUME RequestsAreExact, NEW b, ClearRequest(b),
           processing' \cup accepted' \subseteq processing \cup accepted \cup {b}
    PROVE  RequestsAreExact'
<1>1. CASE b \in DOMAIN blkReqsById
    BY <1>1, RemoveExact, Zenon DEF ClearRequest
<1>2. CASE b \notin DOMAIN blkReqsById
    BY <1>2 DEF ClearRequest, requestVars, RequestsAreExact
<1> QED BY <1>1, <1>2, Zenon

LEMMA AbandonExact ==
    ASSUME RequestsAreExact, NEW n, NEW r, AbandonRequest(n, r), UNCHANGED <<processing, accepted>>
    PROVE  RequestsAreExact'
<1>1. CASE <<n, r>> \in DOMAIN blkReqs
    <2> DEFINE b == blkReqs[<<n, r>>]
    <2>1. b \in DOMAIN blkReqsById /\ blkReqsById[b] = <<n, r>>
        BY <1>1, Zenon DEF RequestsAreExact
    <2>2. /\ blkReqs' = Without(blkReqs, {blkReqsById[b]})
          /\ blkReqsById' = Without(blkReqsById, {b})
        BY <1>1, <2>1, Zenon DEF AbandonRequest
    <2> QED BY <2>1, <2>2, RemoveExact, Zenon
<1>2. CASE <<n, r>> \notin DOMAIN blkReqs
    BY <1>2, SameRequests, Zenon DEF AbandonRequest
<1> QED BY <1>1, <1>2, Zenon

LEMMA RequestsStep ==
    ASSUME TypeInv, RequestsAreExact, [Next]_vars
    PROVE  RequestsAreExact'
<1>2. ASSUME NEW n, NEW r, NEW b, Put(n, r, b) PROVE RequestsAreExact'
    <2>1. AbandonRequest(n, r) \/ UNCHANGED requestVars
        BY <1>2, Zenon DEF Put
    <2>2. UNCHANGED <<processing, accepted>>
        BY <1>2, Zenon DEF Put, consensusVars, snowmanVars
    <2> QED BY <2>1, <2>2, AbandonExact, SameRequests, Zenon
<1>3. ASSUME NEW n, NEW r, GetFailed(n, r) PROVE RequestsAreExact'
    BY <1>3, AbandonExact, Zenon DEF GetFailed, consensusVars, snowmanVars
<1>4. CASE Lookup
    <2>1. UNCHANGED <<processing, accepted>>
        BY <1>4, Zenon DEF Lookup, consensusVars, snowmanVars
    <2>2. UNCHANGED requestVars \/ \E n, b : b \notin Held /\ SendRequest(n, b)
        BY <1>4, Zenon DEF Lookup
    <2> QED BY <2>1, <2>2, SameRequests, SendExact, Zenon
<1>5. CASE Walk
    <2>1. UNCHANGED <<processing, accepted>>
        BY <1>5, Zenon DEF Walk, consensusVars, snowmanVars
    <2>2. \/ UNCHANGED requestVars \/ \E b : ClearRequest(b)
          \/ \E n, b : b \notin Held /\ SendRequest(n, b)
        BY <1>5, Zenon DEF Walk, StartAdding
    <2> QED BY <2>1, <2>2, SameRequests, ClearExact, SendExact, Zenon
<1>6. CASE SkipBlock
    <2>1. UNCHANGED <<processing, accepted>>
        BY <1>6, Zenon DEF SkipBlock, consensusVars, snowmanVars
    <2>2. UNCHANGED requestVars \/ \E b : ClearRequest(b)
        BY <1>6, Zenon DEF SkipBlock
    <2> QED BY <2>1, <2>2, SameRequests, ClearExact, Zenon
<1>7. CASE AddBlock
    <2>1. \E b : ClearRequest(b) /\ processing' = processing \cup {b} /\ UNCHANGED accepted
        BY <1>7, Zenon DEF AddBlock, snowmanVars
    <2> QED BY <2>1, ClearExact, Zenon
<1>8. ASSUME NEW c \in Blocks, RecordAccept(c) PROVE RequestsAreExact'
    <2>1. /\ UNCHANGED requestVars /\ c \in processing /\ accepted' = accepted \cup {c}
          /\ processing' \subseteq processing
        BY <1>8, Zenon DEF RecordAccept
    <2> QED BY <2>1, SameRequests, Zenon
<1>9. CASE UNCHANGED <<requestVars, processing, accepted>>
    BY <1>9, SameRequests, Zenon
<1>10. \/ PutNext \/ (\E n \in Nodes, r \in Requests : GetFailed(n, r))
       \/ Lookup \/ Walk \/ SkipBlock \/ AddBlock \/ (\E c \in Blocks \ {Genesis} : RecordAccept(c))
       \/ UNCHANGED <<requestVars, processing, accepted>>
    <2> USE DEF consensusVars, snowmanVars
    <2>1. CASE UNCHANGED vars
        BY <2>1, Zenon DEF vars
    <2>2. ASSUME NEW n, NEW r, NEW b, NEW p, NEW h, NEW acc,
                 \/ PushQuery(n, b) \/ PullQuery(n, b) \/ Chits(n, r, p, h, acc)
                 \/ QueryFailed(n, r) \/ Gossip(n) \/ NotifyPendingTxs
          PROVE  UNCHANGED <<requestVars, processing, accepted>>
        BY <2>2, Zenon DEF PushQuery, PullQuery, Chits, QueryFailed, Gossip,
                           NotifyPendingTxs
    <2>3. ASSUME Repoll \/ Vote \/ RecordDone \/ Prefer \/ Build
          PROVE  UNCHANGED <<requestVars, processing, accepted>>
        BY <2>3, Zenon DEF Repoll, Vote, RecordDone, Prefer, Build
    <2> QED BY <2>1, <2>2, <2>3, Zenon DEF Next, OtherNext
<1> QED BY <1>2, <1>3, <1>4, <1>5, <1>6, <1>7, <1>8, <1>9, <1>10, Zenon DEF PutNext

\* The two maps of requests are inverse and hold no issued block, for any
\* number of peers, requests and failures: send_request, put, get_failed and
\* the loops of issue_from in every order.
THEOREM RequestsExact == Spec => []RequestsAreExact
<1>1. Init => RequestsAreExact
    BY Zenon DEF Init, SnowmanInit, EmptyFun, RequestsAreExact
<1>2. TypeInv /\ RequestsAreExact /\ [Next]_vars => RequestsAreExact'
    BY RequestsStep, Zenon
<1> QED BY <1>1, <1>2, Types, PTL DEF Spec

-----------------------------------------------------------------------------
(* A call that ends polls tells the VM and asks again.                     *)

\* Every poll result that is recorded is followed by set_vm_preference.
PreferFollows ==
    \A i \in DOMAIN work : work[i].op = "record" =>
        \E j \in DOMAIN work : i < j /\ work[j].op = "prefer"

VmIsTold == vmPreference = preference \/ \E i \in DOMAIN work : work[i].op = "prefer"

\* The blocks of a chain are added one after the other, then comes its repoll.
AddsAreRepolled ==
    \A i \in DOMAIN work : work[i].op = "add" =>
        \E k \in DOMAIN work : /\ i < k /\ work[k] = RepollItem(FALSE)
                               /\ \A j \in i .. k - 1 : work[j].op = "add"

\* any_added is set between the first block of a chain and its repoll only.
AddedIsRepolled ==
    anyAdded => work # <<>> /\ (work[1].op = "add" \/ work[1] = RepollItem(FALSE))

\* Blocks process and too few polls are outstanding.
PollsMissing == processing # {} /\ Cardinality(DOMAIN polls) < ConcurrentRepolls

RepollFollows ==
    PollsMissing => anyAdded \/ \E i \in DOMAIN work : work[i] = RepollItem(TRUE)

ReadyInv ==
    /\ AddsAreRepolled /\ AddedIsRepolled
    /\ failures = 0 => PreferFollows /\ VmIsTold /\ RepollFollows

\* The first item of `work` gave way to n others; the rest stays behind them.
Shifted(n) ==
    /\ n \in Nat /\ DOMAIN work' = 1 .. n + Len(work) - 1
    /\ \A i \in DOMAIN work \ {1} : work'[n + i - 1] = work[i]

LEMMA PopShifts ==
    ASSUME WorkTypes, NEW op, Doing(op), work' = Tail(work)
    PROVE  Shifted(0)
BY HeadAndTail DEF Shifted, WorkTypes

LEMMA PrependShifts ==
    ASSUME WorkTypes, NEW op, Doing(op), NEW new \in Seq(Item), work' = new \o Tail(work)
    PROVE  /\ Shifted(Len(new)) /\ DOMAIN new = 1 .. Len(new)
           /\ \A i \in 1 .. Len(new) : work'[i] = new[i]
<1> DEFINE rest == Tail(work)
<1>1. /\ rest \in Seq(Item) /\ DOMAIN work = 1 .. Len(work) /\ DOMAIN rest = 1 .. Len(work) - 1
      /\ \A i \in DOMAIN rest : rest[i] = work[i + 1]
    BY HeadAndTail, Zenon
<1>2. Len(work) \in Nat /\ Len(work) > 0 /\ Len(rest) = Len(work) - 1
    BY HeadAndTail DEF WorkTypes
<1> HIDE DEF rest
<1>3. /\ DOMAIN new = 1 .. Len(new) /\ Len(new) \in Nat
      /\ DOMAIN (new \o rest) = 1 .. Len(new) + Len(rest)
      /\ \A i \in DOMAIN (new \o rest) :
            (new \o rest)[i] = IF i <= Len(new) THEN new[i] ELSE rest[i - Len(new)]
    BY <1>1, Concat, Zenon
<1>4. work' = new \o rest
    BY Zenon DEF rest
<1>5. DOMAIN work' = 1 .. Len(new) + Len(work) - 1
    BY <1>2, <1>3, <1>4, Zenon
<1>6. \A i \in 1 .. Len(new) : work'[i] = new[i]
    BY <1>2, <1>3, <1>4
<1>7. ASSUME NEW i \in DOMAIN work \ {1}
      PROVE  work'[Len(new) + i - 1] = work[i]
    <2>0. i - 1 \in DOMAIN rest /\ (i - 1) + 1 = i
        BY <1>1, <1>2
    <2>1. rest[i - 1] = work[i]
        BY <1>1, <2>0, Zenon
    <2>2. Len(new) + i - 1 \in DOMAIN (new \o rest) /\ ~(Len(new) + i - 1 <= Len(new))
        BY <1>1, <1>2, <1>3
    <2>3. (Len(new) + i - 1) - Len(new) = i - 1
        BY <1>1, <1>2, <1>3
    <2> QED BY <1>3, <1>4, <2>1, <2>2, <2>3, Zenon
<1> QED BY <1>3, <1>5, <1>6, <1>7, Zenon DEF Shifted

\* What a shift keeps.
LEMMA ShiftKeeps ==
    ASSUME WorkTypes, NEW op, Doing(op), NEW n, Shifted(n)
    PROVE  /\ \A i \in DOMAIN work \ {1} : \E j \in DOMAIN work' : work'[j] = work[i]
           /\ \A j \in DOMAIN work' : j > n =>
                 j - n + 1 \in DOMAIN work \ {1} /\ work'[j] = work[j - n + 1]
<1>1. DOMAIN work = 1 .. Len(work) /\ Len(work) \in Nat /\ n \in Nat
    BY HeadAndTail DEF WorkTypes, Shifted
<1>2. ASSUME NEW i \in DOMAIN work \ {1}
      PROVE  \E j \in DOMAIN work' : work'[j] = work[i]
    <2>1. n + i - 1 \in DOMAIN work'
        BY <1>1 DEF Shifted
    <2> QED BY <2>1, Zenon DEF Shifted
<1>3. ASSUME NEW j \in DOMAIN work', j > n
      PROVE  j - n + 1 \in DOMAIN work \ {1} /\ work'[j] = work[j - n + 1]
    <2>1. j - n + 1 \in DOMAIN work \ {1} /\ n + (j - n + 1) - 1 = j
        BY <1>1, <1>3 DEF Shifted
    <2> QED BY <2>1, Zenon DEF Shifted
<1> QED BY <1>2, <1>3, Zenon

\* The new items are complete in themselves.
NewRecordsPrefer(n) ==
    \A i \in 1 .. n : work'[i].op = "record" => \E j \in i + 1 .. n : work'[j].op = "prefer"

NewAddsRepoll(n) ==
    \A i \in 1 .. n : work'[i].op = "add" =>
        \E k \in i + 1 .. n : /\ work'[k] = RepollItem(FALSE)
                              /\ \A j \in i .. k - 1 : work'[j].op = "add"

LEMMA ShiftPrefers ==
    ASSUME WorkTypes, NEW op, Doing(op), NEW n, Shifted(n), NewRecordsPrefer(n), PreferFollows
    PROVE  PreferFollows'
<1>1. DOMAIN work = 1 .. Len(work) /\ Len(work) \in Nat /\ Len(work) > 0 /\ n \in Nat
    BY HeadAndTail DEF WorkTypes, Shifted
<1> SUFFICES ASSUME NEW i \in DOMAIN work', work'[i].op = "record"
             PROVE  \E j \in DOMAIN work' : i < j /\ work'[j].op = "prefer"
    BY Zenon DEF PreferFollows
<1>2. CASE i <= n
    BY <1>1, <1>2 DEF Shifted, NewRecordsPrefer
<1>3. CASE i > n
    <2>1. i - n + 1 \in DOMAIN work \ {1} /\ work'[i] = work[i - n + 1]
        BY <1>3, ShiftKeeps, Zenon
    <2>2. PICK j \in DOMAIN work : i - n + 1 < j /\ work[j].op = "prefer"
        BY <2>1, Zenon DEF PreferFollows
    <2>3. j # 1 /\ n + j - 1 \in DOMAIN work' /\ i < n + j - 1
        BY <1>1, <2>1, <2>2 DEF Shifted
    <2> QED BY <2>2, <2>3, Zenon DEF Shifted
<1> QED BY <1>1, <1>2, <1>3 DEF Shifted

LEMMA ShiftRepolls ==
    ASSUME WorkTypes, NEW op, Doing(op), NEW n, Shifted(n), NewAddsRepoll(n), AddsAreRepolled
    PROVE  AddsAreRepolled'
<1>1. DOMAIN work = 1 .. Len(work) /\ Len(work) \in Nat /\ Len(work) > 0 /\ n \in Nat
    BY HeadAndTail DEF WorkTypes, Shifted
<1>2. DOMAIN work' = 1 .. n + Len(work) - 1
    BY Zenon DEF Shifted
<1> SUFFICES ASSUME NEW i \in DOMAIN work', work'[i].op = "add"
             PROVE  \E k \in DOMAIN work' : /\ i < k /\ work'[k] = RepollItem(FALSE)
                                            /\ \A j \in i .. k - 1 : work'[j].op = "add"
    BY Zenon DEF AddsAreRepolled
<1>3. CASE i <= n
    <2>1. PICK k \in i + 1 .. n : /\ work'[k] = RepollItem(FALSE)
                                  /\ \A j \in i .. k - 1 : work'[j].op = "add"
        <3>1. i \in 1 .. n
            BY <1>1, <1>2, <1>3
        <3> QED BY <3>1, Zenon DEF NewAddsRepoll
    <2>2. k \in DOMAIN work' /\ i < k
        BY <1>1, <1>2, <2>1
    <2> QED BY <2>1, <2>2, Zenon
<1>4. CASE i > n
    <2>1. i - n + 1 \in DOMAIN work \ {1} /\ work'[i] = work[i - n + 1]
        BY <1>4, ShiftKeeps, Zenon
    <2>2. PICK k \in DOMAIN work : /\ i - n + 1 < k /\ work[k] = RepollItem(FALSE)
                                   /\ \A j \in i - n + 1 .. k - 1 : work[j].op = "add"
        BY <2>1, Zenon DEF AddsAreRepolled
    <2>3. k # 1 /\ n + k - 1 \in DOMAIN work' /\ i < n + k - 1
        BY <1>1, <1>2, <2>1, <2>2
    <2>4. work'[n + k - 1] = RepollItem(FALSE)
        BY <2>2, <2>3, Zenon DEF Shifted
    <2>5. ASSUME NEW j \in i .. n + k - 2
          PROVE  work'[j].op = "add"
        <3>1. j \in DOMAIN work' /\ j > n /\ j - n + 1 \in i - n + 1 .. k - 1
            BY <1>1, <1>2, <1>4, <2>1, <2>2, <2>3
        <3> QED BY <2>2, <3>1, ShiftKeeps, Zenon
    <2>6. (n + k - 1) - 1 = n + k - 2
        <3>1. n \in Int /\ k \in Int
            BY <1>1
        <3> QED BY <3>1
    <2>7. \A j \in i .. (n + k - 1) - 1 : work'[j].op = "add"
        BY <2>5, <2>6, Zenon
    <2> QED BY <2>3, <2>4, <2>7, Zenon
<1>5. i <= n \/ i > n
    BY <1>1, <1>2
<1> QED BY <1>3, <1>4, <1>5, Zenon

\* While another item is worked on, no chain is being added.
LEMMA NotAdding ==
    ASSUME WorkTypes, AddedIsRepolled, NEW op, Doing(op), op \notin {"add", "repoll"}
    PROVE  anyAdded = FALSE
<1>1. work[1].op = op
    BY HeadAndTail, Zenon
<1>2. RepollItem(FALSE).op = "repoll"
    BY Zenon DEF RepollItem
<1>3. ~anyAdded
    BY <1>1, <1>2, Zenon DEF AddedIsRepolled
<1> QED BY <1>3, Zenon DEF WorkTypes

\* A step that is not an add, a repoll or set_vm_preference.
LEMMA OtherReady ==
    ASSUME TypeInv, ReadyInv, NEW op, Doing(op), op \notin {"add", "repoll", "prefer"},
           NEW n, Shifted(n), NewRecordsPrefer(n), NewAddsRepoll(n),
           UNCHANGED anyAdded \/ anyAdded' = FALSE, Fails \/ UNCHANGED failures,
           UNCHANGED vmPreference, UNCHANGED preference \/ op = "record",
           PollsMissing' => PollsMissing \/ \E i \in 1 .. n : work'[i] = RepollItem(TRUE)
    PROVE  ReadyInv'
<1>1. WorkTypes /\ AddsAreRepolled /\ AddedIsRepolled /\ n \in Nat
    BY Zenon DEF TypeInv, ReadyInv, Shifted
<1>2. anyAdded = FALSE /\ anyAdded' = FALSE
    BY <1>1, NotAdding, Zenon
<1>3. AddsAreRepolled' /\ AddedIsRepolled'
    BY <1>1, <1>2, ShiftRepolls, Zenon DEF AddedIsRepolled
<1>4. ASSUME failures' = 0
      PROVE  PreferFollows' /\ VmIsTold' /\ RepollFollows'
    <2>1. failures = 0
        BY <1>1, <1>4 DEF WorkTypes, Fails
    <2>2. PreferFollows /\ VmIsTold /\ RepollFollows
        BY <2>1, Zenon DEF ReadyInv
    <2>3. PreferFollows'
        BY <1>1, <2>2, ShiftPrefers, Zenon
    <2>4. work[1].op = op /\ 1 \in DOMAIN work
        BY <1>1, HeadAndTail DEF WorkTypes
    <2>5. \A i \in DOMAIN work \ {1} : \E j \in DOMAIN work' : work'[j] = work[i]
        BY <1>1, ShiftKeeps, Zenon
    <2>6. VmIsTold'
        <3>1. CASE UNCHANGED preference
            BY <2>2, <2>4, <2>5, <3>1, Zenon DEF VmIsTold
        <3>2. CASE op = "record"
            <4>1. PICK j \in DOMAIN work : 1 < j /\ work[j].op = "prefer"
                BY <2>2, <2>4, <3>2, Zenon DEF PreferFollows
            <4>2. j # 1
                BY <4>1
            <4> QED BY <2>5, <4>1, <4>2, Zenon DEF VmIsTold
        <3> QED BY <3>1, <3>2, Zenon
    <2>7. RepollFollows'
        <3>1. CASE PollsMissing
            <4>1. PICK i \in DOMAIN work : work[i] = RepollItem(TRUE)
                BY <1>2, <2>2, <3>1, Zenon DEF RepollFollows
            <4>2. i # 1
                BY <2>4, <4>1 DEF RepollItem
            <4> QED BY <2>5, <4>1, <4>2, Zenon DEF RepollFollows
        <3>2. ASSUME NEW i \in 1 .. n, work'[i] = RepollItem(TRUE)
              PROVE  RepollFollows'
            <4>1. i \in DOMAIN work'
                BY <1>1, <2>4 DEF Shifted, WorkTypes
            <4> QED BY <3>2, <4>1, Zenon DEF RepollFollows
        <3>3. CASE ~PollsMissing'
            BY <3>3, Zenon DEF RepollFollows
        <3> QED BY <3>1, <3>2, <3>3, Zenon
    <2> QED BY <2>3, <2>6, <2>7, Zenon
<1> QED BY <1>3, <1>4, Zenon DEF ReadyInv

\* A call that fails and ends.
LEMMA FailedReady ==
    ASSUME TypeInv, Fails, work' = <<>>, anyAdded' = FALSE
    PROVE  ReadyInv'
<1>1. failures' # 0
    BY DEF Fails, TypeInv, WorkTypes
<1>2. DOMAIN work' = {}
    OBVIOUS
<1> QED BY <1>1, <1>2, Zenon DEF ReadyInv, AddsAreRepolled, AddedIsRepolled

\* Calls start when nothing is missing; nothing they start with is a record or
\* the addition of a block.
LEMMA CallReady ==
    ASSUME TypeInv, ReadyInv, Idle, UNCHANGED <<processing, preference, vmPreference, anyAdded, failures>>,
           \A i \in DOMAIN work' : work'[i].op \notin {"record", "add"},
           PollsMissing' => PollsMissing
    PROVE  ReadyInv'
<1>1. work = <<>> /\ DOMAIN work = {}
    BY DEF Idle
<1>2. ~anyAdded /\ ~anyAdded'
    BY <1>1, Zenon DEF ReadyInv, AddedIsRepolled
<1>3. AddsAreRepolled' /\ AddedIsRepolled' /\ PreferFollows'
    BY <1>2, Zenon DEF AddsAreRepolled, AddedIsRepolled, PreferFollows
<1>4. ASSUME failures' = 0
      PROVE  VmIsTold' /\ RepollFollows'
    <2>1. vmPreference = preference /\ ~PollsMissing
        BY <1>1, <1>2, <1>4, Zenon DEF ReadyInv, VmIsTold, RepollFollows
    <2> QED BY <2>1, Zenon DEF VmIsTold, RepollFollows
<1> QED BY <1>3, <1>4, Zenon DEF ReadyInv

\* The items calls start with.
LEMMA StartOps ==
    ASSUME NEW it \in Item, it.op \notin {"record", "add"}
    PROVE  \A i \in DOMAIN <<it>> : <<it>>[i].op \notin {"record", "add"}
OBVIOUS

LEMMA OneMore ==
    ASSUME NEW m \in Nat, NEW n \in {m, m + 1}
    PROVE  n >= m /\ n \in Nat
OBVIOUS

LEMMA MoreIsEnough ==
    ASSUME NEW m \in Nat, NEW n \in Nat, n >= m, NEW k \in Nat
    PROVE  n < k => m < k
OBVIOUS

LEMMA ChitsOps ==
    ASSUME NEW n \in Nodes, NEW r \in Nat, NEW p \in Blocks, NEW h \in Blocks
    PROVE  \A i \in DOMAIN ChitsWork(n, r, p, h) :
              ChitsWork(n, r, p, h)[i].op \notin {"record", "add"}
<1> DEFINE a == <<LookupItem(n, p)>>
           b == IF h = p THEN <<>> ELSE <<LookupItem(n, h)>>
           c == <<VoteItem(n, r)>>
           Fine(s) == s \in Seq(Item) /\ \A i \in DOMAIN s : s[i].op \notin {"record", "add"}
<1>1. LookupItem(n, p) \in Item /\ LookupItem(n, h) \in Item /\ VoteItem(n, r) \in Item
    BY ItemTypes, Zenon
<1>2. /\ LookupItem(n, p).op = "lookup" /\ LookupItem(n, h).op = "lookup"
      /\ VoteItem(n, r).op = "vote"
    BY Zenon DEF LookupItem, VoteItem
<1>3. Fine(a)
    BY <1>1, <1>2, StartOps, ItemSeqs, Zenon
<1>4. Fine(b)
    BY <1>1, <1>2, StartOps, ItemSeqs
<1>5. Fine(c)
    BY <1>1, <1>2, StartOps, ItemSeqs, Zenon
<1>6. ASSUME NEW s, NEW t, Fine(s), Fine(t)
      PROVE  Fine(s \o t)
    <2>1. /\ s \o t \in Seq(Item)
          /\ DOMAIN s = 1 .. Len(s) /\ DOMAIN t = 1 .. Len(t) /\ Len(s) \in Nat /\ Len(t) \in Nat
          /\ DOMAIN (s \o t) = 1 .. Len(s) + Len(t)
          /\ \A i \in DOMAIN (s \o t) : (s \o t)[i] = IF i <= Len(s) THEN s[i] ELSE t[i - Len(s)]
        BY <1>6, Concat, Zenon
    <2>2. ASSUME NEW i \in DOMAIN (s \o t)
          PROVE  (s \o t)[i].op \notin {"record", "add"}
        <3>1. CASE i <= Len(s)
            BY <1>6, <2>1, <3>1
        <3>2. CASE ~(i <= Len(s))
            <4>1. i - Len(s) \in DOMAIN t /\ (s \o t)[i] = t[i - Len(s)]
                BY <2>1, <3>2
            <4> QED BY <1>6, <4>1, Zenon
        <3> QED BY <3>1, <3>2, Zenon
    <2> QED BY <2>1, <2>2, Zenon
<1>7. ChitsWork(n, r, p, h) = a \o b \o c
    BY Zenon DEF ChitsWork
<1> HIDE DEF a, b, c
<1>8. Fine(a \o b \o c)
    <2> HIDE DEF Fine
    <2> QED BY <1>3, <1>4, <1>5, <1>6, Zenon
<1> QED BY <1>7, <1>8, Zenon

LEMMA CallsReady ==
    ASSUME TypeInv, ReadyInv,
           \/ PutNext
           \/ \E n \in Nodes, r \in Requests : GetFailed(n, r)
           \/ \E n \in Nodes, b \in Blocks : PushQuery(n, b)
           \/ \E n \in Nodes, b \in Blocks : PullQuery(n, b)
           \/ \E n \in Nodes, r \in Requests, p \in Blocks, h \in Blocks, acc \in Frontiers :
                 Chits(n, r, p, h, acc)
           \/ \E n \in Nodes, r \in Requests : QueryFailed(n, r)
           \/ \E n \in Nodes : Gossip(n)
           \/ NotifyPendingTxs
    PROVE  ReadyInv'
<1> DEFINE Starts == \A i \in DOMAIN work' : work'[i].op \notin {"record", "add"}
           Others == UNCHANGED <<processing, preference, vmPreference, anyAdded, failures>>
<1>1. ASSUME Idle, UNCHANGED <<consensusVars, vmPreference, polls, anyAdded, failures>>, Starts
      PROVE  ReadyInv'
    <2>1. Others /\ (PollsMissing' => PollsMissing)
        BY <1>1, Zenon DEF consensusVars, PollsMissing
    <2> QED BY <1>1, <2>1, CallReady, Zenon
<1>2. ASSUME UNCHANGED work, Idle
      PROVE  Starts
    <2>1. DOMAIN work' = {}
        BY <1>2 DEF Idle
    <2> QED BY <2>1, Zenon
<1>3. ASSUME NEW n \in Nodes, NEW b \in Blocks, work' = <<IssueItem(n, b)>> \/ work' = <<LookupItem(n, b)>>
      PROVE  Starts
    <2>1. IssueItem(n, b) \in Item /\ IssueItem(n, b).op = "issue"
        BY ItemTypes, Zenon DEF IssueItem, Requesters
    <2>2. LookupItem(n, b) \in Item /\ LookupItem(n, b).op = "lookup"
        BY ItemTypes, Zenon DEF LookupItem
    <2> QED BY <1>3, <2>1, <2>2, StartOps, Zenon
<1>4. ASSUME NEW n \in Nodes, NEW r \in Requests, NEW b \in Blocks \cup {None}, Put(n, r, b)
      PROVE  ReadyInv'
    <2>1. Starts
        <3>1. CASE UNCHANGED work
            BY <1>2, <1>4, <3>1, Zenon DEF Put
        <3>2. CASE b \in Blocks /\ work' = <<IssueItem(n, b)>>
            BY <1>3, <3>2, Zenon
        <3> QED BY <1>4, <3>1, <3>2, Zenon DEF Put
    <2> QED BY <1>1, <1>4, <2>1, Zenon DEF Put
<1>5. ASSUME NEW n \in Nodes, NEW r \in Requests, GetFailed(n, r)
      PROVE  ReadyInv'
    BY <1>1, <1>2, <1>5, Zenon DEF GetFailed
<1>6. ASSUME NEW n \in Nodes, NEW b \in Blocks, PushQuery(n, b) \/ PullQuery(n, b)
      PROVE  ReadyInv'
    BY <1>1, <1>3, <1>6, Zenon DEF PushQuery, PullQuery
<1>7. ASSUME NEW n \in Nodes, NEW r \in Requests, NEW p \in Blocks, NEW h \in Blocks,
             NEW acc \in Frontiers, Chits(n, r, p, h, acc)
      PROVE  ReadyInv'
    <2>1. Starts
        <3>1. r \in Nat
            BY DEF Requests
        <3>2. work' = ChitsWork(n, r, p, h)
            BY <1>7, Zenon DEF Chits
        <3> QED BY <3>1, <3>2, ChitsOps, Zenon
    <2> QED BY <1>1, <1>7, <2>1, Zenon DEF Chits
<1>8. ASSUME NEW n \in Nodes, NEW r \in Requests, QueryFailed(n, r)
      PROVE  ReadyInv'
    <2>1. Starts
        <3>1. CASE n \in DOMAIN acceptedFrontiers
            <4>1. acceptedFrontiers[n] \in Blocks
                BY <3>1, Zenon DEF TypeInv, WorkTypes
            <4> QED BY <1>8, <3>1, <4>1, ChitsOps DEF QueryFailed, Requests
        <3>2. CASE n \notin DOMAIN acceptedFrontiers
            <4>1. VoteItem(n, r) \in Item /\ VoteItem(n, r).op = "vote"
                BY ItemTypes DEF VoteItem, Requests
            <4> QED BY <1>8, <3>2, <4>1, StartOps, Zenon DEF QueryFailed
        <3> QED BY <3>1, <3>2, Zenon
    <2> QED BY <1>1, <1>8, <2>1, Zenon DEF QueryFailed
<1>9. ASSUME NEW n \in Nodes, Gossip(n)
      PROVE  ReadyInv'
    <2>1. Idle /\ Others /\ UNCHANGED work /\ RegisterPoll({n}, TRUE)
        BY <1>9, Zenon DEF Gossip, consensusVars
    <2>2. DOMAIN polls' = DOMAIN polls \cup {requestId'}
        BY <2>1, RegisterTypes, Zenon
    <2>3. IsFiniteSet(DOMAIN polls) /\ Cardinality(DOMAIN polls) \in Nat
        BY PollCount, Zenon DEF TypeInv, PollTypes
    <2>4. Cardinality(DOMAIN polls') >= Cardinality(DOMAIN polls) /\ Cardinality(DOMAIN polls') \in Nat
        <3>1. Cardinality(DOMAIN polls') \in {Cardinality(DOMAIN polls), Cardinality(DOMAIN polls) + 1}
            BY <2>2, <2>3, FS_AddElement, Zenon
        <3> QED BY <2>3, <3>1, OneMore, Zenon
    <2>5. Cardinality(DOMAIN polls') < ConcurrentRepolls => Cardinality(DOMAIN polls) < ConcurrentRepolls
        BY <2>3, <2>4, MoreIsEnough, EngineAssumption, Zenon
    <2>6. PollsMissing' => PollsMissing
        BY <2>1, <2>5, Zenon DEF PollsMissing
    <2> QED BY <1>2, <2>1, <2>6, CallReady, Zenon
<1>10. ASSUME NotifyPendingTxs
       PROVE  ReadyInv'
    <2>1. BuildItem \in Item /\ BuildItem.op = "build"
        BY ItemTypes, Zenon DEF BuildItem
    <2>2. Starts
        BY <1>10, <2>1, StartOps, Zenon DEF NotifyPendingTxs
    <2> QED BY <1>1, <1>10, <2>2, Zenon DEF NotifyPendingTxs
<1> QED BY <1>4, <1>5, <1>6, <1>7, <1>8, <1>9, <1>10, Zenon DEF PutNext

\* One new item that is neither.
LEMMA OneNew ==
    ASSUME WorkTypes, NEW op, Doing(op), NEW it \in Item, it.op \notin {"record", "add"},
           work' = <<it>> \o Tail(work)
    PROVE  Shifted(1) /\ NewRecordsPrefer(1) /\ NewAddsRepoll(1)
<1>1. <<it>> \in Seq(Item) /\ Len(<<it>>) = 1 /\ <<it>>[1] = it
    BY ItemSeqs, Zenon
<1>2. Shifted(1) /\ work'[1] = it
    <2>1. Shifted(Len(<<it>>)) /\ \A i \in 1 .. Len(<<it>>) : work'[i] = <<it>>[i]
        BY <1>1, PrependShifts, Zenon
    <2>2. 1 \in 1 .. 1
        OBVIOUS
    <2> QED BY <1>1, <2>1, <2>2, Zenon
<1>3. \A i \in 1 .. 1 : work'[i].op \notin {"record", "add"}
    BY <1>2
<1> QED BY <1>2, <1>3, Zenon DEF NewRecordsPrefer, NewAddsRepoll

LEMMA NoneNew ==
    ASSUME WorkTypes, NEW op, Doing(op), work' = Tail(work)
    PROVE  Shifted(0) /\ NewRecordsPrefer(0) /\ NewAddsRepoll(0)
BY PopShifts DEF NewRecordsPrefer, NewAddsRepoll

LEMMA StartAddingNew ==
    ASSUME WorkTypes, Doing("issue"), NEW chain \in Seq(Blocks \ {Genesis}), StartAdding(chain)
    PROVE  \E n \in Nat : Shifted(n) /\ NewRecordsPrefer(n) /\ NewAddsRepoll(n)
<1> DEFINE adds == [i \in 1 .. Len(chain) |-> AddItem(chain[i])]
           last == <<RepollItem(FALSE)>>
           len == Len(chain)
<1>1. adds \in Seq(Item) /\ Len(adds) = len /\ \A i \in 1 .. len : adds[i].op = "add"
    <2>1. \A i \in 1 .. Len(chain) : AddItem(chain[i]) \in Item /\ AddItem(chain[i]).op = "add"
        BY ItemTypes DEF AddItem
    <2>2. Len(chain) \in Nat
        OBVIOUS
    <2> QED BY <2>1, <2>2
<1>2. last \in Seq(Item) /\ Len(last) = 1 /\ last[1] = RepollItem(FALSE)
    BY ItemTypes, ItemSeqs, Zenon
<1>3. work' = adds \o last \o Tail(work) /\ len \in Nat
    BY DEF StartAdding
<1>4. RepollItem(FALSE).op = "repoll"
    BY Zenon DEF RepollItem
<1> HIDE DEF adds, last, len
<1>5. /\ adds \o last \in Seq(Item) /\ DOMAIN (adds \o last) = 1 .. len + 1
      /\ \A i \in DOMAIN (adds \o last) :
            (adds \o last)[i] = IF i <= len THEN adds[i] ELSE last[i - len]
    BY <1>1, <1>2, Concat, Zenon
<1>6. Len(adds \o last) = len + 1
    BY <1>1, <1>2, Concat, Zenon
<1>7. Shifted(len + 1) /\ \A i \in 1 .. len + 1 : work'[i] = (adds \o last)[i]
    <2>1. /\ Shifted(Len(adds \o last))
          /\ \A i \in 1 .. Len(adds \o last) : work'[i] = (adds \o last)[i]
        BY <1>3, <1>5, PrependShifts, Zenon
    <2> QED BY <1>6, <2>1, Zenon
<1>8. work'[len + 1] = RepollItem(FALSE) /\ \A i \in 1 .. len : work'[i].op = "add"
    <2>1. /\ len + 1 \in 1 .. len + 1 /\ ~(len + 1 <= len) /\ (len + 1) - len = 1
          /\ \A i \in 1 .. len : i \in 1 .. len + 1 /\ i <= len
        BY <1>3
    <2>2. work'[len + 1] = last[1]
        BY <1>5, <1>7, <2>1, Zenon
    <2>3. \A i \in 1 .. len : work'[i] = adds[i]
        BY <1>5, <1>7, <2>1, Zenon
    <2> QED BY <1>1, <1>2, <2>2, <2>3, Zenon
<1>9. NewRecordsPrefer(len + 1)
    <2>1. \A i \in 1 .. len + 1 : i \in 1 .. len \/ i = len + 1
        BY <1>3
    <2>2. \A i \in 1 .. len + 1 : work'[i].op # "record"
        BY <1>4, <1>8, <2>1, Zenon
    <2> QED BY <2>2, Zenon DEF NewRecordsPrefer
<1>10. NewAddsRepoll(len + 1)
    <2> SUFFICES ASSUME NEW i \in 1 .. len + 1, work'[i].op = "add"
                 PROVE  \E k \in i + 1 .. len + 1 : /\ work'[k] = RepollItem(FALSE)
                                                    /\ \A j \in i .. k - 1 : work'[j].op = "add"
        BY Zenon DEF NewAddsRepoll
    <2>1. i # len + 1
        BY <1>4, <1>8, Zenon
    <2>2. len + 1 \in i + 1 .. len + 1 /\ \A j \in i .. (len + 1) - 1 : j \in 1 .. len
        BY <1>3, <2>1
    <2> QED BY <1>8, <2>2, Zenon
<1> QED BY <1>3, <1>7, <1>9, <1>10

\* Nothing but a shift.
LEMMA QuietReady ==
    ASSUME TypeInv, ReadyInv, NEW op, Doing(op), op \notin {"add", "repoll", "prefer"},
           NEW n, Shifted(n), NewRecordsPrefer(n), NewAddsRepoll(n),
           UNCHANGED anyAdded \/ anyAdded' = FALSE, Fails \/ UNCHANGED failures,
           ChainUnchanged, UNCHANGED polls
    PROVE  ReadyInv'
<1>1. UNCHANGED <<vmPreference, preference>> /\ (PollsMissing' => PollsMissing)
    BY Zenon DEF ChainUnchanged, consensusVars, PollsMissing
<1> QED BY <1>1, OtherReady, Zenon

LEMMA LookupReady ==
    ASSUME TypeInv, ReadyInv, Lookup
    PROVE  ReadyInv'
<1> DEFINE it == Head(work)
<1>1. /\ Doing("lookup") /\ WorkTypes /\ ChainUnchanged /\ UNCHANGED <<polls, anyAdded, failures>>
    BY Zenon DEF Lookup, ChainUnchanged, TypeInv
<1>2. IssueItem(it.node, it.blk) \in Item /\ IssueItem(it.node, it.blk).op = "issue"
    <2>1. it.node \in Requesters /\ it.blk \in Blocks
        BY <1>1, HeadAndTail, ItemFields, Zenon DEF Requesters
    <2> QED BY <2>1, ItemTypes, Zenon DEF IssueItem
<1>3. \E n \in Nat : Shifted(n) /\ NewRecordsPrefer(n) /\ NewAddsRepoll(n)
    <2>1. CASE work' = <<IssueItem(it.node, it.blk)>> \o Tail(work)
        <3>1. IssueItem(it.node, it.blk).op \notin {"record", "add"}
            BY <1>2, Zenon
        <3>2. Shifted(1) /\ NewRecordsPrefer(1) /\ NewAddsRepoll(1)
            BY <1>1, <1>2, <2>1, <3>1, OneNew, Zenon
        <3> QED BY <3>2, Zenon
    <2>2. CASE work' = Tail(work)
        <3>1. Shifted(0) /\ NewRecordsPrefer(0) /\ NewAddsRepoll(0)
            BY <1>1, <2>2, NoneNew, Zenon
        <3> QED BY <3>1, Zenon
    <2> QED BY <2>1, <2>2, Zenon DEF Lookup
<1> QED BY <1>1, <1>3, QuietReady, Zenon

LEMMA WalkReady ==
    ASSUME TypeInv, ReadyInv, Walk
    PROVE  ReadyInv'
<1> DEFINE it == Head(work)
           cur == it.blk
           up == <<cur>> \o it.chain
           next == [it EXCEPT !.blk = Parent[cur], !.chain = up]
<1>1. /\ Doing("issue") /\ WorkTypes /\ ChainTypes /\ ChainUnchanged /\ UNCHANGED <<polls, failures>>
    BY Zenon DEF Walk, ChainUnchanged, TypeInv
<1>2. it \in Item /\ it.op = "issue"
    BY <1>1, HeadAndTail, Zenon
<1>3. it.node \in Requesters /\ cur \in Blocks /\ it.chain \in Seq(Blocks \ {Genesis})
    BY <1>2, ItemFields, Zenon
<1>4. ShouldIssueBlock(cur) => up \in Seq(Blocks \ {Genesis}) /\ Parent[cur] \in Blocks
    BY <1>1, <1>3, IssuedIsNotGenesis
<1>5. ASSUME NEW chain \in Seq(Blocks \ {Genesis}), StartAdding(chain)
      PROVE  ReadyInv'
    <2>1. anyAdded' = FALSE
        BY <1>5, Zenon DEF StartAdding
    <2>2. \E n \in Nat : Shifted(n) /\ NewRecordsPrefer(n) /\ NewAddsRepoll(n)
        BY <1>1, <1>5, StartAddingNew, Zenon
    <2> QED BY <1>1, <2>1, <2>2, QuietReady, Zenon
<1>6. ASSUME ShouldIssueBlock(cur), work' = <<next>> \o Tail(work), UNCHANGED anyAdded
      PROVE  ReadyInv'
    <2>1. next \in Item /\ next.op = "issue"
        BY <1>2, <1>3, <1>4, <1>6, Zenon DEF Item
    <2>2. next.op \notin {"record", "add"}
        BY <2>1, Zenon
    <2> HIDE DEF next
    <2>3. Shifted(1) /\ NewRecordsPrefer(1) /\ NewAddsRepoll(1)
        BY <1>1, <1>6, <2>1, <2>2, OneNew, Zenon
    <2> QED BY <1>1, <1>6, <2>3, QuietReady, Zenon
<1>7. ASSUME work' = Tail(work), UNCHANGED anyAdded
      PROVE  ReadyInv'
    <2>1. Shifted(0) /\ NewRecordsPrefer(0) /\ NewAddsRepoll(0)
        BY <1>1, <1>7, NoneNew, Zenon
    <2> QED BY <1>1, <1>7, <2>1, QuietReady, Zenon
<1> QED BY <1>3, <1>4, <1>5, <1>6, <1>7, Zenon DEF Walk

\* The next block of the chain, or its repoll.
LEMMA AfterAdd ==
    ASSUME TypeInv, ReadyInv, Doing("add"), work' = Tail(work)
    PROVE  /\ Shifted(0) /\ AddsAreRepolled'
           /\ work' # <<>> /\ (work'[1].op = "add" \/ work'[1] = RepollItem(FALSE))
<1>1. WorkTypes /\ AddsAreRepolled
    BY Zenon DEF TypeInv, ReadyInv
<1>2. Shifted(0) /\ NewAddsRepoll(0)
    BY <1>1, NoneNew, Zenon
<1>3. AddsAreRepolled'
    BY <1>1, <1>2, ShiftRepolls, Zenon
<1>4. /\ DOMAIN work = 1 .. Len(work) /\ Len(work) \in Nat /\ 1 \in DOMAIN work
      /\ work[1].op = "add"
    BY <1>1, HeadAndTail DEF WorkTypes
<1>5. PICK k \in DOMAIN work : /\ 1 < k /\ work[k] = RepollItem(FALSE)
                               /\ \A j \in 1 .. k - 1 : work[j].op = "add"
    BY <1>1, <1>4, Zenon DEF AddsAreRepolled
<1>6. work'[1] = work[2] /\ 2 \in DOMAIN work /\ 1 \in DOMAIN work'
    <2>1. 2 \in DOMAIN work \ {1} /\ 0 + 2 - 1 = 1
        BY <1>4, <1>5
    <2>2. work'[0 + 2 - 1] = work[2]
        BY <1>2, <2>1, Zenon DEF Shifted
    <2>3. 1 \in DOMAIN work'
        BY <1>2, <1>4, <2>1 DEF Shifted
    <2> QED BY <2>1, <2>2, <2>3, Zenon
<1>7. k = 2 \/ 2 \in 1 .. k - 1
    BY <1>4, <1>5
<1>8. work' # <<>>
    BY <1>6
<1> QED BY <1>2, <1>3, <1>5, <1>6, <1>7, <1>8, Zenon

LEMMA SkipReady ==
    ASSUME TypeInv, ReadyInv, SkipBlock
    PROVE  ReadyInv'
<1>1. /\ Doing("add") /\ WorkTypes /\ ChainUnchanged /\ UNCHANGED <<polls, anyAdded, failures>>
      /\ work' = Tail(work)
    BY Zenon DEF SkipBlock, ChainUnchanged, TypeInv
<1>2. Shifted(0) /\ NewRecordsPrefer(0)
    BY <1>1, NoneNew, Zenon
<1>3. AddsAreRepolled' /\ AddedIsRepolled'
    BY <1>1, AfterAdd, Zenon DEF AddedIsRepolled
<1>4. ASSUME failures' = 0
      PROVE  PreferFollows' /\ VmIsTold' /\ RepollFollows'
    <2>1. PreferFollows /\ VmIsTold /\ RepollFollows
        BY <1>1, <1>4, Zenon DEF ReadyInv
    <2>2. PreferFollows'
        BY <1>1, <1>2, <2>1, ShiftPrefers, Zenon
    <2>3. work[1].op = "add"
        BY <1>1, HeadAndTail, Zenon
    <2>4. \A i \in DOMAIN work \ {1} : \E j \in DOMAIN work' : work'[j] = work[i]
        BY <1>1, <1>2, ShiftKeeps, Zenon
    <2>5. UNCHANGED <<vmPreference, preference>> /\ (PollsMissing' => PollsMissing)
        BY <1>1, Zenon DEF ChainUnchanged, consensusVars, PollsMissing
    <2>6. VmIsTold'
        BY <2>1, <2>3, <2>4, <2>5, Zenon DEF VmIsTold
    <2>7. RepollFollows'
        <3>1. work[1] # RepollItem(TRUE)
            BY <2>3 DEF RepollItem
        <3> QED BY <1>1, <2>1, <2>4, <2>5, <3>1, Zenon DEF RepollFollows
    <2> QED BY <2>2, <2>6, <2>7, Zenon
<1> QED BY <1>3, <1>4, Zenon DEF ReadyInv

LEMMA AddReady ==
    ASSUME TypeInv, ReadyInv, AddBlock
    PROVE  ReadyInv'
<1>1. Doing("add") /\ WorkTypes
    BY Zenon DEF AddBlock, TypeInv
<1>2. CASE Fails /\ work' = <<>> /\ anyAdded' = FALSE
    BY <1>2, FailedReady, Zenon
<1>3. CASE /\ vmPreference' = preference' /\ work' = Tail(work) /\ anyAdded' = TRUE
           /\ Fails \/ UNCHANGED failures
    <2>1. Shifted(0) /\ NewRecordsPrefer(0)
        BY <1>1, <1>3, NoneNew, Zenon
    <2>2. AddsAreRepolled' /\ AddedIsRepolled'
        BY <1>1, <1>3, AfterAdd, Zenon DEF AddedIsRepolled
    <2>3. ASSUME failures' = 0
          PROVE  PreferFollows'
        <3>1. failures = 0
            BY <1>1, <1>3, <2>3 DEF WorkTypes, Fails
        <3> QED BY <1>1, <2>1, <3>1, ShiftPrefers, Zenon DEF ReadyInv
    <2>4. VmIsTold' /\ RepollFollows'
        BY <1>3, Zenon DEF VmIsTold, RepollFollows
    <2> QED BY <2>2, <2>3, <2>4, Zenon DEF ReadyInv
<1> QED BY <1>2, <1>3, Zenon DEF AddBlock

LEMMA RepollReady ==
    ASSUME TypeInv, ReadyInv, Repoll
    PROVE  ReadyInv'
<1> DEFINE it == Head(work)
<1>1. /\ Doing("repoll") /\ WorkTypes /\ AddsAreRepolled /\ AddedIsRepolled
      /\ UNCHANGED <<processing, preference, vmPreference>>
    BY Zenon DEF Repoll, TypeInv, ReadyInv, consensusVars
<1>2. it = work[1] /\ it \in Item /\ it.op = "repoll" /\ 1 \in DOMAIN work
    BY <1>1, HeadAndTail DEF WorkTypes
<1>3. it.always => it = RepollItem(TRUE)
    BY <1>2, Zenon DEF Item, RepollItem
<1>4. CASE UNCHANGED <<work, anyAdded, failures>> /\ (it.always \/ anyAdded)
    <2>1. AddsAreRepolled' /\ AddedIsRepolled'
        BY <1>1, <1>4, Zenon DEF AddsAreRepolled, AddedIsRepolled
    <2>2. anyAdded' \/ \E i \in DOMAIN work' : work'[i] = RepollItem(TRUE)
        BY <1>2, <1>3, <1>4, Zenon
    <2>3. RepollFollows'
        BY <2>2, Zenon DEF RepollFollows
    <2>4. failures' = 0 => PreferFollows' /\ VmIsTold'
        BY <1>1, <1>4, Zenon DEF ReadyInv, PreferFollows, VmIsTold
    <2> QED BY <2>1, <2>3, <2>4, Zenon DEF ReadyInv
<1> DEFINE Enough == ~((it.always \/ anyAdded) /\ processing # {}
                          /\ Cardinality(DOMAIN polls) < ConcurrentRepolls)
<1>5. CASE /\ work' = Tail(work) /\ anyAdded' = FALSE
           /\ Fails \/ (UNCHANGED <<polls, failures>> /\ Enough)
    <2>1. Shifted(0) /\ NewRecordsPrefer(0) /\ NewAddsRepoll(0)
        BY <1>1, <1>5, NoneNew, Zenon
    <2>2. AddsAreRepolled' /\ AddedIsRepolled'
        BY <1>1, <1>5, <2>1, ShiftRepolls, Zenon DEF AddedIsRepolled
    <2>3. CASE Fails
        <3>1. failures' # 0
            BY <1>1, <2>3 DEF Fails, WorkTypes
        <3> QED BY <2>2, <3>1, Zenon DEF ReadyInv
    <2>4. CASE UNCHANGED <<polls, failures>> /\ Enough
        <3>1. \A i \in DOMAIN work \ {1} : \E j \in DOMAIN work' : work'[j] = work[i]
            BY <1>1, <2>1, ShiftKeeps, Zenon
        <3>2. ASSUME failures' = 0
              PROVE  PreferFollows' /\ VmIsTold' /\ RepollFollows'
            <4>1. PreferFollows /\ VmIsTold /\ RepollFollows
                BY <2>4, <3>2, Zenon DEF ReadyInv
            <4>2. PreferFollows'
                BY <1>1, <2>1, <4>1, ShiftPrefers, Zenon
            <4>3. VmIsTold'
                BY <1>1, <1>2, <3>1, <4>1, Zenon DEF VmIsTold
            <4>4. RepollFollows'
                <5>1. CASE ~PollsMissing
                    BY <1>1, <2>4, <5>1, Zenon DEF RepollFollows, PollsMissing
                <5>2. CASE PollsMissing
                    <6>1. ~it.always /\ ~anyAdded
                        BY <2>4, <5>2, Zenon DEF PollsMissing
                    <6>2. PICK i \in DOMAIN work : work[i] = RepollItem(TRUE)
                        BY <4>1, <5>2, <6>1, Zenon DEF RepollFollows
                    <6>3. i # 1
                        BY <1>2, <6>1, <6>2 DEF RepollItem
                    <6> QED BY <3>1, <6>2, <6>3, Zenon DEF RepollFollows
                <5> QED BY <5>1, <5>2, Zenon
            <4> QED BY <4>2, <4>3, <4>4, Zenon
        <3> QED BY <2>2, <3>2, Zenon DEF ReadyInv
    <2> QED BY <1>5, <2>3, <2>4, Zenon
<1> QED BY <1>4, <1>5, Zenon DEF Repoll

\* The results of n polls: the records come before the one set_vm_preference,
\* which comes before the repoll.
LEMMA ResultsNew ==
    ASSUME WorkTypes, NEW op, Doing(op), NEW n \in Nat, work' = ProcessPollResults(n) \o Tail(work)
    PROVE  /\ Shifted(n + 2) /\ NewRecordsPrefer(n + 2) /\ NewAddsRepoll(n + 2)
           /\ \E i \in 1 .. n + 2 : work'[i] = RepollItem(TRUE)
<1> DEFINE new == ProcessPollResults(n)
<1>1. /\ new \in Seq(Item) /\ DOMAIN new = 1 .. n + 2
      /\ \A i \in 1 .. n : new[i] = RecordItem
      /\ new[n + 1] = PreferItem /\ new[n + 2] = RepollItem(TRUE)
    BY ProcessTypes, Zenon
<1> HIDE DEF new
<1>2. Len(new) = n + 2
    BY <1>1
<1>3. Shifted(n + 2) /\ \A i \in 1 .. n + 2 : work'[i] = new[i]
    <2>1. work' = new \o Tail(work)
        BY Zenon DEF new
    <2>2. Shifted(Len(new)) /\ \A i \in 1 .. Len(new) : work'[i] = new[i]
        BY <1>1, <2>1, PrependShifts, Zenon
    <2> QED BY <1>2, <2>2, Zenon
<1>4. PreferItem.op = "prefer" /\ RecordItem.op = "record" /\ RepollItem(TRUE).op = "repoll"
    BY Zenon DEF PreferItem, RecordItem, RepollItem
<1>5. /\ \A i \in 1 .. n + 2 : i \in 1 .. n \/ i = n + 1 \/ i = n + 2
      /\ n + 2 \in 1 .. n + 2 /\ n + 1 \in 1 .. n + 2
      /\ \A i \in 1 .. n : n + 1 \in i + 1 .. n + 2
    OBVIOUS
<1>6. NewRecordsPrefer(n + 2)
    <2> SUFFICES ASSUME NEW i \in 1 .. n + 2, work'[i].op = "record"
                 PROVE  \E j \in i + 1 .. n + 2 : work'[j].op = "prefer"
        BY Zenon DEF NewRecordsPrefer
    <2>1. i \in 1 .. n
        BY <1>1, <1>3, <1>4, <1>5, Zenon
    <2>2. work'[n + 1].op = "prefer"
        BY <1>1, <1>3, <1>4, <1>5, Zenon
    <2> QED BY <1>5, <2>1, <2>2, Zenon
<1>7. NewAddsRepoll(n + 2)
    <2>1. \A i \in 1 .. n + 2 : work'[i].op # "add"
        BY <1>1, <1>3, <1>4, <1>5, Zenon
    <2> QED BY <2>1, Zenon DEF NewAddsRepoll
<1> QED BY <1>1, <1>3, <1>5, <1>6, <1>7, Zenon

LEMMA VoteReady ==
    ASSUME TypeInv, ReadyInv, Vote
    PROVE  ReadyInv'
<1> DEFINE it == Head(work)
<1>1. Doing("vote") /\ WorkTypes /\ ChainUnchanged /\ UNCHANGED <<anyAdded, failures>>
    BY Zenon DEF Vote, ChainUnchanged, TypeInv
<1>2. UNCHANGED <<processing, vmPreference, preference>>
    BY <1>1, Zenon DEF ChainUnchanged, consensusVars
<1>3. ASSUME work' = Tail(work), PollsMissing' => PollsMissing
      PROVE  ReadyInv'
    <2>1. Shifted(0) /\ NewRecordsPrefer(0) /\ NewAddsRepoll(0)
        BY <1>1, <1>3, NoneNew, Zenon
    <2> QED BY <1>1, <1>2, <1>3, <2>1, OtherReady, Zenon
<1>4. CASE work' = Tail(work) /\ UNCHANGED polls
    BY <1>2, <1>3, <1>4, Zenon DEF PollsMissing
<1>5. ASSUME it.req \in DOMAIN polls, NEW over \in BOOLEAN, NEW gone \in SUBSET DOMAIN polls,
             AfterVote(it.req, it.node, over, gone)
      PROVE  ReadyInv'
    <2>1. CASE gone = {}
        <3>1. DOMAIN polls' = DOMAIN polls /\ work' = Tail(work)
            BY <1>5, <2>1, Zenon DEF AfterVote, Without, Restrict
        <3>2. PollsMissing' => PollsMissing
            BY <1>2, <3>1, Zenon DEF PollsMissing
        <3> QED BY <1>3, <3>1, <3>2, Zenon
    <2>2. CASE gone # {}
        <3>1. Cardinality(gone) \in Nat
            BY PollCount, Zenon DEF TypeInv, PollTypes
        <3>2. work' = ProcessPollResults(Cardinality(gone)) \o Tail(work)
            BY <1>5, <2>2, Zenon DEF AfterVote
        <3> DEFINE n == Cardinality(gone) + 2
        <3>3. /\ Shifted(n) /\ NewRecordsPrefer(n) /\ NewAddsRepoll(n)
              /\ \E i \in 1 .. n : work'[i] = RepollItem(TRUE)
            BY <1>1, <3>1, <3>2, ResultsNew, Zenon
        <3> HIDE DEF n
        <3> QED BY <1>1, <1>2, <3>3, OtherReady, Zenon
    <2> QED BY <2>1, <2>2, Zenon
<1> QED BY <1>4, <1>5, VoteCases, Zenon

\* Items, flags and preferences stay, and no poll is missing that was not before.
LEMMA StillReady ==
    ASSUME ReadyInv, UNCHANGED <<preference, vmPreference, work, anyAdded, failures>>,
           PollsMissing' => PollsMissing
    PROVE  ReadyInv'
<1>1. AddsAreRepolled' /\ AddedIsRepolled'
    BY Zenon DEF ReadyInv, AddsAreRepolled, AddedIsRepolled
<1>2. PreferFollows => PreferFollows'
    BY Zenon DEF PreferFollows
<1>3. VmIsTold => VmIsTold'
    BY Zenon DEF VmIsTold
<1>4. RepollFollows => RepollFollows'
    BY Zenon DEF RepollFollows
<1>5. failures' = failures
    BY Zenon
<1> QED BY <1>1, <1>2, <1>3, <1>4, <1>5, Zenon DEF ReadyInv

LEMMA AcceptReady ==
    ASSUME TypeInv, ReadyInv, NEW c, RecordAccept(c)
    PROVE  ReadyInv'
<1>1. UNCHANGED <<preference, vmPreference, polls, work, anyAdded, failures>>
    BY Zenon DEF RecordAccept
<1>2. processing' \subseteq processing
    BY Zenon DEF RecordAccept
<1>3. PollsMissing' => PollsMissing
    BY <1>1, <1>2, Zenon DEF PollsMissing
<1> QED BY <1>1, <1>3, StillReady, Zenon

LEMMA RecordReady ==
    ASSUME TypeInv, ReadyInv, RecordDone
    PROVE  ReadyInv'
<1>1. /\ Doing("record") /\ WorkTypes /\ AddedIsRepolled
      /\ UNCHANGED <<processing, vmPreference, polls, anyAdded>>
    BY Zenon DEF RecordDone, TypeInv, ReadyInv
<1>2. anyAdded' = FALSE
    BY <1>1, NotAdding, Zenon
<1>3. CASE Fails /\ work' = <<>>
    BY <1>2, <1>3, FailedReady, Zenon
<1>4. CASE work' = Tail(work) /\ UNCHANGED failures
    <2>1. Shifted(0) /\ NewRecordsPrefer(0) /\ NewAddsRepoll(0)
        BY <1>1, <1>4, NoneNew, Zenon
    <2>2. PollsMissing' => PollsMissing
        BY <1>1, Zenon DEF PollsMissing
    <2> QED BY <1>1, <1>4, <2>1, <2>2, OtherReady, Zenon
<1> QED BY <1>3, <1>4, Zenon DEF RecordDone

LEMMA PreferReady ==
    ASSUME TypeInv, ReadyInv, Prefer
    PROVE  ReadyInv'
<1>1. /\ Doing("prefer") /\ WorkTypes /\ AddedIsRepolled /\ AddsAreRepolled
      /\ UNCHANGED <<processing, preference, polls, anyAdded>>
    BY Zenon DEF Prefer, TypeInv, ReadyInv, consensusVars
<1>2. anyAdded = FALSE /\ anyAdded' = FALSE
    BY <1>1, NotAdding, Zenon
<1>3. CASE Fails /\ work' = <<>>
    BY <1>2, <1>3, FailedReady, Zenon
<1>4. CASE vmPreference' = preference /\ work' = Tail(work) /\ UNCHANGED failures
    <2>1. Shifted(0) /\ NewRecordsPrefer(0) /\ NewAddsRepoll(0)
        BY <1>1, <1>4, NoneNew, Zenon
    <2>2. AddsAreRepolled' /\ AddedIsRepolled'
        BY <1>1, <1>2, <2>1, ShiftRepolls, Zenon DEF AddedIsRepolled
    <2>3. VmIsTold'
        BY <1>1, <1>4, Zenon DEF VmIsTold
    <2>4. ASSUME failures' = 0
          PROVE  PreferFollows' /\ RepollFollows'
        <3>1. PreferFollows /\ RepollFollows
            BY <1>4, <2>4, Zenon DEF ReadyInv
        <3>2. PreferFollows'
            BY <1>1, <2>1, <3>1, ShiftPrefers, Zenon
        <3>3. \A i \in DOMAIN work \ {1} : \E j \in DOMAIN work' : work'[j] = work[i]
            BY <1>1, <2>1, ShiftKeeps, Zenon
        <3>4. work[1] # RepollItem(TRUE)
            BY <1>1, HeadAndTail DEF RepollItem
        <3>5. RepollFollows'
            BY <1>1, <1>2, <3>1, <3>3, <3>4, Zenon DEF RepollFollows, PollsMissing
        <3> QED BY <3>2, <3>5, Zenon
    <2> QED BY <2>2, <2>3, <2>4, Zenon DEF ReadyInv
<1> QED BY <1>3, <1>4, Zenon DEF Prefer

LEMMA BuildReady ==
    ASSUME TypeInv, ReadyInv, Build
    PROVE  ReadyInv'
<1>1. Doing("build") /\ WorkTypes /\ ChainUnchanged /\ UNCHANGED <<polls, anyAdded>>
    BY Zenon DEF Build, ChainUnchanged, TypeInv
<1>2. CASE work' = Tail(work) /\ (Fails \/ UNCHANGED failures)
    <2>1. Shifted(0) /\ NewRecordsPrefer(0) /\ NewAddsRepoll(0)
        BY <1>1, <1>2, NoneNew, Zenon
    <2> QED BY <1>1, <1>2, <2>1, QuietReady, Zenon
<1>3. ASSUME NEW b \in Blocks \ {Genesis}, UNCHANGED failures,
             work' = <<IssueItem(Self, b), BuildItem>> \o Tail(work)
      PROVE  ReadyInv'
    <2> DEFINE x == IssueItem(Self, b)
               y == BuildItem
    <2>1. x \in Item /\ y \in Item /\ x.op = "issue" /\ y.op = "build"
        BY ItemTypes, Zenon DEF IssueItem, BuildItem, Requesters
    <2>2. work' = <<x, y>> \o Tail(work)
        BY <1>3, Zenon
    <2> HIDE DEF x, y
    <2>3. <<x, y>> \in Seq(Item) /\ Len(<<x, y>>) = 2 /\ <<x, y>>[1] = x /\ <<x, y>>[2] = y
        BY <2>1, Pair, Zenon
    <2>4. Shifted(2) /\ \A i \in 1 .. 2 : work'[i] = <<x, y>>[i]
        <3>1. /\ Shifted(Len(<<x, y>>))
              /\ \A i \in 1 .. Len(<<x, y>>) : work'[i] = <<x, y>>[i]
            BY <1>1, <2>2, <2>3, PrependShifts, Zenon
        <3> QED BY <2>3, <3>1, Zenon
    <2>5. \A i \in 1 .. 2 : work'[i].op \notin {"record", "add"}
        <3>1. \A i \in 1 .. 2 : i = 1 \/ i = 2
            OBVIOUS
        <3>2. x.op \notin {"record", "add"} /\ y.op \notin {"record", "add"}
            BY <2>1, Zenon
        <3>3. work'[1] = x /\ work'[2] = y
            <4>1. 1 \in 1 .. 2 /\ 2 \in 1 .. 2
                OBVIOUS
            <4> QED BY <2>3, <2>4, <4>1, Zenon
        <3> QED BY <3>1, <3>2, <3>3, Zenon
    <2>6. NewRecordsPrefer(2) /\ NewAddsRepoll(2)
        BY <2>5, Zenon DEF NewRecordsPrefer, NewAddsRepoll
    <2> QED BY <1>1, <1>3, <2>4, <2>6, QuietReady, Zenon
<1> QED BY <1>2, <1>3, Zenon DEF Build

LEMMA ReadyStep == TypeInv /\ ReadyInv /\ [Next]_vars => ReadyInv'
<1> SUFFICES ASSUME TypeInv, ReadyInv, [Next]_vars PROVE ReadyInv'
    BY Zenon
<1>1. CASE UNCHANGED vars
    BY <1>1, StillReady, Zenon DEF vars, consensusVars, PollsMissing
<1>2. CASE Next
    BY <1>2, CallsReady, LookupReady, WalkReady, SkipReady, AddReady, RepollReady,
       VoteReady,
       AcceptReady, RecordReady, PreferReady, BuildReady, Zenon DEF Next, OtherNext
<1> QED BY <1>1, <1>2, Zenon

\* Between two calls of the engine that did not fail, concurrent_repolls polls
\* are outstanding while blocks process, and the VM prefers what consensus
\* prefers: consensus is never left with nothing to wait for.
THEOREM EngineReady == Spec => []CallsEndReady
<1>1. Init => ReadyInv
    <2> SUFFICES ASSUME Init PROVE ReadyInv
        BY Zenon
    <2>1. DOMAIN work = {} /\ ~anyAdded /\ vmPreference = preference /\ processing = {}
        BY DEF Init
    <2> QED BY <2>1, Zenon DEF ReadyInv, AddsAreRepolled, AddedIsRepolled,
                               PreferFollows, VmIsTold,
                        RepollFollows, PollsMissing
<1>2. TypeInv /\ ReadyInv => CallsEndReady
    <2> SUFFICES ASSUME TypeInv, ReadyInv, Idle, failures = 0
                 PROVE  /\ processing # {} => Cardinality(DOMAIN polls) >= ConcurrentRepolls
                        /\ vmPreference = preference
        BY Zenon DEF CallsEndReady
    <2>1. work = <<>> /\ DOMAIN work = {}
        BY DEF Idle
    <2>2. ~anyAdded
        BY <2>1, Zenon DEF ReadyInv, AddedIsRepolled
    <2>3. vmPreference = preference /\ ~PollsMissing
        BY <2>1, <2>2, Zenon DEF ReadyInv, VmIsTold, RepollFollows
    <2>4. Cardinality(DOMAIN polls) \in Nat
        BY PollCount, Zenon DEF TypeInv, PollTypes
    <2> QED BY <2>3, <2>4, EngineAssumption DEF PollsMissing
<1> QED BY <1>1, <1>2, ReadyStep, Types, PTL DEF Spec

-----------------------------------------------------------------------------
(* Decisions are final.                                                    *)

\* A decided block is not issued again.
NeverReissued == processing \cap (accepted \cup rejected) = {}

DecidedInv ==
    /\ ProcessingIsRooted /\ NeverReissued
    /\ lastAccepted \in accepted /\ accepted \cap rejected = {}
    /\ \A b \in processing : Height[lastAccepted] < Height[b]
    /\ \A a \in accepted : Height[a] <= Height[lastAccepted]
    /\ \A b \in rejected : b # Genesis /\ Parent[b] \in rejected \cup (accepted \ {lastAccepted})

\* What is processing changes when a block is added or accepted, and then only.
LEMMA WhatDecides ==
    ASSUME [Next]_vars
    PROVE  \/ AddBlock \/ \E c \in Blocks \ {Genesis} : RecordAccept(c)
           \/ UNCHANGED <<snowmanVars, processing>>
<1> USE DEF consensusVars
<1>1. CASE UNCHANGED vars
    BY <1>1, Zenon DEF vars
<1>2. ASSUME NEW n, NEW r, NEW b, NEW p, NEW h, NEW acc,
             \/ Put(n, r, b) \/ GetFailed(n, r) \/ PushQuery(n, b) \/ PullQuery(n, b)
             \/ Chits(n, r, p, h, acc) \/ QueryFailed(n, r) \/ Gossip(n) \/ NotifyPendingTxs
      PROVE  UNCHANGED <<snowmanVars, processing>>
    BY <1>2, Zenon DEF Put, GetFailed, PushQuery, PullQuery, Chits, QueryFailed,
                       Gossip,
                      NotifyPendingTxs
<1>3. ASSUME Lookup \/ Walk \/ SkipBlock \/ Repoll \/ Vote \/ RecordDone \/ Prefer \/ Build
      PROVE  UNCHANGED <<snowmanVars, processing>>
    BY <1>3, Zenon DEF Lookup, Walk, SkipBlock, Repoll, Vote, RecordDone, Prefer,
                       Build
<1> QED BY <1>1, <1>2, <1>3, Zenon DEF Next, PutNext, OtherNext

LEMMA DecidedKept ==
    ASSUME DecidedInv, UNCHANGED <<snowmanVars, processing>>
    PROVE  DecidedInv'
BY Zenon DEF DecidedInv, ProcessingIsRooted, NeverReissued, snowmanVars

\* Issuable leaves no decided block: the parent of a decided block is decided.
LEMMA AddBlockDecided ==
    ASSUME TypeInv, DecidedInv, AddBlock
    PROVE  DecidedInv'
<1> DEFINE b == Head(work).blk
<1>1. /\ b \in Blocks \ {Genesis} /\ Parent[b] \in processing \cup {lastAccepted}
      /\ processing' = processing \cup {b} /\ UNCHANGED snowmanVars
    <2>1. b \in Blocks \ {Genesis}
        BY HeadAndTail, ItemFields, Zenon DEF AddBlock, TypeInv
    <2> QED BY <2>1, Zenon DEF AddBlock, Issuable, CanIssueChildOn
<1> HIDE DEF b
<1>2. b \in Blocks \ {Genesis}
    BY <1>1, Zenon
<1>3. /\ Height[b] = Height[Parent[b]] + 1 /\ Height[b] \in Nat /\ Height[lastAccepted] \in Nat
      /\ Height[Parent[b]] \in Nat
    BY <1>2, BlockTreeAssumption, Zenon DEF TypeInv, ChainTypes
<1>4. Height[lastAccepted] < Height[b]
    BY <1>1, <1>3 DEF DecidedInv
<1>5. b \notin accepted
    BY <1>3, <1>4, BlockTreeAssumption DEF DecidedInv
<1>6. b \notin rejected
    BY <1>1, Zenon DEF DecidedInv, NeverReissued
<1> QED BY <1>1, <1>4, <1>5, <1>6, Zenon DEF DecidedInv, ProcessingIsRooted,
                                             NeverReissued, snowmanVars

LEMMA RecordAcceptDecided ==
    ASSUME TypeInv, DecidedInv, NEW c \in Blocks \ {Genesis}, RecordAccept(c)
    PROVE  DecidedInv'
<1>1. PICK R \in SUBSET (processing \ {c}) :
         /\ \A b \in processing \ {c} : b \in R <=> Parent[b] = lastAccepted \/ Parent[b] \in R
         /\ rejected' = rejected \cup R
         /\ processing' = processing \ (R \cup {c})
    BY Zenon DEF RecordAccept
<1>2. /\ c \in processing /\ Parent[c] = lastAccepted /\ lastAccepted' = c
      /\ accepted' = accepted \cup {c}
    BY Zenon DEF RecordAccept
<1>3. /\ Height[c] = Height[lastAccepted] + 1
      /\ \A b \in Blocks : Height[b] \in Nat
      /\ processing \subseteq Blocks \ {Genesis} /\ accepted \subseteq Blocks /\ lastAccepted \in Blocks
    BY <1>2, BlockTreeAssumption, Zenon DEF TypeInv, ChainTypes
<1>4. ProcessingIsRooted'
    BY <1>1, <1>2, Zenon DEF DecidedInv, ProcessingIsRooted
<1>5. NeverReissued' /\ accepted' \cap rejected' = {} /\ lastAccepted' \in accepted'
    BY <1>1, <1>2, Zenon DEF DecidedInv, NeverReissued
<1>6. \A a \in accepted' : Height[a] <= Height[lastAccepted']
    BY <1>2, <1>3 DEF DecidedInv
<1>7. ASSUME NEW b \in processing' PROVE Height[lastAccepted'] < Height[b]
    <2>1. b \in processing /\ b # c /\ Parent[b] # lastAccepted
        BY <1>1, Zenon
    <2>2. Parent[b] \in processing /\ Height[b] = Height[Parent[b]] + 1
        BY <1>3, <2>1, BlockTreeAssumption, Zenon DEF DecidedInv, ProcessingIsRooted
    <2>3. Height[Parent[b]] > Height[lastAccepted] /\ Height[Parent[b]] \in Nat
        BY <1>3, <2>2, Zenon DEF DecidedInv
    <2> QED BY <1>2, <1>3, <2>2, <2>3
<1>8. ASSUME NEW b \in rejected'
      PROVE  b # Genesis /\ Parent[b] \in rejected' \cup (accepted' \ {lastAccepted'})
    <2>1. c \notin accepted /\ lastAccepted \in accepted /\ lastAccepted # c
        BY <1>2, Zenon DEF DecidedInv, NeverReissued
    <2>2. CASE b \in rejected
        BY <1>1, <1>2, <2>1, <2>2 DEF DecidedInv
    <2>3. CASE b \in R
        <3>1. b \in processing \ {c} /\ (Parent[b] = lastAccepted \/ Parent[b] \in R)
            BY <1>1, <2>3, Zenon
        <3> QED BY <1>1, <1>2, <1>3, <2>1, <3>1, Zenon
    <2> QED BY <1>1, <2>2, <2>3, Zenon
<1> QED BY <1>4, <1>5, <1>6, <1>7, <1>8, Zenon DEF DecidedInv

LEMMA DecidedInvariant == Spec => []DecidedInv
<1>1. Init => DecidedInv
    BY BlockTreeAssumption DEF Init, SnowmanInit, DecidedInv, ProcessingIsRooted,
                               NeverReissued
<1>2. TypeInv /\ DecidedInv /\ [Next]_vars => DecidedInv'
    BY WhatDecides, DecidedKept, AddBlockDecided, RecordAcceptDecided, Zenon
<1> QED BY <1>1, <1>2, Types, PTL DEF Spec

\* The processing blocks are a tree on the last accepted block, so
\* consensus.add never refuses a block issue_from hands it.
THEOREM ProcessingRooted == Spec => []ProcessingIsRooted
<1>1. DecidedInv => ProcessingIsRooted
    BY Zenon DEF DecidedInv
<1> QED BY <1>1, DecidedInvariant, PTL

\* issue_from never issues a block that was accepted or rejected before, also
\* one that comes again after it left the tree: should_issue_block looks at
\* the height only, can_issue_child_on makes up for the rest.
THEOREM DecidedStaysDecided == Spec => []NeverReissued
<1>1. DecidedInv => NeverReissued
    BY Zenon DEF DecidedInv
<1> QED BY <1>1, DecidedInvariant, PTL
=============================================================================
