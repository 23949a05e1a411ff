-------------------------- MODULE Networking_proofs --------------------------
(***************************************************************************)
(* What the networking parts promise, for any sets of requests, nodes,     *)
(* messages and connections and any bounds.                                *)
(*                                                                         *)
(* Requests: no wake-up of the timeout manager's loop is lost: whenever    *)
(* the loop sleeps, a token is in the channel, a caller owes one, or the   *)
(* loop sleeps to the earliest deadline.  And the failure of a request     *)
(* that the router has registered is synthesized exactly once, whoever     *)
(* comes first of its timer and its sender, for any queue.                 *)
(*                                                                         *)
(* ChainHandler: the handler is never stuck on a full queue, and an        *)
(* engine hand-off that was asked for is not forgotten.                    *)
(*                                                                         *)
(* Peers: a node has one connection in the peer sets, owned by a           *)
(* running watcher, and a connected peer is removed only when its reader   *)
(* has ended.                                                              *)
(***************************************************************************)
EXTENDS Requests, ChainHandler, Peers, FiniteSetTheorems, TLAPS

-----------------------------------------------------------------------------
(* The peers, for every set of nodes and slots.                            *)

\* What the owners of the handles rest on: a node has a handle in one set at
\* most, and the lock is held exactly by the watcher that is between the two.
PromotionIsLocked ==
    /\ \A n \in Remotes : connecting[n] = None \/ connected[n] = None
    /\ \A c \in Slots : watcher[c] = "promote" =>
         peersLock = c /\ connecting[node[c]] = None /\ connected[node[c]] = None
    /\ \A c \in Slots : node[c] = None <=> watcher[c] = "none"

PeerInv == PeersTypeOK /\ HandlesAreOwned /\ PromotionIsLocked

\* The initial state: no node, no handle, no lock.
LEMMA PeerInvInit ==
  ASSUME PeersInit
  PROVE  PeerInv
  BY ZenonT(20), PeersAssumption DEF PeersInit, PeerInv, PeersTypeOK,
                                     HandlesAreOwned,
                    PromotionIsLocked, RequiredConns

\* The peer sets and the watchers, which is all that the invariant is about
\* beyond types.
membership == <<setVars, node, watcher>>

\* A step that leaves the sets and the watchers alone keeps their invariant.
LEMMA MembershipUnchanged ==
  HandlesAreOwned /\ PromotionIsLocked /\ UNCHANGED membership
    => (HandlesAreOwned /\ PromotionIsLocked)'
  BY DEF HandlesAreOwned, PromotionIsLocked, membership, setVars

\* An admitted peer is the only one of its node.
LEMMA AdmissionKeeps ==
  ASSUME PeerInv, NEW n \in Remotes, AdmitPeer(n)
  PROVE  /\ connecting' \in [Remotes -> Slots \cup {None}]
  /\ node' \in [Slots -> Remotes \cup {None}]
         /\ (HandlesAreOwned /\ PromotionIsLocked)'
<1>1. CASE Duplicate(n)
  BY <1>1 DEF AdmitPeer, PeerInv, PeersTypeOK, HandlesAreOwned, PromotionIsLocked,
              CanLock
<1>2. CASE ~Duplicate(n)
  <2>1. PICK c \in Slots :
          /\ node[c] = None /\ node' = [node EXCEPT ![c] = n]
          /\ watcher' = [watcher EXCEPT ![c] = "watch"]
          /\ connecting' = [connecting EXCEPT ![n] = c]
    BY <1>2, Zenon DEF AdmitPeer
  <2>2. /\ connected' = connected /\ peersLock' = peersLock /\ peersLock = None
        /\ connected[n] = None /\ connecting[n] = None
    BY <1>2, Zenon DEF AdmitPeer, CanLock, Duplicate
  <2>3. \A d \in Slots : node[d] = n => watcher[d] \notin {"watch", "wait", "promote"}
    BY <2>2, PeersAssumption DEF PeerInv, PeersTypeOK, HandlesAreOwned,
                                 PromotionIsLocked
  <2>4. HandlesAreOwned'
    BY <2>1, <2>2, <2>3, PeersAssumption DEF PeerInv, PeersTypeOK, HandlesAreOwned,
                            PromotionIsLocked
  <2>5. PromotionIsLocked'
    BY <2>1, <2>2, <2>3, PeersAssumption DEF PeerInv, PeersTypeOK, HandlesAreOwned,
                            PromotionIsLocked
  <2> QED
    BY <2>1, <2>4, <2>5, Zenon DEF PeerInv, PeersTypeOK
<1> QED
  BY <1>1, <1>2, Zenon

\* Each step of a watcher keeps the invariant of the sets.
LEMMA WatcherKeeps ==
  ASSUME PeerInv, NEW c \in Slots, Watcher(c)
  PROVE  (HandlesAreOwned /\ PromotionIsLocked)'
<1>1. CASE WatchFinished(c)
  BY <1>1, PeersAssumption DEF WatchFinished, CanLock, PeerInv, PeersTypeOK,
              HandlesAreOwned, PromotionIsLocked
<1>2. CASE WatchPromotes(c)
  BY <1>2, PeersAssumption DEF WatchPromotes, PeerInv, PeersTypeOK, HandlesAreOwned,
              PromotionIsLocked
<1>3. CASE WatchClosedEarly(c)
  BY <1>3, PeersAssumption DEF WatchClosedEarly, RemoveHandle, ForgetPeer, CanLock,
                               PeerInv,
              PeersTypeOK, HandlesAreOwned, PromotionIsLocked
<1>4. CASE WatchClosed(c)
  BY <1>4, PeersAssumption DEF WatchClosed, RemoveHandle, CanLock, PeerInv,
                               PeersTypeOK,
              HandlesAreOwned, PromotionIsLocked
<1>5. CASE BeaconDisconnected(c)
  BY <1>5, PeersAssumption DEF BeaconDisconnected, setVars, PeerInv, PeersTypeOK,
              HandlesAreOwned, PromotionIsLocked
<1>6. CASE ChainDisconnected(c)
  BY <1>6, PeersAssumption DEF ChainDisconnected, ForgetPeer, setVars, PeerInv,
                               PeersTypeOK,
              HandlesAreOwned, PromotionIsLocked
<1> QED
  BY <1>1, <1>2, <1>3, <1>4, <1>5, <1>6, Zenon DEF Watcher

\* Every step has the type of the state.
LEMMA PeerTypes ==
  ASSUME PeerInv, [PeersNext]_networkVars
  PROVE  PeersTypeOK'
<1> USE PeersAssumption DEF PeerInv, PeersTypeOK
<1>1. ASSUME NEW n \in Remotes,
             ManuallyTrack(n) \/ DelayPasses(n) \/ SelectDialTarget(n) \/ Accept(n)
      PROVE  PeersTypeOK'
  BY <1>1, Zenon DEF ManuallyTrack, DelayPasses, SelectDialTarget, Accept,
              setVars, peerVars, handlerVars, netVars
<1>2. ASSUME NEW n \in Remotes, HandleDial(n) \/ HandleAccepted(n)
      PROVE  PeersTypeOK'
  BY <1>2 DEF HandleDial, HandleAccepted, DialGuard, AdmitPeer, NotAdmitted,
              setVars, peerVars, handlerVars, netVars
<1>3. ASSUME NEW c \in Slots, HandleHandshake(c) \/ HandlePeerList(c) \/ PeerTask(c)
                              \/ PeerFails(c) \/ ReaderEnds(c)
      PROVE  PeersTypeOK'
  <2>1. CASE BeaconConnected(c)
    <3>1. gate' \in BOOLEAN
      BY <2>1, Zenon DEF BeaconConnected
    <3> QED
      BY <2>1, <3>1, Zenon DEF BeaconConnected, Counts, dialVars, setVars, netVars
  <2>2. CASE ~BeaconConnected(c)
    BY <1>3, <2>2, Zenon DEF HandleHandshake, HandlePeerList, PeerTask,
                             ChainConnected,
                      PeerFails, ReaderEnds, dialVars, setVars, handlerVars, netVars
  <2> QED
    BY <2>1, <2>2, Zenon
<1>4. ASSUME NEW c \in Slots, Watcher(c)
      PROVE  PeersTypeOK'
  <2>1. CASE WatchFinished(c) \/ WatchPromotes(c)
    BY <2>1 DEF WatchFinished, WatchPromotes, PromotionIsLocked, dialVars, setVars,
                handlerVars, netVars
  <2>2. CASE WatchClosedEarly(c) \/ WatchClosed(c)
    BY <2>2 DEF WatchClosedEarly, WatchClosed, RemoveHandle, ForgetPeer,
                PromotionIsLocked,
                dialVars, setVars, handlerVars, netVars
  <2>3. CASE BeaconDisconnected(c) \/ ChainDisconnected(c)
    BY <2>3 DEF BeaconDisconnected, ChainDisconnected, ForgetPeer,
                PromotionIsLocked,
                dialVars, setVars, handlerVars, netVars
  <2> QED
    BY <1>4, <2>1, <2>2, <2>3, Zenon DEF Watcher
<1>5. ASSUME RouterAddsChain \/ StartClose \/ DispatchReturns
      PROVE  PeersTypeOK'
  BY <1>5, ZenonT(20) DEF RouterAddsChain, StartClose, DispatchReturns, Tokens,
              dialVars, setVars, peerVars, handlerVars, netVars
<1>6. ASSUME UNCHANGED networkVars
      PROVE  PeersTypeOK'
  BY <1>6, Zenon DEF networkVars, dialVars, setVars, peerVars, handlerVars, netVars
<1> QED
  BY <1>1, <1>2, <1>3, <1>4, <1>5, <1>6, ZenonT(20) DEF PeersNext

\* The invariant is inductive: only an admission and a watcher touch the sets.
LEMMA PeerInvNext ==
  ASSUME PeerInv, [PeersNext]_networkVars
  PROVE  PeerInv'
<1> SUFFICES (HandlesAreOwned /\ PromotionIsLocked)'
  BY PeerTypes, Zenon DEF PeerInv
<1>1. ASSUME NEW n \in Remotes, HandleDial(n) \/ HandleAccepted(n)
      PROVE  (HandlesAreOwned /\ PromotionIsLocked)'
  <2>1. \/ NotAdmitted \/ \E m \in Remotes : AdmitPeer(m)
    BY <1>1, ZenonT(20) DEF HandleDial, HandleAccepted
  <2>2. NotAdmitted => UNCHANGED membership
    BY Zenon DEF NotAdmitted, membership, setVars, peerVars
  <2> QED
    BY <2>1, <2>2, AdmissionKeeps, MembershipUnchanged, Zenon DEF PeerInv
<1>2. ASSUME NEW c \in Slots, Watcher(c)
      PROVE  (HandlesAreOwned /\ PromotionIsLocked)'
  BY <1>2, WatcherKeeps, Zenon
<1>3. ASSUME NEW n \in Remotes,
             ManuallyTrack(n) \/ DelayPasses(n) \/ SelectDialTarget(n) \/ Accept(n)
      PROVE  UNCHANGED membership
  BY <1>3, Zenon DEF ManuallyTrack, DelayPasses, SelectDialTarget, Accept,
                     membership,
              peerVars
<1>4. ASSUME NEW c \in Slots, HandleHandshake(c) \/ HandlePeerList(c) \/ PeerTask(c)
                              \/ PeerFails(c) \/ ReaderEnds(c)
      PROVE  UNCHANGED membership
  BY <1>4, Zenon DEF HandleHandshake, HandlePeerList, PeerTask, BeaconConnected,
              ChainConnected,
              PeerFails, ReaderEnds, membership
<1>5. ASSUME RouterAddsChain \/ StartClose \/ DispatchReturns \/ UNCHANGED networkVars
      PROVE  UNCHANGED membership
  BY <1>5, Zenon DEF RouterAddsChain, StartClose, DispatchReturns, networkVars,
              membership, peerVars
<1> QED
  BY <1>1, <1>2, <1>3, <1>4, <1>5, MembershipUnchanged, Zenon DEF PeersNext, PeerInv

\* Whatever the nodes and however dials, accepts and closes interleave, the
\* handle that a peer set holds for a node is that of the one connection
\* whose watcher will remove it.
THEOREM OneOwnerPerNode == PeersSpec => []HandlesAreOwned
<1>1. PeerInv => HandlesAreOwned
  BY Zenon DEF PeerInv
<1> QED
  BY <1>1, PeerInvInit, PeerInvNext, PTL DEF PeersSpec

\* A step takes a handle out of connected only when its peer has ended.
LEMMA EvictionStep ==
  ASSUME PeerInv, [PeersNext]_networkVars, NEW n \in Remotes,
         connected[n] # None, connected'[n] # connected[n]
  PROVE  reader[connected[n]] = "done"
<1>1. ASSUME NEW m \in Remotes, HandleDial(m) \/ HandleAccepted(m)
      PROVE  connected' = connected
  BY <1>1, ZenonT(20) DEF HandleDial, HandleAccepted, NotAdmitted, AdmitPeer,
                          setVars
<1>2. ASSUME NEW c \in Slots, Watcher(c), connected' # connected
      PROVE  reader[connected[n]] = "done"
  <2>1. \/ WatchPromotes(c) \/ WatchClosedEarly(c) \/ WatchClosed(c)
    BY <1>2, Zenon DEF Watcher, WatchFinished, BeaconDisconnected,
                       ChainDisconnected, setVars
  <2>2. node[c] = n
    BY <2>1, Zenon DEF WatchPromotes, WatchClosedEarly, WatchClosed, RemoveHandle,
                       PeerInv, PeersTypeOK
  <2>3. ~WatchPromotes(c)
    BY <2>2, Zenon DEF WatchPromotes, PeerInv, PromotionIsLocked
  <2>4. Closed(c) /\ watcher[c] \in {"watch", "wait"}
    BY <2>1, <2>3, Zenon DEF WatchClosedEarly, WatchClosed
  <2>5. connected[n] = c
    BY <2>2, <2>4, PeersAssumption DEF PeerInv, HandlesAreOwned, PromotionIsLocked
  <2> QED
    BY <2>4, <2>5, Zenon DEF Closed
<1>3. ASSUME NEW m \in Remotes,
             ManuallyTrack(m) \/ DelayPasses(m) \/ SelectDialTarget(m) \/ Accept(m)
      PROVE  connected' = connected
  BY <1>3, Zenon DEF ManuallyTrack, DelayPasses, SelectDialTarget, Accept, setVars
<1>4. ASSUME NEW c \in Slots, HandleHandshake(c) \/ HandlePeerList(c) \/ PeerTask(c)
                              \/ PeerFails(c) \/ ReaderEnds(c)
      PROVE  connected' = connected
  BY <1>4, Zenon DEF HandleHandshake, HandlePeerList, PeerTask, BeaconConnected,
              ChainConnected,
              PeerFails, ReaderEnds, setVars
<1>5. ASSUME RouterAddsChain \/ StartClose \/ DispatchReturns \/ UNCHANGED networkVars
      PROVE  connected' = connected
  BY <1>5, ZenonT(20) DEF RouterAddsChain, StartClose, DispatchReturns,
                          networkVars, setVars
<1> QED
  BY <1>1, <1>2, <1>3, <1>4, <1>5, Zenon DEF PeersNext

\* No connection of a node evicts another: a promoted peer stays in connected
\* until its own tasks have ended.
THEOREM NoPeerIsEvicted == PeersSpec => NeverEvicted
<1>1. PeerInv /\ [PeersNext]_networkVars
        => [\A n \in Remotes : connected[n] # None /\ connected'[n] # connected[n]
              => reader[connected[n]] = "done"]_networkVars
  BY EvictionStep, Zenon
<1> QED
  BY <1>1, PeerInvInit, PeerInvNext, PTL DEF PeersSpec, NeverEvicted

-----------------------------------------------------------------------------
(* The handler of a chain.  Its task never waits for itself and never      *)
(* forgets the hand-off, for any capacity of its channels and any number   *)
(* of messages.                                                            *)
(*                                                                         *)
(* The invariant ties the transition channel to the bootstrapper: it holds *)
(* one request from the moment the bootstrapper finishes until the handler *)
(* takes it, and none before or after.  The biased select is what makes it *)
(* inductive: no message is handled while a request is in the channel.     *)

\* The hand-off is under way.
Handing == finished /\ state = "Bootstrapping"

OneRequest ==
    /\ transitions = IF Handing THEN 1 ELSE 0
    /\ finished \in BOOLEAN

NotStarted == task = "created" => ~finished /\ state = "Bootstrapping" /\ ctxState # "NormalOp"

HandOffInv == NeverBlocked /\ HandOffIsPending /\ OneRequest /\ NotStarted

\* What the handler's own steps change and the other tasks do not.
LEMMA OtherTask ==
    ASSUME HandOffInv, UNCHANGED <<task, state, transitions, finished, ctxState>>
    PROVE  HandOffInv'
BY Zenon DEF HandOffInv, NeverBlocked, HandOffIsPending, OneRequest, NotStarted,
             Handing

\* The request goes into an empty channel.
LEMMA RequestInEmptyChannel ==
    ASSUME HandOffInv, ~finished, state = "Bootstrapping", UNCHANGED state,
           Finish \/ (UNCHANGED finished /\ ctxState' # "NormalOp"), MaybeRequestNormalOp
    PROVE  HandOffInv'
<1>1. transitions = 0 /\ state = "Bootstrapping" /\ 0 < TransitionCapacity
    BY HandlerAssumption DEF HandOffInv, OneRequest, Handing, HandOffIsPending
<1>2. CASE Finish
    <2>1. finished' = TRUE /\ ctxState' = "NormalOp" /\ task' = "select" /\ transitions' = 1
        BY <1>1, <1>2 DEF Finish, MaybeRequestNormalOp
    <2> QED BY <1>1, <2>1 DEF HandOffInv, NeverBlocked, HandOffIsPending,
                              OneRequest,
            NotStarted, Handing
<1>3. CASE UNCHANGED finished /\ ctxState' # "NormalOp"
    <2>1. finished' = FALSE /\ task' = "select" /\ transitions' = 0
        BY <1>1, <1>3, Zenon DEF MaybeRequestNormalOp, HandOffInv, OneRequest
    <2> QED BY <1>1, <1>3, <2>1, Zenon DEF HandOffInv, NeverBlocked,
                                           HandOffIsPending,
                                    OneRequest,
            NotStarted, Handing
<1> QED BY <1>2, <1>3, Zenon

LEMMA HandOffInvInit == HandlerInit => HandOffInv
BY ZenonT(20) DEF HandlerInit, HandOffInv, NeverBlocked, HandOffIsPending,
                  OneRequest,
                  NotStarted, Handing

LEMMA HandlerStepInv ==
    ASSUME HandOffInv, HandlerStep
    PROVE  HandOffInv'
<1>1. CASE Start
    <2>1. ~finished /\ state = "Bootstrapping" /\ ctxState # "NormalOp"
        BY <1>1, Zenon DEF Start, HandOffInv, NotStarted
    <2>2. Finish \/ (UNCHANGED finished /\ ctxState' # "NormalOp")
        BY <1>1, <2>1, Zenon DEF Start
    <2> QED BY <1>1, <2>1, <2>2, RequestInEmptyChannel, Zenon DEF Start
<1>2. CASE SelectHalt
    BY <1>2, Zenon DEF SelectHalt, HandOffInv, NeverBlocked, HandOffIsPending,
                       OneRequest,
                NotStarted,
        Handing, bootVars
<1>3. CASE SelectTransition
    BY <1>3 DEF SelectTransition, HandOffInv, NeverBlocked, HandOffIsPending,
                OneRequest,
        NotStarted, Handing, bootVars
<1>4. CASE SelectQueue
    <2>1. transitions = 0 /\ task = "select" /\ UNCHANGED state
        BY <1>4, Zenon DEF SelectQueue, QueueReady
    <2>2. CASE state = "Bootstrapping" /\ Head(handlerQueue) = "bootstrap"
        <3>1. DispatchBoot
            BY <1>4, <2>2, Zenon DEF SelectQueue
        <3>2. ~finished /\ ctxState # "NormalOp"
            BY <2>1, <2>2 DEF HandOffInv, HandOffIsPending, OneRequest, Handing
        <3>3. Finish \/ (UNCHANGED finished /\ ctxState' # "NormalOp")
            BY <3>1, <3>2, Zenon DEF DispatchBoot, BootstrapperHandles
        <3> QED BY <2>1, <2>2, <3>1, <3>2, <3>3, RequestInEmptyChannel, Zenon
                   DEF DispatchBoot
    <2>3. CASE ~(state = "Bootstrapping" /\ Head(handlerQueue) = "bootstrap")
        BY <1>4, <2>1, <2>3, OtherTask, Zenon DEF SelectQueue, bootVars
    <2> QED BY <2>2, <2>3, Zenon
<1>5. CASE SelectVm
    BY <1>5, OtherTask, Zenon DEF SelectVm, bootVars
<1> QED BY <1>1, <1>2, <1>3, <1>4, <1>5, Zenon DEF HandlerStep

LEMMA HandOffInvNext ==
    ASSUME HandOffInv, [HandlerNext]_chainVars
    PROVE  HandOffInv'
<1>1. CASE HandlerStep
    BY <1>1, HandlerStepInv, Zenon
<1>2. CASE Halt \/ NewWork
    BY <1>2, OtherTask, Zenon DEF Halt, NewWork, bootVars
<1>3. CASE ForwarderWaits \/ ForwarderSends \/ ForwarderRests
    BY <1>3, OtherTask, Zenon DEF ForwarderWaits, ForwarderSends, ForwarderRests,
                                  Forwarder,
                           bootVars
<1>4. ASSUME NEW class, Push(class) PROVE HandOffInv'
    BY <1>4, OtherTask, Zenon DEF Push, bootVars
<1>5. CASE UNCHANGED chainVars
    BY <1>5, OtherTask, Zenon DEF chainVars, bootVars
<1> QED BY <1>1, <1>2, <1>3, <1>4, <1>5, Zenon DEF HandlerNext

(* The task never waits for room in the transition channel that only it    *)
(* empties (BootstrapperEngineAdapter::maybe_request_normal_op).           *)
THEOREM HandlerNeverBlocks == HandlerSpec => []NeverBlocked
<1>1. HandOffInv => NeverBlocked
    BY Zenon DEF HandOffInv
<1> QED BY <1>1, HandOffInvInit, HandOffInvNext, PTL DEF HandlerSpec

(* A finished bootstrapper that is still the active engine has asked for   *)
(* the transition (ChainHandler::run against the adapter).                 *)
THEOREM HandOffIsNeverForgotten == HandlerSpec => []HandOffIsPending
<1>1. HandOffInv => HandOffIsPending
    BY Zenon DEF HandOffInv
<1> QED BY <1>1, HandOffInvInit, HandOffInvNext, PTL DEF HandlerSpec

-----------------------------------------------------------------------------
(* Requests and their timers.                                              *)

\* The counters are natural numbers.
Counters == unsent \in Nat /\ wakes \in Nat

WakeInv == Counters /\ NeverOversleeps

\* A step that leaves the registry and the loop alone, and moves tokens only
\* towards the loop.
LEMMA QuietStep ==
    ASSUME WakeInv, Counters', UNCHANGED <<pending, loop, next>>,
           unsent' = 0 /\ wakes' = 0 => unsent = 0 /\ wakes = 0
    PROVE  WakeInv'
BY Zenon DEF WakeInv, NeverOversleeps, Earliest

\* A call of put, remove or cancel owes a token afterwards.
LEMMA CallStep ==
    ASSUME WakeInv, OwesWake, UNCHANGED loopVars
    PROVE  WakeInv'
BY DEF WakeInv, Counters, NeverOversleeps, OwesWake, loopVars

\* A step after which the loop is not sleeping.
LEMMA AwakeStep ==
    ASSUME Counters', loop' # "select"
    PROVE  WakeInv'
BY Zenon DEF WakeInv, NeverOversleeps

LEMMA LoopStep ==
    ASSUME WakeInv, DispatchLoop
    PROVE  WakeInv'
<1>1. CASE ComputeNext
    BY <1>1, Zenon DEF ComputeNext, WakeInv, Counters, NeverOversleeps, Earliest,
                       registryVars
<1>2. CASE SelectShutdown
    BY <1>2, AwakeStep, Zenon DEF SelectShutdown, WakeInv, Counters
<1>3. CASE SelectWake
    BY <1>3, AwakeStep DEF SelectWake, WakeInv, Counters
<1>4. CASE SelectSleep
    BY <1>4, AwakeStep, Zenon DEF SelectSleep, WakeInv, Counters
<1>5. CASE FireDone
    BY <1>5, AwakeStep, Zenon DEF FireDone, WakeInv, Counters
<1> QED BY <1>1, <1>2, <1>3, <1>4, <1>5, Zenon DEF DispatchLoop

LEMMA WakeInvInit == TimeoutInit => WakeInv
BY DEF TimeoutInit, WakeInv, Counters, NeverOversleeps

LEMMA WakeInvNext == WakeInv /\ [TimeoutNext]_timeoutVars => WakeInv'
<1> SUFFICES ASSUME WakeInv, [TimeoutNext]_timeoutVars PROVE WakeInv' BY Zenon
<1>1. CASE Tick
    BY <1>1, QuietStep, Zenon DEF Tick, WakeInv, Counters, registryVars, loopVars
<1>2. CASE ObserveLatency
    BY <1>2, QuietStep, Zenon DEF ObserveLatency, WakeInv, Counters, loopVars
<1>3. CASE SendWake
    BY <1>3, QuietStep DEF SendWake, WakeInv, Counters, registryVars
<1>4. CASE Stop
    BY <1>4, QuietStep, Zenon DEF Stop, WakeInv, Counters, registryVars, loopVars
<1>5. CASE DispatchLoop
    BY <1>5, LoopStep, Zenon
<1>6. ASSUME NEW id \in RequestIds, Put(id) PROVE WakeInv'
    BY <1>6, CallStep, Zenon DEF Put
<1>7. ASSUME NEW id \in RequestIds, Remove(id) PROVE WakeInv'
    BY <1>7, CallStep, Zenon DEF Remove
<1>8. ASSUME NEW id \in RequestIds, Cancel(id) PROVE WakeInv'
    BY <1>8, CallStep, Zenon DEF Cancel
<1>9. ASSUME NEW id \in RequestIds, Fire(id) PROVE WakeInv'
    BY <1>9, AwakeStep, Zenon DEF Fire, WakeInv, Counters, loopVars
<1>10. CASE UNCHANGED timeoutVars
    BY <1>10, QuietStep, Zenon DEF timeoutVars, registryVars, loopVars, WakeInv,
                                   Counters
<1> QED BY <1>1, <1>2, <1>3, <1>4, <1>5, <1>6, <1>7, <1>8, <1>9, <1>10, Zenon
           DEF TimeoutNext

(* No wake-up is lost (dispatch_loop against put, remove and cancel): when *)
(* the loop sleeps and nobody is waking it, it sleeps to the earliest      *)
(* deadline.                                                               *)
THEOREM NoWakeUpIsLost == TimeoutSpec => []NeverOversleeps
<1>1. WakeInv => NeverOversleeps
    BY Zenon DEF WakeInv
<1> QED BY <1>1, WakeInvInit, WakeInvNext, PTL DEF TimeoutSpec

-----------------------------------------------------------------------------
(* The queue: how a push and a delivery change the number of failures.     *)

Messages == [kind : {"failed", "response"}, id : RequestIds]

\* The places in a queue that hold the failure of id.
Places(q, id) == {i \in 1..Len(q) : q[i] = Message("failed", id)}

LEMMA PlacesFinite ==
    ASSUME NEW q \in Seq(Messages), NEW id
    PROVE  IsFiniteSet(Places(q, id)) /\ Cardinality(Places(q, id)) \in Nat
<1>1. Len(q) \in Nat
    OBVIOUS
<1>2. IsFiniteSet(1..Len(q))
    BY <1>1, FS_Interval
<1>3. IsFiniteSet(Places(q, id))
    BY <1>2, FS_Subset, Zenon DEF Places
<1> QED BY <1>3, FS_CardinalityType, Zenon

LEMMA PlacesAppend ==
    ASSUME NEW q \in Seq(Messages), NEW m \in Messages, NEW id
    PROVE  Cardinality(Places(Append(q, m), id)) =
             Cardinality(Places(q, id)) + IF m = Message("failed", id) THEN 1 ELSE 0
<1> DEFINE r == Append(q, m)
<1>1. /\ Len(q) \in Nat /\ Len(r) = Len(q) + 1 /\ r[Len(q) + 1] = m
      /\ \A i \in 1..Len(q) : r[i] = q[i]
    OBVIOUS
<1>2. CASE m = Message("failed", id)
  <2>1. Places(r, id) = Places(q, id) \cup {Len(q) + 1}
    BY <1>1, <1>2 DEF Places
  <2>2. Len(q) + 1 \notin Places(q, id)
    BY <1>1 DEF Places
  <2> QED BY <1>2, <2>1, <2>2, PlacesFinite, FS_AddElement, Zenon
<1>3. CASE m # Message("failed", id)
  <2>1. Places(r, id) = Places(q, id)
    BY <1>1, <1>3 DEF Places
  <2> QED BY <1>3, <2>1, PlacesFinite
<1> QED BY <1>2, <1>3, Zenon

LEMMA PlacesTail ==
    ASSUME NEW q \in Seq(Messages), q # <<>>, NEW id
    PROVE  Cardinality(Places(q, id)) =
             Cardinality(Places(Tail(q), id))
               + IF Head(q) = Message("failed", id) THEN 1 ELSE 0
<1> DEFINE r == Tail(q)
           S == Places(r, id)
           T == Places(q, id) \ {1}
           f == [i \in S |-> i + 1]
<1>1. /\ Len(q) \in Nat /\ Len(q) >= 1 /\ Len(r) = Len(q) - 1 /\ Head(q) = q[1]
      /\ r \in Seq(Messages) /\ \A i \in 1..Len(r) : r[i] = q[i + 1]
    OBVIOUS
<1>2. f \in [S -> T]
    BY <1>1 DEF Places
<1>3. \A i, j \in S : f[i] = f[j] => i = j
    BY <1>1 DEF Places
<1>4. \A j \in T : \E i \in S : f[i] = j
  <2> SUFFICES ASSUME NEW j \in T PROVE \E i \in S : f[i] = j
    BY Zenon
  <2>1. j \in 1..Len(q) /\ j # 1 /\ q[j] = Message("failed", id)
    BY Zenon DEF Places
  <2>2. j - 1 \in 1..Len(r) /\ r[j - 1] = q[j]
    BY <1>1, <2>1
  <2>3. j - 1 \in S /\ f[j - 1] = j
    BY <2>1, <2>2 DEF Places
  <2> QED BY <2>3, Zenon
<1>5. ExistsBijection(S, T)
  <2> HIDE DEF S, T, f
  <2>1. f \in Injection(S, T)
    BY <1>2, <1>3, Zenon DEF Injection, IsInjective
  <2>2. f \in Surjection(S, T)
    BY <1>2, <1>4, Zenon DEF Surjection
  <2> QED BY <2>1, <2>2, Zenon DEF Bijection, ExistsBijection
<1>6. Cardinality(T) = Cardinality(S)
  <2>1. IsFiniteSet(S)
    BY <1>1, PlacesFinite, Zenon
  <2> HIDE DEF S, T
  <2> QED BY <1>5, <2>1, FS_Bijection, Zenon
<1>7. 1 \in Places(q, id) <=> Head(q) = Message("failed", id)
    BY <1>1 DEF Places
<1>8. Cardinality(T) = IF 1 \in Places(q, id) THEN Cardinality(Places(q, id)) - 1
                                              ELSE Cardinality(Places(q, id))
    BY PlacesFinite, FS_RemoveElement, Zenon
<1> QED BY <1>6, <1>7, <1>8, PlacesFinite

-----------------------------------------------------------------------------
(* The life of a request.                                                  *)

\* Where the send under way is.  Its requests are registered one by one; none
\* of them is on the wire before all are; and what is left to fail was a
\* fetch that the network did not take.
CallInv ==
    \/ call = NoCall
    \/ /\ call \in [step : {"register", "send", "fail"}, req : Reqs,
                    left : SUBSET Nodes, nodes : SUBSET Nodes]
       /\ chain
       /\ call.step = "register" =>
            /\ \A n \in call.left : <<n, call.req>> \notin Registered
            /\ \A n \in call.nodes \ call.left : <<n, call.req>> \in Registered
       /\ call.step = "send" => \A n \in call.nodes : <<n, call.req>> \in Registered
       /\ call.step \in {"register", "send"} => \A id \in sent : id[2] # call.req
       /\ call.step = "fail" =>
            /\ call.req \in Fetches
            /\ \A n \in call.left :
                 <<n, call.req>> \in Registered /\ <<n, call.req>> \notin sent

\* No request fails early before its send is done.
PatientInv ==
    call.step \in {"register", "send"} =>
        \A id \in Registered :
            id[2] = call.req /\ Synthesized(id) > 0 => now >= due[id]

RequestTypes ==
    /\ now \in Nat /\ currentTimeout \in Nat
    /\ Registered \subseteq RequestIds /\ \A id \in Registered : due[id] \in Nat
    /\ sent \subseteq Registered /\ wire \subseteq RequestIds
    /\ tasks \in [RequestIds -> Nat] /\ failures \in [RequestIds -> Nat]
    /\ queue \in Seq(Messages)

\* A timer runs to the deadline its request was registered with, and its
\* failure has a handler to go to.
TimerInv ==
    /\ DOMAIN pending \subseteq Registered /\ Registered \subseteq routed
    /\ \A id \in DOMAIN pending : pending[id] = due[id]
    /\ \A id \in RequestIds \ Registered : Synthesized(id) = 0

RequestInv ==
    RequestTypes /\ CallInv /\ PatientInv /\ TimerInv /\ FailedExactlyOnce

LEMMA QueuedIs ==
    ASSUME queue \in Seq(Messages), NEW id
    PROVE  QueuedFailures(id) = Cardinality(Places(queue, id))
<1>1. DOMAIN queue = 1..Len(queue)
    OBVIOUS
<1> QED BY <1>1, Zenon DEF QueuedFailures, Places

\* Synthesized(id) before and after a step.
LEMMA SynthesizedType ==
    ASSUME RequestTypes, NEW id \in RequestIds
    PROVE  Synthesized(id) \in Nat
<1>1. QueuedFailures(id) = Cardinality(Places(queue, id))
    BY QueuedIs, Zenon DEF RequestTypes
<1> QED BY <1>1, PlacesFinite DEF RequestTypes, Synthesized

LEMMA SynthesizedKept ==
    ASSUME UNCHANGED <<tasks, queue, failures>>, NEW id
    PROVE  Synthesized(id)' = Synthesized(id)
BY Zenon DEF Synthesized, QueuedFailures

LEMMA SynthesizedSpawn ==
    ASSUME RequestTypes, NEW id \in RequestIds, UNCHANGED <<queue, failures>>,
           tasks' = [tasks EXCEPT ![id] = @ + 1], NEW i \in RequestIds
    PROVE  Synthesized(i)' = Synthesized(i) + IF i = id THEN 1 ELSE 0
<1>1. QueuedFailures(i)' = QueuedFailures(i)
    BY Zenon DEF QueuedFailures
<1>2. QueuedFailures(i) = Cardinality(Places(queue, i))
    BY QueuedIs, Zenon DEF RequestTypes
<1>3. QueuedFailures(i) \in Nat
    BY <1>2, PlacesFinite, Zenon DEF RequestTypes
<1> QED BY <1>1, <1>3, SMTT(20) DEF RequestTypes, Synthesized

LEMMA SynthesizedMoves ==
    ASSUME RequestTypes, Deliver \/ \E j \in RequestIds : PushFailure(j) \/ Answer(j)
    PROVE  /\ queue' \in Seq(Messages)
           /\ tasks' \in [RequestIds -> Nat] /\ failures' \in [RequestIds -> Nat]
           /\ \A i \in RequestIds : Synthesized(i)' = Synthesized(i)
<1> DEFINE count(q, i) == Cardinality(Places(q, i))
<1>0. /\ queue \in Seq(Messages)
      /\ tasks \in [RequestIds -> Nat] /\ failures \in [RequestIds -> Nat]
    BY Zenon DEF RequestTypes
<1>1. ASSUME queue' \in Seq(Messages), NEW i \in RequestIds
      PROVE  /\ Synthesized(i) = tasks[i] + count(queue, i) + failures[i]
             /\ Synthesized(i)' = tasks'[i] + count(queue', i) + failures'[i]
             /\ count(queue, i) \in Nat /\ count(queue', i) \in Nat
  <2>1. QueuedFailures(i) = count(queue, i)
    BY <1>0, QueuedIs, Zenon
  <2>2. QueuedFailures(i)' = count(queue', i)
    <3>1. DOMAIN queue' = 1..Len(queue')
      BY <1>1
    <3> QED BY <3>1, Zenon DEF QueuedFailures, Places
  <2>3. count(queue, i) \in Nat /\ count(queue', i) \in Nat
    BY <1>0, <1>1, PlacesFinite, Zenon
  <2> QED BY <2>1, <2>2, <2>3, Zenon DEF Synthesized
<1>2. ASSUME NEW j \in RequestIds, PushFailure(j)
      PROVE  /\ queue' \in Seq(Messages)
             /\ tasks' \in [RequestIds -> Nat] /\ failures' \in [RequestIds -> Nat]
             /\ \A i \in RequestIds : Synthesized(i)' = Synthesized(i)
  <2> DEFINE m == Message("failed", j)
  <2>1. /\ tasks[j] > 0 /\ tasks' = [tasks EXCEPT ![j] = @ - 1]
        /\ queue' = Append(queue, m) /\ failures' = failures
    BY <1>2, Zenon DEF PushFailure
  <2>2. m \in Messages /\ \A i \in RequestIds : m = Message("failed", i) <=> i = j
    BY Zenon DEF Message, Messages
  <2>3. queue' \in Seq(Messages) /\ tasks' \in [RequestIds -> Nat]
    BY <1>0, <2>1, <2>2
  <2>4. ASSUME NEW i \in RequestIds PROVE Synthesized(i)' = Synthesized(i)
    <3>1. count(queue', i) = count(queue, i) + IF i = j THEN 1 ELSE 0
      BY <1>0, <2>1, <2>2, PlacesAppend, Zenon
    <3>2. tasks'[i] = tasks[i] - IF i = j THEN 1 ELSE 0
      BY <1>0, <2>1
    <3>3. /\ Synthesized(i) = tasks[i] + count(queue, i) + failures[i]
          /\ Synthesized(i)' = tasks'[i] + count(queue', i) + failures'[i]
          /\ count(queue, i) \in Nat /\ count(queue', i) \in Nat
      BY <1>1, <2>3, Zenon
    <3>4. tasks[i] \in Nat /\ failures[i] \in Nat /\ failures'[i] = failures[i]
      BY <1>0, <2>1, Zenon
    <3> HIDE DEF count
    <3> QED BY <3>1, <3>2, <3>3, <3>4, SMTT(20)
  <2> QED BY <1>0, <2>1, <2>3, <2>4, Zenon
<1>3. ASSUME NEW j \in RequestIds, Answer(j)
      PROVE  /\ queue' \in Seq(Messages)
             /\ tasks' \in [RequestIds -> Nat] /\ failures' \in [RequestIds -> Nat]
             /\ \A i \in RequestIds : Synthesized(i)' = Synthesized(i)
  <2> DEFINE m == Message("response", j)
  <2>1. tasks' = tasks /\ queue' = Append(queue, m) /\ failures' = failures
    BY <1>3, Zenon DEF Answer, routerVars
  <2>2. m \in Messages /\ \A i \in RequestIds : m # Message("failed", i)
    BY Zenon DEF Message, Messages
  <2>3. queue' \in Seq(Messages)
    BY <1>0, <2>1, <2>2
  <2>4. ASSUME NEW i \in RequestIds PROVE Synthesized(i)' = Synthesized(i)
    <3>1. count(queue', i) = count(queue, i) + 0
      BY <1>0, <2>1, <2>2, PlacesAppend, Zenon
    <3> HIDE DEF count
    <3> QED BY <1>0, <1>1, <2>1, <2>3, <3>1
  <2> QED BY <1>0, <2>1, <2>3, <2>4, Zenon
<1>4. ASSUME Deliver
      PROVE  /\ queue' \in Seq(Messages)
             /\ tasks' \in [RequestIds -> Nat] /\ failures' \in [RequestIds -> Nat]
             /\ \A i \in RequestIds : Synthesized(i)' = Synthesized(i)
  <2> DEFINE m == Head(queue)
  <2>1. /\ queue # <<>> /\ queue' = Tail(queue) /\ tasks' = tasks
        /\ failures' = IF m.kind = "failed" THEN [failures EXCEPT ![m.id] = @ + 1]
                                            ELSE failures
    BY <1>4, Zenon DEF Deliver, routerVars
  <2>2. m \in Messages /\ queue' \in Seq(Messages)
    BY <1>0, <2>1, SMTT(20)
  <2>3. \A i \in RequestIds :
            m = Message("failed", i) <=> m.kind = "failed" /\ m.id = i
    BY <2>2 DEF Message, Messages
  <2>4. /\ failures' \in [RequestIds -> Nat]
        /\ \A i \in RequestIds : failures'[i] =
              failures[i] + IF m = Message("failed", i) THEN 1 ELSE 0
    <3>1. m.id \in RequestIds
      BY <2>2, Zenon DEF Messages
    <3> HIDE DEF m
    <3>2. CASE m.kind = "failed"
      BY <1>0, <2>1, <2>3, <3>1, <3>2
    <3>3. CASE m.kind # "failed"
      BY <1>0, <2>1, <2>3, <3>3
    <3> QED BY <3>2, <3>3, Zenon
  <2>5. ASSUME NEW i \in RequestIds PROVE Synthesized(i)' = Synthesized(i)
    <3>1. count(queue, i) = count(queue', i) + IF m = Message("failed", i) THEN 1 ELSE 0
      BY <1>0, <2>1, PlacesTail, Zenon
    <3> HIDE DEF count, m
    <3> QED BY <1>0, <1>1, <2>1, <2>2, <2>4, <3>1, SMTT(20)
  <2> QED BY <1>0, <2>1, <2>2, <2>4, <2>5, Zenon
<1> QED BY <1>2, <1>3, <1>4, Zenon

-----------------------------------------------------------------------------
(* Each step keeps the invariant.                                          *)

\* A step that registers, sends and fails nothing: time may pass, and
\* messages may move.
LEMMA QuietRequests ==
    ASSUME RequestInv, RequestTypes', now' >= now,
           UNCHANGED <<pending, call, chain, routed, due, sent>>,
           \A i \in RequestIds : Synthesized(i)' = Synthesized(i)
    PROVE  RequestInv'
<1>1. Registered' = Registered /\ Registered \subseteq RequestIds
    BY Zenon DEF Registered, RequestInv, RequestTypes
<1>2. CallInv'
    BY <1>1, Zenon DEF RequestInv, CallInv
<1>3. \A i \in Registered : due[i] \in Nat /\ now \in Nat /\ now' \in Nat
    BY Zenon DEF RequestInv, RequestTypes
<1>4. PatientInv'
    BY <1>1, <1>3 DEF RequestInv, PatientInv
<1>5. TimerInv'
    BY <1>1, Zenon DEF RequestInv, TimerInv
<1>6. FailedExactlyOnce'
    BY <1>1, <1>3 DEF RequestInv, FailedExactlyOnce
<1> QED BY <1>2, <1>4, <1>5, <1>6, Zenon DEF RequestInv

\* Begin: a request id that is not in use.
LEMMA BeginStep ==
    ASSUME RequestInv, NEW req \in Reqs, NEW nodes \in SUBSET Nodes, Begin(req, nodes)
    PROVE  RequestInv'
<1>1. /\ UNCHANGED <<now, currentTimeout, pending, chain, routed, tasks, wire, due,
                     sent, queue, failures>>
      /\ chain /\ \A id \in Registered : id[2] # req
      /\ call' = [step |-> "register", req |-> req, left |-> nodes, nodes |-> nodes]
    BY Zenon DEF Begin, timeoutVars, registryVars, routerVars, engineVars,
                 historyVars
<1>2. Registered' = Registered /\ \A i : Synthesized(i)' = Synthesized(i)
    BY <1>1, SynthesizedKept, Zenon DEF Registered
<1>3. RequestTypes'
    BY <1>1, <1>2, Zenon DEF RequestInv, RequestTypes
<1>4. CallInv'
  <2>1. \A n \in nodes : <<n, req>> \notin Registered
    BY <1>1, Zenon
  <2>2. \A id \in sent : id[2] # req
    BY <1>1, Zenon DEF RequestInv, RequestTypes
  <2> QED BY <1>1, <1>2, <2>1, <2>2, Zenon DEF CallInv
<1>5. PatientInv'
    BY <1>1, <1>2, Zenon DEF PatientInv
<1>6. TimerInv'
    BY <1>1, <1>2, Zenon DEF RequestInv, TimerInv
<1>7. FailedExactlyOnce'
    BY <1>1, <1>2, Zenon DEF RequestInv, FailedExactlyOnce
<1> QED BY <1>3, <1>4, <1>5, <1>6, <1>7, Zenon DEF RequestInv

\* register_request: a timer runs, and nothing was synthesized before.
LEMMA RegisterStep ==
    ASSUME RequestInv, NEW n \in Nodes, Register(n)
    PROVE  RequestInv'
<1> DEFINE id == <<n, call.req>>
<1>1. /\ call.step = "register" /\ n \in call.left /\ call # NoCall
      /\ UNCHANGED <<now, currentTimeout, chain, tasks, wire, sent, queue, failures>>
    BY DEF Register, Put, engineVars, NoCall
<1>2. /\ call \in [step : {"register", "send", "fail"}, req : Reqs,
                   left : SUBSET Nodes, nodes : SUBSET Nodes]
      /\ chain
      /\ \A m \in call.left : <<m, call.req>> \notin Registered
      /\ \A m \in call.nodes \ call.left : <<m, call.req>> \in Registered
      /\ \A i \in sent : i[2] # call.req
    BY <1>1, Zenon DEF RequestInv, CallInv
<1>3. id \in RequestIds /\ id \notin Registered /\ Synthesized(id) = 0
    BY <1>1, <1>2, RequestsAssumption, Zenon DEF RequestInv, TimerInv
<1>4. PICK t \in Readings :
          pending' = [i \in DOMAIN pending \cup {id} |->
                        IF i = id THEN t + currentTimeout ELSE pending[i]]
    BY Zenon DEF Register, Put
<1>5. pending'[id] \in Nat /\ pending'[id] = t + currentTimeout
    BY <1>4 DEF RequestInv, RequestTypes, Readings
<1>6. /\ Registered' = Registered \cup {id}
      /\ due'[id] = pending'[id] /\ \A i \in Registered : due'[i] = due[i]
      /\ DOMAIN due' = Registered \cup {id}
    BY <1>3, Zenon DEF Register, Registered
<1>7. routed' = routed \cup {id}
    BY <1>2, Zenon DEF Register
<1>8. \A i : Synthesized(i)' = Synthesized(i)
    BY <1>1, SynthesizedKept, Zenon
<1>9. RequestTypes'
  <2>1. \A i \in Registered' : due'[i] \in Nat
    BY <1>5, <1>6, Zenon DEF RequestInv, RequestTypes
  <2> QED BY <1>1, <1>3, <1>6, <2>1, Zenon DEF RequestInv, RequestTypes
<1>10. /\ call'.step = IF call.left = {n} THEN "send" ELSE "register"
       /\ call'.req = call.req /\ call'.nodes = call.nodes
       /\ call'.left = call.left \ {n}
       /\ call' \in [step : {"register", "send", "fail"}, req : Reqs,
                     left : SUBSET Nodes, nodes : SUBSET Nodes]
    BY <1>1, <1>2, Zenon DEF Register
<1>11. CallInv'
  <2>1. \A m \in call'.left : <<m, call.req>> # id
    BY <1>10, Zenon
  <2>2. \A m \in call'.nodes \ call'.left : <<m, call.req>> \in Registered'
    BY <1>2, <1>6, <1>10, Zenon
  <2>3. call'.step = "send" => call'.left = {}
    BY <1>10, Zenon
  <2> QED BY <1>1, <1>2, <1>6, <1>10, <2>1, <2>2, <2>3, Zenon DEF CallInv
<1>12. PatientInv'
  <2> SUFFICES ASSUME NEW i \in Registered', i[2] = call'.req, Synthesized(i)' > 0
               PROVE  now' >= due'[i]
    BY Zenon DEF PatientInv
  <2>1. i # id
    BY <1>3, <1>8
  <2>2. i \in Registered /\ i[2] = call.req /\ Synthesized(i) > 0 /\ due'[i] = due[i]
    BY <1>6, <1>8, <1>10, <2>1, Zenon
  <2> QED BY <1>1, <2>2, Zenon DEF RequestInv, PatientInv
<1>13. TimerInv'
  <2>1. DOMAIN pending' \subseteq Registered' /\ Registered' \subseteq routed'
    BY <1>4, <1>6, <1>7, Zenon DEF RequestInv, TimerInv
  <2>2. \A i \in DOMAIN pending' : pending'[i] = due'[i]
    BY <1>3, <1>4, <1>6, Zenon DEF RequestInv, TimerInv
  <2>3. \A i \in RequestIds \ Registered' : Synthesized(i)' = 0
    BY <1>6, <1>8, Zenon DEF RequestInv, TimerInv
  <2> QED BY <2>1, <2>2, <2>3, Zenon DEF TimerInv
<1>14. FailedExactlyOnce'
  <2> SUFFICES ASSUME NEW i \in Registered'
               PROVE  /\ Synthesized(i)' + (IF i \in DOMAIN pending' THEN 1 ELSE 0) = 1
                      /\ Synthesized(i)' > 0 /\ now' < due'[i]
                           => i[2] \in Fetches /\ i \notin sent'
    BY Zenon DEF FailedExactlyOnce
  <2>1. CASE i = id
    BY <1>3, <1>4, <1>8, <2>1, SMTT(20)
  <2>2. CASE i # id
    <3>1. i \in Registered /\ (i \in DOMAIN pending' <=> i \in DOMAIN pending)
      BY <1>4, <1>6, <2>2, Zenon
    <3> QED BY <1>1, <1>6, <1>8, <3>1, Zenon DEF RequestInv, FailedExactlyOnce
  <2> QED BY <2>1, <2>2, Zenon
<1> QED BY <1>9, <1>11, <1>12, <1>13, <1>14, Zenon DEF RequestInv

\* Send: the requests the network took have not failed early, and those it
\* did not take may.
LEMMA SendStep ==
    ASSUME RequestInv, NEW took \in SUBSET Nodes, Send(took)
    PROVE  RequestInv'
<1>1. /\ call.step = "send" /\ took \subseteq call.nodes /\ call # NoCall
      /\ UNCHANGED <<now, currentTimeout, pending, chain, routed, tasks, due, queue,
                     failures>>
      /\ wire' = wire \cup (took \X {call.req}) /\ sent' = sent \cup (took \X {call.req})
    BY DEF Send, timeoutVars, registryVars, routerVars, engineVars, NoCall
<1>2. /\ call \in [step : {"register", "send", "fail"}, req : Reqs,
                   left : SUBSET Nodes, nodes : SUBSET Nodes]
      /\ chain
      /\ \A m \in call.nodes : <<m, call.req>> \in Registered
      /\ \A id \in sent : id[2] # call.req
    BY <1>1, Zenon DEF RequestInv, CallInv
<1>3. Registered' = Registered /\ \A i : Synthesized(i)' = Synthesized(i)
    BY <1>1, SynthesizedKept, Zenon DEF Registered
<1>4. took \X {call.req} \subseteq Registered
    BY <1>1, <1>2
<1>5. RequestTypes'
    BY <1>1, <1>3, <1>4, Zenon DEF RequestInv, RequestTypes
<1>6. CallInv' /\ PatientInv'
  <2>1. CASE call' = NoCall
    BY <2>1, Zenon DEF CallInv, PatientInv, NoCall
  <2>2. CASE /\ FailsUnsent(call.req)
             /\ call' = [call EXCEPT !.step = "fail", !.left = Unsent(call.nodes, took)]
    <3>1. /\ call'.step = "fail" /\ call'.req = call.req
          /\ call'.left = call.nodes \ took
          /\ call' \in [step : {"register", "send", "fail"}, req : Reqs,
                        left : SUBSET Nodes, nodes : SUBSET Nodes]
      BY <1>2, <2>2, Zenon DEF Unsent
    <3>2. call.req \in Fetches
      BY <2>2, Zenon DEF FailsUnsent
    <3>3. ASSUME NEW m \in call'.left
          PROVE  <<m, call.req>> \in Registered' /\ <<m, call.req>> \notin sent'
      <4>1. <<m, call.req>> \notin sent
        BY <1>2, Zenon
      <4> QED BY <1>1, <1>2, <1>3, <3>1, <4>1, Zenon
    <3> QED BY <1>1, <1>2, <3>1, <3>2, <3>3, Zenon DEF CallInv, PatientInv
  <2> QED BY <2>1, <2>2, Zenon DEF Send
<1>7. TimerInv'
    BY <1>1, <1>3, Zenon DEF RequestInv, TimerInv
<1>8. FailedExactlyOnce'
  <2> SUFFICES ASSUME NEW i \in Registered
               PROVE  /\ Synthesized(i)' + (IF i \in DOMAIN pending' THEN 1 ELSE 0) = 1
                      /\ Synthesized(i)' > 0 /\ now' < due'[i]
                           => i[2] \in Fetches /\ i \notin sent'
    BY <1>3, Zenon DEF FailedExactlyOnce
  <2>1. /\ Synthesized(i) + (IF i \in DOMAIN pending THEN 1 ELSE 0) = 1
        /\ Synthesized(i) > 0 /\ now < due[i] => i[2] \in Fetches /\ i \notin sent
    BY Zenon DEF RequestInv, FailedExactlyOnce
  <2>2. i \in took \X {call.req} => i[2] = call.req
    BY Zenon
  <2>3. i \in took \X {call.req} /\ Synthesized(i) > 0 => ~(now < due[i])
    <3>1. now \in Nat /\ due[i] \in Nat
      BY Zenon DEF RequestInv, RequestTypes
    <3>2. i[2] = call.req /\ Synthesized(i) > 0 => now >= due[i]
      BY <1>1, Zenon DEF RequestInv, PatientInv
    <3> QED BY <2>2, <3>1, <3>2
  <2> QED BY <1>1, <1>3, <2>1, <2>3, Zenon
<1> QED BY <1>5, <1>6, <1>7, <1>8, Zenon DEF RequestInv

\* Whoever takes the timer of a request out of the registry, its sender or
\* the loop, spawns its failure, and nobody else has.
LEMMA ClaimStep ==
    ASSUME RequestInv, NEW id \in RequestIds, RequestTypes',
           UNCHANGED <<now, chain, routed, due, sent, queue, failures>>,
           pending' = Forget(id),
           tasks' = IF id \in DOMAIN pending THEN [tasks EXCEPT ![id] = @ + 1] ELSE tasks,
           CallInv',
           call'.step \in {"register", "send"} => call' = call,
           id \in DOMAIN pending => \/ now >= due[id]
                                    \/ /\ id[2] \in Fetches /\ id \notin sent
                                       /\ call'.step \notin {"register", "send"}
    PROVE  RequestInv'
<1>1. Registered' = Registered /\ Registered \subseteq RequestIds
    BY Zenon DEF Registered, RequestInv, RequestTypes
<1>2. /\ DOMAIN pending' = DOMAIN pending \ {id}
      /\ \A i \in DOMAIN pending' : pending'[i] = pending[i]
    BY Zenon DEF Forget, Restrict
<1>3. ASSUME NEW i \in RequestIds
      PROVE  Synthesized(i)' = Synthesized(i)
                 + IF i = id /\ id \in DOMAIN pending THEN 1 ELSE 0
  <2>0. Synthesized(i) \in Nat
    BY SynthesizedType, Zenon DEF RequestInv
  <2>1. CASE id \in DOMAIN pending
    BY <2>1, SynthesizedSpawn, Zenon DEF RequestInv
  <2>2. CASE id \notin DOMAIN pending
    BY <2>0, <2>2, SynthesizedKept, SMTT(20)
  <2> QED BY <2>1, <2>2, Zenon
<1>4. \A i \in RequestIds : Synthesized(i) \in Nat
    BY SynthesizedType, Zenon DEF RequestInv
<1>5. \A i \in Registered : due[i] \in Nat /\ now \in Nat
    BY Zenon DEF RequestInv, RequestTypes
<1>6. TimerInv'
  <2>1. DOMAIN pending \subseteq Registered
    BY Zenon DEF RequestInv, TimerInv
  <2>2. \A i \in RequestIds \ Registered' : Synthesized(i)' = 0
    BY <1>1, <1>3, <2>1, SMTT(20) DEF RequestInv, TimerInv
  <2> QED BY <1>1, <1>2, <2>2, Zenon DEF RequestInv, TimerInv
<1>7. PatientInv'
  <2> SUFFICES ASSUME call'.step \in {"register", "send"}, NEW i \in Registered,
                      i[2] = call'.req, Synthesized(i)' > 0
               PROVE  now >= due[i]
    BY <1>1, Zenon DEF PatientInv
  <2>1. call' = call
    BY Zenon
  <2>2. CASE i = id /\ id \in DOMAIN pending
    BY <2>2, Zenon
  <2>3. CASE ~(i = id /\ id \in DOMAIN pending)
    <3>1. Synthesized(i) > 0
      BY <1>1, <1>3, <1>4, <2>3, SMTT(20)
    <3> QED BY <2>1, <3>1, Zenon DEF RequestInv, PatientInv
  <2> QED BY <2>2, <2>3, Zenon
<1>8. FailedExactlyOnce'
  <2> SUFFICES ASSUME NEW i \in Registered
               PROVE  /\ Synthesized(i)' + (IF i \in DOMAIN pending' THEN 1 ELSE 0) = 1
                      /\ Synthesized(i)' > 0 /\ now < due[i]
                           => i[2] \in Fetches /\ i \notin sent
    BY <1>1, Zenon DEF FailedExactlyOnce
  <2>1. /\ Synthesized(i) + (IF i \in DOMAIN pending THEN 1 ELSE 0) = 1
        /\ Synthesized(i) > 0 /\ now < due[i] => i[2] \in Fetches /\ i \notin sent
    BY Zenon DEF RequestInv, FailedExactlyOnce
  <2>2. i \in RequestIds /\ Synthesized(i) \in Nat
    BY <1>1, <1>4, Zenon
  <2>3. CASE i = id /\ id \in DOMAIN pending
    BY <1>2, <1>3, <1>5, <2>1, <2>2, <2>3, SMTT(20)
  <2>4. CASE ~(i = id /\ id \in DOMAIN pending)
    BY <1>2, <1>3, <2>1, <2>2, <2>4, SMTT(20)
  <2> QED BY <2>3, <2>4, Zenon
<1> QED BY <1>6, <1>7, <1>8, Zenon DEF RequestInv

LEMMA FailRequestStep ==
    ASSUME RequestInv, NEW n \in Nodes, FailRequest(n)
    PROVE  RequestInv'
<1> DEFINE id == <<n, call.req>>
<1>1. /\ call.step = "fail" /\ n \in call.left /\ call # NoCall
      /\ UNCHANGED <<now, currentTimeout, chain, routed, wire, due, sent, queue, failures>>
      /\ pending' = Forget(id)
    BY DEF FailRequest, Cancel, engineVars, historyVars, NoCall
<1>2. /\ call \in [step : {"register", "send", "fail"}, req : Reqs,
                   left : SUBSET Nodes, nodes : SUBSET Nodes]
      /\ chain /\ call.req \in Fetches
      /\ \A m \in call.left :
           <<m, call.req>> \in Registered /\ <<m, call.req>> \notin sent
    BY <1>1, Zenon DEF RequestInv, CallInv
<1>3. id \in RequestIds /\ id[2] \in Fetches /\ id \notin sent
    BY <1>1, <1>2, RequestsAssumption, Zenon
<1>4. tasks' = IF id \in DOMAIN pending THEN [tasks EXCEPT ![id] = @ + 1] ELSE tasks
    BY <1>2, Zenon DEF FailRequest, SpawnIf
<1>5. RequestTypes'
  <2>1. tasks' \in [RequestIds -> Nat]
    BY <1>3, <1>4, SMTT(20) DEF RequestInv, RequestTypes
  <2> QED BY <1>1, <2>1, Zenon DEF RequestInv, RequestTypes, Registered
<1>6. CallInv' /\ call'.step \notin {"register", "send"}
  <2>1. CASE call' = NoCall
    BY <2>1, Zenon DEF CallInv, NoCall
  <2>2. CASE call' = [call EXCEPT !.left = @ \ {n}]
    <3>1. /\ call'.step = "fail" /\ call'.req = call.req
          /\ call'.left = call.left \ {n}
          /\ call' \in [step : {"register", "send", "fail"}, req : Reqs,
                        left : SUBSET Nodes, nodes : SUBSET Nodes]
      BY <1>1, <1>2, <2>2, Zenon
    <3> QED BY <1>1, <1>2, <3>1, Zenon DEF CallInv, Registered
  <2> QED BY <2>1, <2>2, Zenon DEF FailRequest
<1> HIDE DEF id
<1> QED BY <1>1, <1>3, <1>4, <1>5, <1>6, ClaimStep, Zenon

LEMMA TimeOutStep ==
    ASSUME RequestInv, NEW id \in RequestIds, TimeOut(id)
    PROVE  RequestInv'
<1>1. /\ UNCHANGED <<now, call, chain, routed, wire, due, sent, queue, failures>>
      /\ currentTimeout' \in MinimumTimeout..MaximumTimeout
      /\ pending' = Forget(id)
    BY Zenon DEF TimeOut, Fire, Observe, engineVars, historyVars
<1>2. PICK t \in Readings : id \in Expired(t)
    BY Zenon DEF TimeOut, Fire
<1>3. id \in DOMAIN pending /\ id \in Registered /\ pending[id] = due[id]
    BY <1>2, Zenon DEF Expired, RequestInv, TimerInv
<1>4. now >= due[id]
  <2>1. t \in Nat /\ t <= now /\ due[id] <= t
    BY <1>2, <1>3 DEF Expired, Readings, RequestInv, RequestTypes
  <2> QED BY <1>3, <2>1 DEF RequestInv, RequestTypes
<1>5. tasks' = IF id \in DOMAIN pending THEN [tasks EXCEPT ![id] = @ + 1] ELSE tasks
    BY <1>3, Zenon DEF TimeOut, SpawnIf, RequestInv, TimerInv
<1>6. RequestTypes'
  <2>1. tasks' \in [RequestIds -> Nat]
    BY <1>5, SMTT(20) DEF RequestInv, RequestTypes
  <2>2. currentTimeout' \in Nat
    BY <1>1, TimeoutAssumption
  <2> QED BY <1>1, <2>1, <2>2, Zenon DEF RequestInv, RequestTypes, Registered
<1>7. CallInv'
    BY <1>1, Zenon DEF RequestInv, CallInv, Registered
<1> QED BY <1>1, <1>4, <1>5, <1>6, <1>7, ClaimStep, Zenon

\* The steps that change nothing of a request's life but where a message is.
LEMMA OtherStep ==
    ASSUME RequestInv,
           \/ Wait \/ TimerStep \/ StopTimers \/ Deliver \/ UNCHANGED vars
           \/ \E id \in RequestIds : PushFailure(id) \/ Answer(id) \/ Lose(id)
    PROVE  RequestInv'
<1>1. CASE Wait \/ TimerStep \/ StopTimers \/ UNCHANGED vars
           \/ \E id \in RequestIds : Lose(id)
  <2>1. /\ UNCHANGED <<pending, currentTimeout, call, chain, routed, due, sent, tasks,
                       queue, failures>>
        /\ wire' \subseteq wire
    BY <1>1, Zenon DEF Wait, Tick, TimerStep, SendWake, DispatchLoop, ComputeNext,
                SelectShutdown, SelectWake, SelectSleep, FireDone, StopTimers, Stop,
                Lose, vars, timeoutVars, registryVars, routerVars, engineVars, historyVars
  <2>2. now' = now \/ now' = now + 1
    BY <1>1, Zenon DEF Wait, Tick, TimerStep, SendWake, DispatchLoop, ComputeNext,
                SelectShutdown, SelectWake, SelectSleep, FireDone, StopTimers, Stop,
                Lose, vars, timeoutVars
  <2>3. now' \in Nat /\ now' >= now
    BY <2>2 DEF RequestInv, RequestTypes
  <2>4. RequestTypes'
    BY <2>1, <2>3, Zenon DEF RequestInv, RequestTypes, Registered
  <2> QED BY <2>1, <2>3, <2>4, SynthesizedKept, QuietRequests, Zenon
<1>2. CASE Deliver \/ \E id \in RequestIds : PushFailure(id) \/ Answer(id)
  <2>1. /\ UNCHANGED <<now, pending, currentTimeout, call, chain, routed, due, sent>>
        /\ wire' \subseteq wire
    BY <1>2, Zenon DEF Deliver, PushFailure, Answer, timeoutVars, registryVars,
                       routerVars,
                historyVars
  <2>2. /\ queue' \in Seq(Messages)
        /\ tasks' \in [RequestIds -> Nat] /\ failures' \in [RequestIds -> Nat]
        /\ \A i \in RequestIds : Synthesized(i)' = Synthesized(i)
    BY <1>2, SynthesizedMoves, Zenon DEF RequestInv
  <2>3. RequestTypes' /\ now' >= now
    BY <2>1, <2>2 DEF RequestInv, RequestTypes, Registered
  <2> QED BY <2>1, <2>2, <2>3, QuietRequests, Zenon
<1> QED BY <1>1, <1>2, Zenon

LEMMA AddChainStep ==
    ASSUME RequestInv, AddChain
    PROVE  RequestInv'
<1>1. /\ UNCHANGED <<now, currentTimeout, pending, call, wire, routed, due, sent, tasks,
                     queue, failures>>
      /\ ~chain
    BY Zenon DEF AddChain, timeoutVars, registryVars, engineVars, historyVars
<1>2. Registered' = Registered /\ \A i : Synthesized(i)' = Synthesized(i)
    BY <1>1, SynthesizedKept, Zenon DEF Registered
<1>3. call = NoCall
    BY <1>1, Zenon DEF RequestInv, CallInv
<1>4. RequestTypes'
    BY <1>1, <1>2, Zenon DEF RequestInv, RequestTypes
<1>5. CallInv' /\ PatientInv'
    BY <1>1, <1>3, Zenon DEF CallInv, PatientInv, NoCall
<1>6. TimerInv' /\ FailedExactlyOnce'
    BY <1>1, <1>2, Zenon DEF RequestInv, TimerInv, FailedExactlyOnce
<1> QED BY <1>4, <1>5, <1>6, Zenon DEF RequestInv

LEMMA RequestInvInit == Init => RequestInv
<1> SUFFICES ASSUME Init PROVE RequestInv
    BY Zenon
<1>1. /\ now = 0 /\ currentTimeout = InitialTimeout /\ DOMAIN pending = {}
      /\ call = NoCall /\ wire = {} /\ sent = {} /\ Registered = {} /\ queue = <<>>
      /\ tasks = [id \in RequestIds |-> 0] /\ failures = [id \in RequestIds |-> 0]
    BY Zenon DEF Init, TimeoutInit, Registered
<1>2. RequestTypes
    BY <1>1, TimeoutAssumption DEF RequestTypes
<1>3. ASSUME NEW id \in RequestIds PROVE Synthesized(id) = 0
  <2>1. Places(queue, id) = {}
    BY <1>1 DEF Places
  <2>2. QueuedFailures(id) = 0
    BY <1>2, <2>1, QueuedIs, FS_EmptySet, Zenon DEF RequestTypes
  <2> QED BY <1>1, <2>2 DEF Synthesized
<1> QED BY <1>1, <1>2, <1>3, Zenon DEF RequestInv, CallInv, PatientInv, TimerInv,
                                FailedExactlyOnce, NoCall

LEMMA RequestInvNext == RequestInv /\ [Next]_vars => RequestInv'
<1> SUFFICES ASSUME RequestInv, [Next]_vars PROVE RequestInv'
    BY Zenon
<1>1. CASE SenderStep
    BY <1>1, RegisterStep, FailRequestStep, SendStep, Zenon DEF SenderStep
<1>2. ASSUME NEW req \in Reqs, NEW nodes \in SUBSET Nodes \ {{}}, Begin(req, nodes)
      PROVE  RequestInv'
    BY <1>2, BeginStep, Zenon
<1>3. ASSUME NEW id \in RequestIds, TimeOut(id)
      PROVE  RequestInv'
    BY <1>3, TimeOutStep, Zenon
<1>4. CASE AddChain
    BY <1>4, AddChainStep, Zenon
<1>5. CASE \/ Wait \/ TimerStep \/ StopTimers \/ Deliver \/ UNCHANGED vars
           \/ \E id \in RequestIds : PushFailure(id) \/ Answer(id) \/ Lose(id)
    BY <1>5, OtherStep, Zenon
<1> QED BY <1>1, <1>2, <1>3, <1>4, <1>5, Zenon DEF Next

(* A registered request fails exactly once, whatever the interleaving of   *)
(* the sender's fail_request, the timer's loop, the tasks that push        *)
(* failures and the handler, and before its deadline only if it is a fetch *)
(* the network did not take.                                               *)
THEOREM FailsExactlyOnce == Spec => []FailedExactlyOnce
<1>1. RequestInv => FailedExactlyOnce
    BY Zenon DEF RequestInv
<1> QED BY <1>1, RequestInvInit, RequestInvNext, PTL DEF Spec

\* The router and the sender use the manager by put, cancel and its loop.
LEMMA WakeInvRequests == WakeInv /\ [Next]_vars => WakeInv'
<1> SUFFICES ASSUME WakeInv, [Next]_vars PROVE WakeInv'
    BY Zenon
<1>1. ASSUME NEW n \in Nodes, Register(n) \/ FailRequest(n) PROVE WakeInv'
    BY <1>1, CallStep, Zenon DEF Register, FailRequest, Put, Cancel
<1>2. ASSUME NEW id \in RequestIds, TimeOut(id) PROVE WakeInv'
    BY <1>2, AwakeStep, Zenon DEF TimeOut, Fire, WakeInv, Counters, loopVars
<1>3. CASE Wait
    BY <1>3, QuietStep, Zenon DEF Wait, Tick, WakeInv, Counters, registryVars,
                                  loopVars
<1>4. CASE TimerStep
  <2>1. CASE SendWake
    BY <2>1, QuietStep DEF SendWake, WakeInv, Counters, registryVars
  <2> QED BY <1>4, <2>1, LoopStep, Zenon DEF TimerStep
<1>5. CASE StopTimers
    BY <1>5, QuietStep, Zenon DEF StopTimers, Stop, WakeInv, Counters,
                                  registryVars, loopVars
<1>6. CASE UNCHANGED timeoutVars
    BY <1>6, QuietStep, Zenon DEF timeoutVars, registryVars, loopVars, WakeInv,
                                  Counters
<1>7. ASSUME \/ AddChain \/ Deliver \/ UNCHANGED vars
             \/ \E req \in Reqs, nodes \in SUBSET Nodes : Begin(req, nodes)
             \/ \E took \in SUBSET Nodes : Send(took)
             \/ \E id \in RequestIds : PushFailure(id) \/ Answer(id) \/ Lose(id)
      PROVE  UNCHANGED timeoutVars
    BY <1>7, Zenon DEF AddChain, Deliver, vars, Begin, Send, PushFailure, Answer,
                       Lose
<1> QED BY <1>1, <1>2, <1>3, <1>4, <1>5, <1>6, <1>7, Zenon DEF Next, SenderStep

(* The same under the router and the sender: no call of register_request   *)
(* or fail_request lets the loop sleep past a deadline.                    *)
THEOREM RequestsNeverOversleep == Spec => []NeverOversleeps
<1>1. Init => WakeInv
    BY WakeInvInit, Zenon DEF Init
<1>2. WakeInv => NeverOversleeps
    BY Zenon DEF WakeInv
<1> QED BY <1>1, <1>2, WakeInvRequests, PTL DEF Spec

=============================================================================
