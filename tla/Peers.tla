-------------------------------- MODULE Peers --------------------------------
(***************************************************************************)
(* The peers of a node: NetworkImpl (crates/ava-network/src/network/       *)
(* net_impl.rs), the tasks of a Peer (peer/peer.rs, peer/handshake.rs),    *)
(* and the handlers that are told of them, BeaconManager and RouterBridge  *)
(* (crates/ava-node/src/init/networking.rs) in front of the ChainRouter.   *)
(*                                                                         *)
(* A connection occupies a slot from its admission until its watcher ends. *)
(* The three tasks of a peer are one here, the reader: it does everything  *)
(* the properties see, and the other two end when it has cancelled the     *)
(* peer's token.  Addresses, certificates and the contents of handshakes   *)
(* are abstracted to whether a step succeeds; time, to whether a node's    *)
(* reconnect delay has passed.  One chain stands for all.                  *)
(***************************************************************************)
EXTENDS Integers, FiniteSets

CONSTANTS
    Remotes,   \* the remote nodes
    Beacons,   \* the bootstrap beacons among them
    Slots,     \* bound on the connections that are live or being forgotten
    None       \* no slot

ASSUME PeersAssumption ==
    /\ Beacons \subseteq Remotes /\ None \notin Slots /\ None \notin Remotes
    /\ IsFiniteSet(Remotes)

VARIABLES
    tracked,      \* the nodes of tracked_ips
    ready,        \* those whose next_attempt has passed
    dialing,      \* nodes with an in-flight mark
    dials,        \* nodes with a running handle_dial task
    upgrades,     \* nodes with a running handle_accepted task
    peersLock,    \* the slot whose watcher is between two updates, or None
    connecting,   \* node |-> the slot of its handle, or None
    connected,    \* node |-> the slot of its handle, or None
    node,         \* slot |-> the node it is connected to, None when free
    reader,       \* slot |-> where its reader is
    watcher,      \* slot |-> where its watcher is
    finishedHandshake,   \* slots whose finished_handshake is latched
    closeToken,   \* slots whose token is cancelled
    told,         \* slot |-> what the chain knows: "no", "yes" or "missed"
    conns,        \* BeaconManager::conns
    gate,         \* on_sufficiently_connected
    chainAdded,   \* the chain is in the router's map
    netToken,     \* the network's token is cancelled
    returned      \* dispatch has returned

dialVars == <<tracked, ready, dialing, dials, upgrades>>
setVars == <<peersLock, connecting, connected>>
peerVars == <<node, reader, watcher, finishedHandshake, closeToken>>
handlerVars == <<told, conns, gate, chainAdded>>
netVars == <<netToken, returned>>
networkVars == <<dialVars, setVars, peerVars, handlerVars, netVars>>

RequiredConns == (3 * Cardinality(Beacons) + 3) \div 4

\* With no beacons the gate is open from the start.
PeersInit ==
    /\ tracked = {} /\ ready = {} /\ dialing = {} /\ dials = {} /\ upgrades = {}
    /\ peersLock = None
    /\ connecting = [n \in Remotes |-> None] /\ connected = [n \in Remotes |-> None]
    /\ node = [c \in Slots |-> None] /\ finishedHandshake = {} /\ closeToken = {}
    /\ reader = [c \in Slots |-> "none"] /\ watcher = [c \in Slots |-> "none"]
    /\ told = [c \in Slots |-> "no"] /\ conns = {}
    /\ gate = (RequiredConns = 0)
    /\ chainAdded = FALSE /\ netToken = FALSE /\ returned = FALSE

-----------------------------------------------------------------------------
(* Dialing and accepting.                                                  *)

\* A node that is tracked again starts over with no delay.
ManuallyTrack(n) ==
    /\ ~returned
    /\ tracked' = tracked \cup {n} /\ ready' = ready \cup {n}
    /\ UNCHANGED <<dialing, dials, upgrades, setVars, peerVars, handlerVars, netVars>>

DelayPasses(n) ==
    /\ n \in tracked \ ready /\ ready' = ready \cup {n}
    /\ UNCHANGED <<tracked, dialing, dials, upgrades, setVars, peerVars, handlerVars,
                   netVars>>

\* The scan reads the two sets without peers_lock, so it may find a node in
\* neither while its watcher moves it from one to the other.
SelectDialTarget(n) ==
    /\ ~netToken
    /\ n \in tracked /\ n \in ready /\ n \notin dialing
    /\ connected[n] = None /\ connecting[n] = None
    /\ ready' = ready \ {n} /\ dialing' = dialing \cup {n} /\ dials' = dials \cup {n}
    /\ UNCHANGED <<tracked, upgrades, setVars, peerVars, handlerVars, netVars>>

Accept(n) ==
    /\ ~netToken
    /\ n \notin upgrades /\ upgrades' = upgrades \cup {n}
    /\ UNCHANGED <<tracked, ready, dialing, dials, setVars, peerVars, handlerVars, netVars>>

Duplicate(n) == connected[n] # None \/ connecting[n] # None

\* Mutant: peers_lock is not taken.
CanLockAlways == TRUE
CanLock == peersLock = None

\* A peer that is spawned when the network's token is cancelled has a
\* cancelled token from the start.
AdmitPeer(n) ==
    /\ CanLock
    /\ IF Duplicate(n)
       THEN UNCHANGED <<connecting, node, reader, watcher, closeToken, told>>
       ELSE \E c \in Slots :
              /\ node[c] = None
              /\ node' = [node EXCEPT ![c] = n]
              /\ reader' = [reader EXCEPT ![c] = "handshake"]
              /\ watcher' = [watcher EXCEPT ![c] = "watch"]
              /\ told' = [told EXCEPT ![c] = "no"]
              /\ closeToken' = IF netToken THEN closeToken \cup {c} ELSE closeToken
              /\ connecting' = [connecting EXCEPT ![n] = c]
    /\ UNCHANGED <<peersLock, connected, finishedHandshake, conns, gate, chainAdded>>

NotAdmitted == UNCHANGED <<setVars, peerVars, handlerVars>>

\* Mutant: the mark is only removed when the peer was reached.
DialGuardOnSuccess(n, reached) == dialing' = IF reached THEN dialing \ {n} ELSE dialing
DialGuard(n, reached) == dialing' = dialing \ {n}

\* The dial or the upgrade may fail; the mark is removed either way.  The
\* node that is reached may be another than the one that is tracked there.
HandleDial(n) ==
    /\ n \in dials /\ dials' = dials \ {n}
    /\ \/ NotAdmitted /\ DialGuard(n, FALSE)
       \/ \E m \in Remotes : AdmitPeer(m) /\ DialGuard(n, TRUE)
    /\ UNCHANGED <<tracked, ready, upgrades, netVars>>

HandleAccepted(n) ==
    /\ n \in upgrades /\ upgrades' = upgrades \ {n}
    /\ NotAdmitted \/ AdmitPeer(n)
    /\ UNCHANGED <<tracked, ready, dialing, dials, netVars>>

-----------------------------------------------------------------------------
(* The tasks of a peer.                                                    *)

\* A handshake that passes every check is answered; one that does not ends
\* the reader.
HandleHandshake(c) ==
    /\ reader[c] = "handshake" /\ reader' = [reader EXCEPT ![c] = "list"]
    /\ UNCHANGED <<dialVars, setVars, node, watcher, finishedHandshake, closeToken,
                   handlerVars, netVars>>

\* finish_handshake: the handshake is latched before the handlers are told.
HandlePeerList(c) ==
    /\ reader[c] = "list" /\ reader' = [reader EXCEPT ![c] = "beacon"]
    /\ finishedHandshake' = finishedHandshake \cup {c}
    /\ UNCHANGED <<dialVars, setVars, node, watcher, closeToken, handlerVars, netVars>>

Counts(n) == n \in Beacons

BeaconConnected(c) ==
    /\ reader[c] = "beacon" /\ reader' = [reader EXCEPT ![c] = "chain"]
    /\ IF Counts(node[c])
       THEN /\ conns' = conns \cup {node[c]}
            /\ gate' = (gate \/ Cardinality(conns') >= RequiredConns)
       ELSE UNCHANGED <<conns, gate>>
    /\ UNCHANGED <<dialVars, setVars, node, watcher, finishedHandshake, closeToken, told,
                   chainAdded, netVars>>

\* The broadcast reaches the chains that are in the router's map by now.
ChainConnected(c) ==
    /\ reader[c] = "chain" /\ reader' = [reader EXCEPT ![c] = "run"]
    /\ told' = [told EXCEPT ![c] = IF chainAdded THEN "yes" ELSE "missed"]
    /\ UNCHANGED <<dialVars, setVars, node, watcher, finishedHandshake, closeToken, conns,
                   gate, chainAdded, netVars>>

\* The writer or the ticker of the peer fails.
PeerFails(c) ==
    /\ reader[c] \in {"handshake", "list", "beacon", "chain", "run"}
    /\ c \notin closeToken /\ closeToken' = closeToken \cup {c}
    /\ UNCHANGED <<dialVars, setVars, node, reader, watcher, finishedHandshake,
                   handlerVars, netVars>>

\* The reader ends between two frames, never while it tells the handlers;
\* with the last task of the peer, closed is latched.
ReaderEnds(c) ==
    /\ reader[c] \in {"handshake", "list", "run"}
    /\ reader' = [reader EXCEPT ![c] = "done"] /\ closeToken' = closeToken \cup {c}
    /\ UNCHANGED <<dialVars, setVars, node, watcher, finishedHandshake, handlerVars,
                   netVars>>

-----------------------------------------------------------------------------
(* The watcher of a peer.                                                  *)

RemoveHandle(n) ==
    /\ connecting' = [connecting EXCEPT ![n] = None]
    /\ connected' = [connected EXCEPT ![n] = None]

ForgetPeer(c) ==
    /\ node' = [node EXCEPT ![c] = None]
    /\ reader' = [reader EXCEPT ![c] = "none"] /\ watcher' = [watcher EXCEPT ![c] = "none"]
    /\ finishedHandshake' = finishedHandshake \ {c} /\ closeToken' = closeToken \ {c}
    /\ told' = [told EXCEPT ![c] = "no"]

WatchFinished(c) ==
    /\ watcher[c] = "watch" /\ c \in finishedHandshake /\ CanLock
    /\ peersLock' = c
    /\ connecting' = [connecting EXCEPT ![node[c]] = None]
    /\ watcher' = [watcher EXCEPT ![c] = "promote"]
    /\ UNCHANGED <<dialVars, connected, node, reader, finishedHandshake, closeToken,
                   handlerVars, netVars>>

\* The delay of the node is reset.
WatchPromotes(c) ==
    /\ watcher[c] = "promote"
    /\ peersLock' = None
    /\ connected' = [connected EXCEPT ![node[c]] = c]
    /\ ready' = ready \cup ({node[c]} \cap tracked)
    /\ watcher' = [watcher EXCEPT ![c] = "wait"]
    /\ UNCHANGED <<tracked, dialing, dials, upgrades, connecting,
                   node, reader, finishedHandshake, closeToken, handlerVars, netVars>>

\* All tasks of the peer have ended.
Closed(c) == reader[c] = "done"

\* The select is not biased: this branch may be taken although the handshake
\* is finished as well.
WatchClosedEarly(c) ==
    /\ watcher[c] = "watch" /\ Closed(c) /\ CanLock
    /\ RemoveHandle(node[c]) /\ ForgetPeer(c)
    /\ UNCHANGED <<dialVars, peersLock, conns, gate, chainAdded, netVars>>

WatchClosed(c) ==
    /\ watcher[c] = "wait" /\ Closed(c) /\ CanLock
    /\ RemoveHandle(node[c])
    /\ watcher' = [watcher EXCEPT ![c] = "beacon"]
    /\ UNCHANGED <<dialVars, peersLock, node, reader, finishedHandshake, closeToken,
                   handlerVars, netVars>>

BeaconDisconnected(c) ==
    /\ watcher[c] = "beacon" /\ watcher' = [watcher EXCEPT ![c] = "chain"]
    /\ conns' = conns \ {node[c]}
    /\ UNCHANGED <<dialVars, setVars, node, reader, finishedHandshake, closeToken, told,
                   gate, chainAdded, netVars>>

ChainDisconnected(c) ==
    /\ watcher[c] = "chain" /\ ForgetPeer(c)
    /\ UNCHANGED <<dialVars, setVars, conns, gate, chainAdded, netVars>>

-----------------------------------------------------------------------------
(* The node.                                                               *)

RouterAddsChain ==
    /\ ~chainAdded /\ chainAdded' = TRUE
    /\ UNCHANGED <<dialVars, setVars, peerVars, told, conns, gate, netVars>>

\* Mutant: only the peers in connected are closed.
TokensOfSets == {c \in Slots : \E n \in Remotes : connected[n] = c}
Tokens == {c \in Slots : node[c] # None}

\* The tokens of the peers are children of the network's.
StartClose ==
    /\ ~netToken /\ netToken' = TRUE /\ closeToken' = closeToken \cup Tokens
    /\ UNCHANGED <<dialVars, setVars, node, reader, watcher, finishedHandshake,
                   handlerVars, returned>>

\* dispatch returns when all tasks of the network have ended.
DispatchReturns ==
    /\ netToken /\ ~returned
    /\ dials = {} /\ upgrades = {} /\ \A c \in Slots : node[c] = None
    /\ returned' = TRUE
    /\ UNCHANGED <<dialVars, setVars, peerVars, handlerVars, netToken>>

PeerTask(c) == BeaconConnected(c) \/ ChainConnected(c)
Watcher(c) ==
    \/ WatchFinished(c) \/ WatchPromotes(c) \/ WatchClosedEarly(c) \/ WatchClosed(c)
    \/ BeaconDisconnected(c) \/ ChainDisconnected(c)

PeersNext ==
    \/ \E n \in Remotes :
          \/ ManuallyTrack(n) \/ DelayPasses(n) \/ SelectDialTarget(n) \/ Accept(n)
          \/ HandleDial(n) \/ HandleAccepted(n)
    \/ \E c \in Slots :
          \/ HandleHandshake(c) \/ HandlePeerList(c) \/ PeerTask(c)
          \/ PeerFails(c) \/ ReaderEnds(c) \/ Watcher(c)
    \/ RouterAddsChain \/ StartClose \/ DispatchReturns

PeersSpec == PeersInit /\ [][PeersNext]_networkVars

\* The scan is periodic, dials and upgrades have timeouts, tasks that can
\* run do, and a reader sees a cancelled token before its next frame.
PeersFairSpec ==
    /\ PeersSpec /\ WF_networkVars(DispatchReturns)
    /\ \A n \in Remotes :
         /\ WF_networkVars(DelayPasses(n)) /\ WF_networkVars(SelectDialTarget(n))
         /\ WF_networkVars(HandleDial(n)) /\ WF_networkVars(HandleAccepted(n))
    /\ \A c \in Slots :
         /\ WF_networkVars(PeerTask(c)) /\ WF_networkVars(Watcher(c))
         /\ WF_networkVars(c \in closeToken /\ ReaderEnds(c))

-----------------------------------------------------------------------------
(* Properties.                                                             *)

\* The type invariant.
PeersTypeOK ==
    /\ tracked \subseteq Remotes /\ ready \subseteq tracked
    /\ dialing \subseteq Remotes /\ dials \subseteq dialing /\ upgrades \subseteq Remotes
    /\ peersLock \in Slots \cup {None}
    /\ connecting \in [Remotes -> Slots \cup {None}] /\ connected \in [Remotes -> Slots \cup {None}]
    /\ node \in [Slots -> Remotes \cup {None}]
    /\ reader \in [Slots -> {"none", "handshake", "list", "beacon", "chain", "run", "done"}]
    /\ watcher \in [Slots -> {"none", "watch", "promote", "wait", "beacon", "chain"}]
    /\ finishedHandshake \subseteq Slots /\ closeToken \subseteq Slots
    /\ told \in [Slots -> {"no", "yes", "missed"}]
    /\ conns \subseteq Beacons /\ gate \in BOOLEAN
    /\ chainAdded \in BOOLEAN /\ netToken \in BOOLEAN /\ returned \in BOOLEAN

\* The peer sets are removed from by node ID, so they are right only if the
\* handle they hold for a node is that of the one watcher that would remove
\* it: connecting holds the peers being watched, connected the promoted ones.
HandlesAreOwned ==
    /\ \A n \in Remotes :
         /\ connecting[n] # None =>
              node[connecting[n]] = n /\ watcher[connecting[n]] = "watch"
         /\ connected[n] # None =>
              node[connected[n]] = n /\ watcher[connected[n]] = "wait"
    /\ \A c \in Slots :
         /\ watcher[c] = "watch" => connecting[node[c]] = c
         /\ watcher[c] = "wait" => connected[node[c]] = c

\* A peer that was promoted leaves connected only after its tasks have
\* ended: no other connection of the node evicts it.
NeverEvicted ==
    [][\A n \in Remotes : connected[n] # None /\ connected'[n] # connected[n]
          => reader[connected[n]] = "done"]_networkVars

\* When the network is closed, dispatch returns: also for peers that were
\* admitted by a dial or an upgrade that was in flight.
Drains == netToken ~> returned

\* A tracked node is never given up: again and again it is dialed or has a
\* peer, whatever became of earlier dials.
KeepsDialing ==
    \A n \in Remotes : []<>(n \in tracked => n \in dials \/ Duplicate(n) \/ netToken)

\* Nothing is being delivered to the handlers.
Quiet == \A c \in Slots :
    reader[c] \notin {"beacon", "chain"} /\ watcher[c] \notin {"promote", "beacon", "chain"}
    /\ (watcher[c] = "watch" => c \notin finishedHandshake)

\* "at-most-once, strictly-paired delivery" of connected and disconnected
\* (ava-node/src/init/networking.rs, line 213): when no upcall is under way
\* the beacons that are counted are the beacons that are connected.
CountIsCurrent == Quiet => conns = {b \in Beacons : connected[b] # None}
=============================================================================
