----------------------------- MODULE ProposerVm -----------------------------
(***************************************************************************)
(* The P-Chain as a node runs it: the consensus engine over the proposervm *)
(* wrapper over the platform VM.  Accepting a post-fork block writes the   *)
(* wrapper's pointer, block, fork height and height index, one database    *)
(* put after the other, and only then accepts the inner block; the         *)
(* validator manager is refreshed after that.  A crash may come between    *)
(* any two of these steps.  A restart loads each layer from its own state; *)
(* nothing reconciles them.                                                *)
(*                                                                         *)
(* commit_accept's own writes are taken as one step.                       *)
(***************************************************************************)
EXTENDS ValidatorManager

CONSTANTS
    PostFork,   \* blocks wrapped by the proposervm; closed under children
    MaxCrashes

ASSUME ProposerVmAssumption ==
    /\ PostFork \subseteq Blocks \ {Genesis}
    /\ \A b \in Blocks \ {Genesis} : Parent[b] \in PostFork => b \in PostFork
    /\ MaxCrashes \in Nat

VARIABLES
    outer,    \* the wrapper's disk state: lastAccepted, blocks, fork, heights
    engine,   \* external: the engine's last accepted block and processing set
    accept,   \* the accept in progress: its block and next step
    decided,  \* what the network decided at each height
    crashes

wrapperVars == <<outer, engine, accept, decided, crashes>>
vars == <<platformVars, managerVars, wrapperVars>>

noAccept == [block |-> None, pc |-> "idle"]

ProposerInit ==
    /\ Init /\ ManagerInit
    /\ outer = [lastAccepted |-> None, blocks |-> {}, fork |-> None, heights |-> <<>>]
    /\ engine = [last |-> Genesis, processing |-> {}]
    /\ accept = noAccept
    /\ decided = <<>>
    /\ crashes = 0

-----------------------------------------------------------------------------
(* A block is issued when its parent is; a block that fails verification   *)
(* is dropped.  A post-fork option does not parse.                         *)
Issue(b) ==
    /\ accept.pc = "idle"
    /\ b \notin engine.processing
    /\ Parent[b] \in engine.processing \cup {engine.last}
    /\ ~(b \in PostFork /\ Kind[b] \in {"commit", "abort"})
    /\ Verify(b)
    /\ engine' = [engine EXCEPT !.processing = @ \cup {b}]
    /\ UNCHANGED <<managerVars, outer, accept, decided, crashes>>

(* Consensus decides a child of the last accepted block, after a restart   *)
(* the same one as before it.                                              *)
Decide(b) ==
    /\ accept.pc = "idle"
    /\ b \in engine.processing /\ Parent[b] = engine.last
    /\ Height[b] \in DOMAIN decided => decided[Height[b]] = b
    /\ decided' = With(decided, Height[b], b)
    /\ accept' = [block |-> b, pc |-> IF b \in PostFork THEN "pointer" ELSE "inner"]
    /\ UNCHANGED <<platformVars, managerVars, outer, engine, crashes>>

(* ProposerBlock::accept, one put at a time.                               *)
Write(from, to, value) ==
    /\ accept.pc = from
    /\ outer' = value
    /\ accept' = [accept EXCEPT !.pc = to]
    /\ UNCHANGED <<platformVars, managerVars, engine, decided, crashes>>

SetLastAccepted ==
    Write("pointer", "block", [outer EXCEPT !.lastAccepted = accept.block])

PutBlock == Write("block", "fork", [outer EXCEPT !.blocks = @ \cup {accept.block}])

\* Mutant: the fork height is that of the block before.
SetForkHeightEarly ==
    Write("fork", "index",
          [outer EXCEPT !.fork = IF @ = None THEN Height[accept.block] - 1 ELSE @])

(* update_height_index: the first post-fork block sets the fork height.    *)
SetForkHeight ==
    Write("fork", "index",
          [outer EXCEPT !.fork = IF @ = None THEN Height[accept.block] ELSE @])

SetBlockIdAtHeight ==
    Write("index", "inner",
          [outer EXCEPT !.heights = With(@, Height[accept.block], accept.block)])

(* The inner accept holds the manager lock; its commit notifies the        *)
(* validator manager.                                                      *)
AcceptInner ==
    /\ accept.pc = "inner"
    /\ Accept(accept.block)
    /\ IF Kind[accept.block] = "proposal" THEN UNCHANGED managerVars
                                          ELSE Notify(accept.block)
    /\ accept' = [accept EXCEPT !.pc = "store"]
    /\ UNCHANGED <<outer, engine, decided, crashes>>

RefreshView ==
    /\ accept.pc = "store" /\ StoreView
    /\ accept' = [accept EXCEPT !.pc = "clear"]
    /\ UNCHANGED <<platformVars, outer, engine, decided, crashes>>

RefreshCaches ==
    /\ accept.pc = "clear" /\ ClearCaches
    /\ accept' = [accept EXCEPT !.pc = "reject"]
    /\ UNCHANGED <<platformVars, outer, engine, decided, crashes>>

(* The engine rejects the accepted block's siblings and their descendants. *)
RejectConflicts ==
    LET b == accept.block
    IN  /\ accept.pc = "reject"
        /\ \E R \in SUBSET (engine.processing \ {b}) :
              /\ \A c \in engine.processing \ {b} :
                    c \in R <=> Parent[c] = engine.last \/ Parent[c] \in R
              /\ Reject(R)
              /\ engine' = [last |-> b, processing |-> engine.processing \ (R \cup {b})]
        /\ accept' = noAccept
        /\ UNCHANGED <<managerVars, outer, decided, crashes>>

(* A crash loses everything but the two disk states; last_accepted is the  *)
(* wrapper's pointer if it has one, the inner VM's otherwise.              *)
CrashRestart ==
    /\ crashes < MaxCrashes
    /\ crashes' = crashes + 1
    /\ Reload /\ ManagerReload
    /\ accept' = noAccept
    /\ engine' = [processing |-> {},
                  last |-> IF outer.lastAccepted # None THEN outer.lastAccepted
                                                        ELSE state.lastAccepted]
    /\ UNCHANGED <<outer, decided>>

Query ==
    /\ \/ \E h \in {Height[b] : b \in Blocks} : Lookup(h)
       \/ LoadView \/ Answer \/ ReadOldest \/ AnswerMinimum \/ Expire
    /\ UNCHANGED <<platformVars, wrapperVars>>

Next ==
    \/ \E b \in Blocks \ {Genesis} : Issue(b) \/ Decide(b)
    \/ SetLastAccepted \/ PutBlock \/ SetForkHeight \/ SetBlockIdAtHeight
    \/ AcceptInner \/ RefreshView \/ RefreshCaches \/ RejectConflicts
    \/ CrashRestart
    \/ Query

Spec == ProposerInit /\ [][Next]_vars

-----------------------------------------------------------------------------
(* get_block_id_at_height of the wrapper: from the fork height on its own  *)
(* ids, which differ from the inner ones, below it the inner VM's.         *)
BlockIdAtHeight(h) ==
    IF outer.fork = None \/ h < outer.fork
    THEN IF h \in DOMAIN state.blockIds THEN <<"inner", state.blockIds[h]>> ELSE None
    ELSE IF h \in DOMAIN outer.heights THEN <<"outer", outer.heights[h]>> ELSE None

(* Whatever the inner VM has committed, the wrapper serves by height, under *)
(* its own id if the block is wrapped, has the bytes of, and counts as     *)
(* accepted: its pointer is the inner VM's tip or, inside an accept or     *)
(* after a crash in one, that tip's child.                                 *)
OuterCoversInner ==
    /\ \A h \in DOMAIN state.blockIds :
         LET b == state.blockIds[h]
         IN  BlockIdAtHeight(h) = <<IF b \in PostFork THEN "outer" ELSE "inner", b>>
    /\ {state.blockIds[h] : h \in DOMAIN state.blockIds} \cap PostFork
           \subseteq outer.blocks
    /\ outer.lastAccepted # None =>
         \/ outer.lastAccepted = lastAccepted
         \/ Parent[outer.lastAccepted] = lastAccepted

(* Consensus never decides a block the VM cannot accept: each processing   *)
(* child of the last accepted block is still verified in the VM, whatever  *)
(* was accepted, rejected or lost in between.                              *)
DecidedIsAcceptable ==
    accept.pc = "idle" =>
        \A b \in engine.processing : Parent[b] = engine.last => Acceptable(b)

(* A restarted node continues from one block: the wrapper and the inner VM *)
(* agree on the tip.  Nothing repairs the wrapper's pointer, so it fails.  *)
LayersAgreeAfterRestart ==
    [][crashes' > crashes => engine'.last = lastAccepted']_vars

=============================================================================
