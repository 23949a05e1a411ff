--------------------------- MODULE ValidatorManager ---------------------------
(***************************************************************************)
(* The P-Chain's validator state (ava-platformvm validators/manager.rs):   *)
(* a snapshot of the current sets, swapped after each accepted block; the  *)
(* sets of earlier heights rebuilt from it by undoing the persisted diffs; *)
(* a cache of rebuilt sets; and the window of recently accepted blocks     *)
(* that decides which height is safe to recommend.  Queries take no lock   *)
(* that an accept holds, so each is several steps: one runs here, of each  *)
(* kind, with its local variables in reader and asker.                     *)
(***************************************************************************)
EXTENDS PlatformState, Sequences

CONSTANTS
    CacheCapacity,  \* VALIDATOR_SETS_CACHE_SIZE
    WindowSize      \* MAX_RECENTLY_ACCEPTED_WINDOW_SIZE

ASSUME ManagerAssumption == {CacheCapacity, WindowSize} \subseteq Nat \ {0}

VARIABLES
    view,    \* the ManagerView: sets, height and the height of each block id
    cache,   \* HeightLru: [height, set] entries, least recently used first
    window,  \* RecentlyAccepted: block ids, oldest first
    reader,  \* one get_validator_set call: its step, target and loaded view
    asker    \* one get_minimum_height call: its step, the oldest id it read
             \* and its answer

managerVars == <<view, cache, window, reader, asker>>

Capture(st) ==
    [sets |-> ValidatorSet(st.current), height |-> st.height,
     heights |-> [b \in {st.blockIds[h] : h \in DOMAIN st.blockIds} |-> Height[b]]]

idleReader == [pc |-> "idle", target |-> None, view |-> None]
idleAsker == [pc |-> "idle", oldest |-> None, answer |-> None]

ManagerInit ==
    /\ view = Capture(state)
    /\ cache = <<>> /\ window = <<>>
    /\ reader = idleReader /\ asker = idleAsker

-----------------------------------------------------------------------------
(* apply_weight_diff for every diff of one height: a node that reaches     *)
(* weight zero leaves the set, a node not in the set enters it without a   *)
(* key.  (A weight below zero is an error the code reports.)               *)
UndoWeights(set, diffs) ==
    LET old(n) == IF n \in DOMAIN set THEN set[n] ELSE [weight |-> 0, key |-> None]
        undone == [n \in DOMAIN set \cup DOMAIN diffs |->
                     IF n \in DOMAIN diffs
                     THEN [old(n) EXCEPT !.weight = @ - diffs[n]]
                     ELSE set[n]]
    IN  [n \in {m \in DOMAIN undone : undone[m].weight # 0} |-> undone[n]]

\* Mutant: the newest change of the window decides.
UndoKeysNewest(set, from, to) ==
    LET touching(n) == {h \in to .. from : h \in DOMAIN state.keyDiffs
                                            /\ n \in DOMAIN state.keyDiffs[h]}
    IN  [n \in DOMAIN set |->
           IF touching(n) = {} THEN set[n]
           ELSE [set[n] EXCEPT !.key = state.keyDiffs[Max(touching(n))][n]]]

(* apply_validator_public_key_diffs: newest first, so the lowest height of *)
(* the window that changed a node's key decides; absent nodes are skipped. *)
UndoKeys(set, from, to) ==
    LET touching(n) == {h \in to .. from : h \in DOMAIN state.keyDiffs
                                            /\ n \in DOMAIN state.keyDiffs[h]}
    IN  [n \in DOMAIN set |->
           IF touching(n) = {} THEN set[n]
           ELSE [set[n] EXCEPT !.key = state.keyDiffs[Min(touching(n))][n]]]

(* make_validator_set: the snapshot v taken back to target with the diff   *)
(* stores as they are now.                                                 *)
MakeValidatorSet(v, target) ==
    LET back[h \in target .. v.height] ==
            IF h = v.height THEN v.sets
            ELSE IF h + 1 \in DOMAIN state.weightDiffs
            THEN UndoWeights(back[h + 1], state.weightDiffs[h + 1])
            ELSE back[h + 1]
    IN  UndoKeys(back[target], v.height, target + 1)

-----------------------------------------------------------------------------
\* The entries of a height, and the cache without the i-th entry.
At(h) == {i \in DOMAIN cache : cache[i].height = h}
Without(i) == SubSeq(cache, 1, i - 1) \o SubSeq(cache, i + 1, Len(cache))

(* HeightLru::put: the least recently used entry makes room.               *)
Put(h, set) ==
    LET entry == [height |-> h, set |-> set]
    IN  IF At(h) # {} THEN Append(Without(Min(At(h))), entry)
        ELSE IF Len(cache) >= CacheCapacity THEN Append(Tail(cache), entry)
        ELSE Append(cache, entry)

(* get_validator_set: look in the cache; load the view; rebuild and cache. *)
(* A hit (HeightLru::get) only moves its entry to the end.                 *)
Lookup(target) ==
    /\ reader.pc = "idle"
    /\ IF At(target) # {}
       THEN /\ cache' = Append(Without(Min(At(target))), cache[Min(At(target))])
            /\ UNCHANGED reader
       ELSE /\ reader' = [reader EXCEPT !.pc = "missed", !.target = target]
            /\ UNCHANGED cache
    /\ UNCHANGED <<view, window, asker>>

LoadView ==
    /\ reader.pc = "missed"
    /\ reader' = IF reader.target > view.height THEN idleReader
                 ELSE [reader EXCEPT !.pc = "loaded", !.view = view]
    /\ UNCHANGED <<view, cache, window, asker>>

Answer ==
    /\ reader.pc = "loaded"
    /\ cache' = Put(reader.target, MakeValidatorSet(reader.view, reader.target))
    /\ reader' = idleReader
    /\ UNCHANGED <<view, window, asker>>

(* get_minimum_height: read the oldest recent block; then the view.  The    *)
(* answer is that block's parent's height, the current height if no block  *)
(* is recent, an error if the view does not know the block yet.            *)
ReadOldest ==
    /\ asker.pc = "idle"
    /\ asker' = [pc |-> "asked", answer |-> None,
                 oldest |-> IF window = <<>> THEN None ELSE Head(window)]
    /\ UNCHANGED <<view, cache, window, reader>>

MinimumHeight(oldest) ==
    IF oldest = None THEN view.height
    ELSE IF oldest \in DOMAIN view.heights THEN view.heights[oldest] - 1
    ELSE None

AnswerMinimum ==
    /\ asker.pc = "asked"
    /\ asker' = [idleAsker EXCEPT !.answer = MinimumHeight(asker.oldest)]
    /\ UNCHANGED <<view, cache, window, reader>>

(* The oldest entry's time to live ends.                                   *)
Expire ==
    /\ window # <<>>
    /\ window' = Tail(window)
    /\ UNCHANGED <<view, cache, reader, asker>>

-----------------------------------------------------------------------------
(* on_accepted_block_id: the size bound evicts the oldest.                 *)
Notify(b) ==
    /\ window' = (IF Len(window) < WindowSize THEN Append(window, b)
                                              ELSE Append(Tail(window), b))
    /\ UNCHANGED <<view, cache, reader, asker>>

(* refresh, in its two steps.                                              *)
StoreView ==
    /\ view' = Capture(state)
    /\ UNCHANGED <<cache, window, reader, asker>>

ClearCaches ==
    /\ cache' = <<>>
    /\ UNCHANGED <<view, window, reader, asker>>

ManagerReload ==
    /\ view' = Capture(state)
    /\ cache' = <<>> /\ window' = <<>>
    /\ reader' = idleReader /\ asker' = idleAsker

-----------------------------------------------------------------------------
(* The set rebuilt for a height is the set that was current when a block   *)
(* of that height was accepted, and so is every cached set, even one put   *)
(* by a call that loaded its view before later blocks were accepted.       *)
(* Holds while no accepted block removes a validator that still has        *)
(* delegators: their weight is in the diffs and not in the snapshot.       *)
HistoricalSetsExact ==
    "orphaned" \notin departures =>
        /\ \A h \in 0 .. view.height : MakeValidatorSet(view, h) = setAt[h]
        /\ \A i \in DOMAIN cache : cache[i].set = setAt[cache[i].height]

(* RECENTLY_ACCEPTED_WINDOW_TTL: a block is not recommended as the minimum  *)
(* height while it is recent.  The window and the view are read at         *)
(* different times, so it fails: an accept between the two reads makes the *)
(* "no recent block" answer the new block's own height.                    *)
RecentNotRecommended ==
    [][asker.pc = "asked" /\ asker'.pc = "idle" /\ asker'.answer # None =>
        \A i \in DOMAIN window : asker'.answer < Height[window[i]]]_<<asker, window>>

=============================================================================
