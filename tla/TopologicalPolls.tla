-------------------------- MODULE TopologicalPolls --------------------------
(***************************************************************************)
(* Topological next to a record of the polls themselves, to say what an    *)
(* acceptance rests on without looking at the counters of the snowball     *)
(* instances.                                                              *)
(***************************************************************************)
EXTENDS Topological

CONSTANTS
    AlphaConfidence, Beta   \* Parameters (see Snowball)

VARIABLES
    wins,    \* wins[b]: polls in which b transitively got AlphaConfidence votes
    streak   \* streak[b]: how many of the latest polls did so without a gap

pollsVars == <<vars, wins, streak>>

PollsInit ==
    /\ Init
    /\ wins = [b \in Blocks |-> 0]
    /\ streak = [b \in Blocks |-> 0]

Won(votes, b) == Weight(votes, b) >= AlphaConfidence

Poll(votes) ==
    /\ RecordPoll(votes)
    /\ wins' = [b \in Blocks |-> IF Won(votes, b) THEN wins[b] + 1 ELSE wins[b]]
    /\ streak' = [b \in Blocks |-> IF Won(votes, b) THEN streak[b] + 1 ELSE 0]

NotPoll ==
    \/ \E b \in Blocks : Add(b)
    \/ \E p \in Blocks : VoteStep(p) \/ AcceptPreferredChild(p)
    \/ \E r \in Blocks : RejectStep(r)
    \/ RemoveOldParent
    \/ FinishPoll
    \/ \E p \in Blocks : AcceptorFails(p) \/ BlockAcceptFails(p) \/ SiblingRejectFails(p)
    \/ \E r \in Blocks : ChildRejectFails(r)

PollsNext ==
    \/ \E votes \in VoteBags : Poll(votes)
    \/ NotPoll /\ UNCHANGED <<wins, streak>>

PollsSpec == PollsInit /\ [][PollsNext]_pollsVars

\* A block is accepted only after Beta polls gave AlphaConfidence votes to it
\* or its descendants, the latest poll among them unless an earlier attempt to
\* accept it failed.  Confidence inherited across a split or counted for a
\* sibling would break it.
AcceptedAfterBetaPolls ==
    [][\A b \in accepted' \ accepted :
          wins[b] >= Beta /\ (failures = 0 => streak[b] >= 1)]_pollsVars

\* "Consecutive successful polls required to finalize" (parameters.rs): the
\* Beta polls an acceptance rests on are the latest Beta polls.
AcceptedAfterConsecutivePolls ==
    [][\A b \in accepted' \ accepted : streak[b] >= Beta]_pollsVars
=============================================================================
