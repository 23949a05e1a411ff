------------------------------ MODULE PollSet ------------------------------
(***************************************************************************)
(* The outstanding polls of the Snowman engine (crates/ava-engine/src/     *)
(* snowman/poll.rs) and the request counter that names them (send_query    *)
(* and gossip in engine.rs).                                               *)
(*                                                                         *)
(* A poll asks a sample of at most K draws from the validators; the same   *)
(* validator may be drawn more than once and its one answer then counts    *)
(* for each of its draws.  The code keeps two bags, the validators still   *)
(* to answer and the votes received; here a poll maps every draw to what   *)
(* became of it, and the sizes of the bags are the numbers of draws.       *)
(*                                                                         *)
(* Votes and drops come from the network and from timers: any validator,   *)
(* any request, any time, answered before or not.                          *)
(***************************************************************************)
EXTENDS Parameters, Sequences, FiniteSets, FiniteSetsExt

CONSTANTS
    Nodes,            \* validators
    Ids,              \* ids of processing blocks that may be voted for
    Waiting, Dropped, \* a draw that is not answered yet, or never will be
    AlphaConfidence,  \* votes that count towards finalization
    IdSpace,          \* number of request ids (2^32 in the code, u32)
    MaxRequests       \* bound on the number of polls registered

ASSUME PollAssumption ==
    /\ K \in Nat \ {0}
    /\ AlphaPreference \in Nat /\ AlphaConfidence \in Nat
    /\ K < 2 * AlphaPreference
    /\ AlphaPreference <= AlphaConfidence /\ AlphaConfidence <= K
    /\ Waiting \notin Ids /\ Dropped \notin Ids /\ Waiting # Dropped
    /\ IdSpace \in Nat \ {0} /\ MaxRequests \in Nat

VARIABLES
    polls,      \* polls: request id -> poll
    requestId,  \* request_id, the id used last
    order,      \* history: the registered requests, oldest first
    drained     \* history: the requests of the polls handed to consensus

pollSetVars == <<polls, requestId, order, drained>>

Outstanding == DOMAIN polls

-----------------------------------------------------------------------------
(* Poll.                                                                   *)

\* new_poll over the draws 1 .. n, owner[d] the validator drawn.
NewPoll(owner) ==
    [owner |-> owner, answer |-> [d \in DOMAIN owner |-> Waiting], finished |-> FALSE]

\* Poll::vote and Poll::drop: every draw of vdr that still waits.
Answered(poll, vdr, v) ==
    [poll EXCEPT !.answer = [d \in DOMAIN poll.owner |->
        IF poll.owner[d] = vdr /\ poll.answer[d] = Waiting THEN v ELSE poll.answer[d]]]

Draws(poll, v) == {d \in DOMAIN poll.owner : poll.answer[d] = v}

Count(poll, v) == Cardinality(Draws(poll, v))

Remaining(poll) == Count(poll, Waiting)

Received(poll) == Cardinality({d \in DOMAIN poll.owner : poll.answer[d] \in Ids})

\* Mutant: the comparisons of cases 2 and 3 are off by one.
TerminateOneEarly(freq, remaining) ==
    \/ freq + remaining <= AlphaPreference
    \/ freq >= AlphaPreference /\ freq + remaining <= AlphaConfidence
    \/ freq >= AlphaConfidence

\* should_terminate: further votes leave the id on the same side of both
\* thresholds.
ShouldTerminate(freq, remaining) ==
    \/ freq + remaining < AlphaPreference
    \/ freq >= AlphaPreference /\ freq + remaining < AlphaConfidence
    \/ freq >= AlphaConfidence

\* Poll::finished, the four cases, without the cached flag.
CanFinish(poll) ==
    \/ Remaining(poll) = 0
    \/ Received(poll) + Remaining(poll) < AlphaPreference
    \/ /\ \E i \in Ids : Count(poll, i) > 0
       /\ \A i \in Ids : Count(poll, i) > 0 =>
              ShouldTerminate(Count(poll, i), Remaining(poll))

\* A call of Poll::finished caches the answer.
Evaluated(poll) == [poll EXCEPT !.finished = @ \/ CanFinish(poll)]

-----------------------------------------------------------------------------
(* PollSet.                                                                *)

\* Mutant: drain_finished skips an unfinished poll instead of stopping there.
DrainedSkipping(ps) == {r \in DOMAIN ps : Evaluated(ps[r]).finished}

\* drain_finished walks the polls in the order of their ids and stops at the
\* first one that is not finished.
Drained(ps) ==
    {r \in DOMAIN ps : \A q \in DOMAIN ps : q <= r => Evaluated(ps[q]).finished}

\* The polls after drain_finished: the one it stopped at was evaluated too.
AfterDrain(ps) ==
    LET left == DOMAIN ps \ Drained(ps)
    IN  [r \in left |-> IF r = Min(left) THEN Evaluated(ps[r]) ELSE ps[r]]

Ascending(S) == CHOOSE s \in [1 .. Cardinality(S) -> S] :
                    \A i, j \in DOMAIN s : i < j => s[i] < s[j]

PollInit ==
    /\ polls = [r \in {} |-> {}]
    /\ requestId = 0
    /\ order = <<>>
    /\ drained = <<>>

\* The samples of send_query (K draws, fewer if there is too little stake)
\* and gossip (one draw).
Samples == UNION {[1 .. n -> Nodes] : n \in 1 .. K}

\* request_id.wrapping_add(1), then PollSet::add.  An id still in use
\* registers nothing.
AddPoll(owner) ==
    /\ Len(order) < MaxRequests
    /\ requestId' = (requestId + 1) % IdSpace
    /\ IF requestId' \in Outstanding
       THEN UNCHANGED <<polls, order>>
       ELSE /\ polls' = [r \in Outstanding \cup {requestId'} |->
                            IF r = requestId' THEN NewPoll(owner) ELSE polls[r]]
            /\ order' = Append(order, requestId')
    /\ UNCHANGED drained

\* What vote and drop have in common.  Unless this poll finished nothing is
\* drained, whatever the others are.
Respond(r, vdr, v) ==
    LET poll == Evaluated(Answered(polls[r], vdr, v))
        ps   == [polls EXCEPT ![r] = poll]
    IN  IF poll.finished
        THEN /\ polls' = AfterDrain(ps)
             /\ drained' = drained \o Ascending(Drained(ps))
        ELSE polls' = ps /\ drained' = drained

\* PollSet::vote; a request that is not outstanding is ignored.
Vote(r, vdr, id) ==
    /\ r \in Outstanding
    /\ Respond(r, vdr, id)
    /\ UNCHANGED <<requestId, order>>

\* Mutant: a drop does not look whether it finished the poll.
DropOnly(r, vdr) ==
    /\ r \in Outstanding
    /\ polls' = [polls EXCEPT ![r] = Answered(@, vdr, Dropped)]
    /\ UNCHANGED <<requestId, order, drained>>

\* PollSet::drop.
Drop(r, vdr) ==
    /\ r \in Outstanding
    /\ Respond(r, vdr, Dropped)
    /\ UNCHANGED <<requestId, order>>

PollNext ==
    \/ \E owner \in Samples : AddPoll(owner)
    \/ \E r \in Outstanding, vdr \in Nodes, id \in Ids : Vote(r, vdr, id)
    \/ \E r \in Outstanding, vdr \in Nodes : Drop(r, vdr)

\* A validator drawn for poll r has not answered.
Waits(r, vdr) ==
    /\ r \in Outstanding
    /\ \E d \in DOMAIN polls[r].owner :
          polls[r].owner[d] = vdr /\ polls[r].answer[d] = Waiting

\* The router registers a timeout for every validator before a query leaves
\* (sender.rs) and its timer calls query_failed unless the request was failed
\* before: no draw waits for ever.  This is WF_pollSetVars(Waits(r, vdr) /\ Drop(r, vdr)),
\* which is enabled while the draw waits and ends the wait.
PollFairness == \A r \in 0 .. IdSpace - 1, vdr \in Nodes : []<>~Waits(r, vdr)

PollSpec == PollInit /\ [][PollNext]_pollSetVars

FairPollSpec == PollSpec /\ PollFairness

-----------------------------------------------------------------------------
(* Properties.                                                             *)

IsPoll(poll) ==
    /\ poll = [owner |-> poll.owner, answer |-> poll.answer, finished |-> poll.finished]
    /\ \E n \in 1 .. K : poll.owner \in [1 .. n -> Nodes]
    /\ poll.answer \in [DOMAIN poll.owner -> Ids \cup {Waiting, Dropped}]
    /\ poll.finished \in BOOLEAN

PollTypeOK ==
    /\ requestId \in 0 .. IdSpace - 1
    /\ Outstanding \subseteq 0 .. IdSpace - 1
    /\ \A r \in Outstanding : IsPoll(polls[r])

\* What a poll tells consensus about an id: whether it reached the two
\* thresholds.
Outcome(poll, i) ==
    [preferred |-> Count(poll, i) >= AlphaPreference,
     confident |-> Count(poll, i) >= AlphaConfidence]

\* "As soon as the outstanding responses can no longer change the outcome"
\* (poll.rs): a finished poll that waits behind an older one goes on
\* collecting votes, and none of them moves any id across a threshold.
FinishedIsSettled ==
    [][\A r \in Outstanding \cap Outstanding' :
          polls[r].finished =>
              \A i \in Ids : Outcome(polls'[r], i) = Outcome(polls[r], i)]_pollSetVars

\* The oldest poll is never finished: vote and drop drain all there is to
\* drain, so a finished poll only ever waits for an older one.
OldestUnfinished ==
    Outstanding # {} => ~polls[Min(Outstanding)].finished

\* "record_poll is always applied in poll order" (poll.rs): polls are handed
\* over in the order they were registered, none twice and none left out.
DrainedInOrder ==
    /\ Len(drained) <= Len(order)
    /\ \A i \in DOMAIN drained : drained[i] = order[i]

\* Every registered poll reaches consensus, answered or not.
EveryPollDrains ==
    \A n \in 1 .. MaxRequests : Len(order) >= n ~> Len(drained) >= n
=============================================================================
