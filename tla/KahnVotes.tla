----------------------------- MODULE KahnVotes -----------------------------
(***************************************************************************)
(* The two algorithms Topological::record_poll computes its vote stack     *)
(* with, as they are written: calculate_in_degree annotates the ancestors  *)
(* of the voted blocks for a Kahn sort, push_votes runs the sort.          *)
(* Topological itself uses the declarative VoteStack; KahnIsVoteStack says *)
(* that they agree.                                                        *)
(*                                                                         *)
(* calculate_in_degree visits the votes in the order of a HashMap, which   *)
(* is any order; push_votes takes the smallest leaf id first, and ids are  *)
(* hashes, so that is any order too.  All orders are tried.                *)
(***************************************************************************)
EXTENDS TopologicalPolls, SequencesExt

NewKahnNode == [inDegree |-> 0, votes |-> EmptyFun]

\* kahn_nodes.entry(p).or_default()
Entry(kahn, p) == IF p \in DOMAIN kahn THEN kahn[p] ELSE NewKahnNode

AddCount(bag, id, n) ==
    IF n = 0 THEN bag ELSE Put(bag, id, n + IF id \in DOMAIN bag THEN bag[id] ELSE 0)

\* The walk from a parent seen for the first time towards the last accepted
\* block, counting in-degrees until it meets a node seen before.
RECURSIVE WalkAncestors(_, _)

\* Mutant: only the first child of a parent counts in its in-degree.
WalkCountsOnce(st, p) ==
    IF ~Undecided(p) THEN st
    ELSE LET q     == Parent[p]
             node  == Entry(st.kahn, q)
             kahn  == Put(st.kahn, q, [node EXCEPT !.inDegree = @ + 1])
         IN  IF q \in DOMAIN st.kahn
             THEN [st EXCEPT !.leaves = @ \ {q}]
             ELSE WalkAncestors([st EXCEPT !.kahn = kahn], q)

WalkAncestors(st, p) ==
    IF ~Undecided(p) THEN st
    ELSE LET q     == Parent[p]
             node  == Entry(st.kahn, q)
             kahn  == Put(st.kahn, q, [node EXCEPT !.inDegree = @ + 1])
         IN  IF q \in DOMAIN st.kahn
             THEN [kahn |-> kahn, leaves |-> st.leaves \ {q}]
             ELSE WalkAncestors([st EXCEPT !.kahn = kahn], q)

CountVote(st, v, n) ==
    IF ~Undecided(v) THEN st
    ELSE LET p    == Parent[v]
             node == Entry(st.kahn, p)
             kahn == Put(st.kahn, p, [node EXCEPT !.votes = AddCount(@, v, n)])
         IN  IF p \in DOMAIN st.kahn
             THEN [st EXCEPT !.kahn = kahn]
             ELSE WalkAncestors([kahn |-> kahn, leaves |-> st.leaves \cup {p}], p)

CalculateInDegree(votes, order) ==
    FoldLeft(LAMBDA st, v : CountVote(st, v, votes[v]),
             [kahn |-> EmptyFun, leaves |-> {}], order)

\* Every vote stack the sort can end with; the last entry is popped first.
RECURSIVE PushVotes(_, _, _)
PushVotes(kahn, leaves, out) ==
    IF leaves = {} THEN {out}
    ELSE UNION {
        LET node  == kahn[leaf]
            total == SumFunction(node.votes)
            out2  == IF total >= AlphaPreference
                     THEN Append(out, [parent |-> leaf, votes |-> node.votes]) ELSE out
            q     == Parent[leaf]
            up    == [inDegree |-> Entry(kahn, q).inDegree - 1,
                      votes |-> AddCount(Entry(kahn, q).votes, leaf, total)]
        IN  IF ~Undecided(leaf)
            THEN PushVotes(kahn, leaves \ {leaf}, out2)
            ELSE PushVotes(Put(kahn, q, up),
                           (leaves \ {leaf}) \cup IF up.inDegree = 0 THEN {q} ELSE {},
                           out2)
        : leaf \in leaves}

Stacks(votes) ==
    UNION {LET st == CalculateInDegree(votes, order) IN PushVotes(st.kahn, st.leaves, <<>>)
           : order \in SetToSeqs(DOMAIN votes)}

\* Whatever the order of the hash map and of the ids, the sort ends with the
\* branch of alpha majorities, each with the votes of whole subtrees, the
\* block nearest to the last accepted one on top.  A node counted twice or
\* released before all its children were would break it.  The sort sees the
\* tree and not the confidence counters, and Beta polls can accept a branch,
\* so the states after more polls are left out.
KahnIsVoteStack ==
    pc = "idle" /\ pollNumber <= Beta =>
        \A votes \in VoteBags :
            LET expected == VoteStack(votes) IN
            \A out \in Stacks(votes) :
                /\ expected = [p \in {out[i].parent : i \in DOMAIN out} |->
                                  out[CHOOSE i \in DOMAIN out : out[i].parent = p].votes]
                /\ \A i, j \in DOMAIN out :
                      i < j => Height[out[i].parent] > Height[out[j].parent]
=============================================================================
