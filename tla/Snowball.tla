------------------------------ MODULE Snowball ------------------------------
(***************************************************************************)
(* The snow decision instances of crates/ava-snow/src/snowball: the unary  *)
(* and the binary snowball state machines that a Tree of the default       *)
(* factory (SnowballFactory) is made of, and the validity predicate of     *)
(* their parameters.                                                       *)
(*                                                                         *)
(* An instance is a record.  The production factory builds one termination *)
(* condition (TerminationCondition::single), so the vector of confidence   *)
(* counters is the one number `confidence`.  The u32 counters saturate; no *)
(* bounded behaviour reaches 2^32 polls and they are plain naturals here.  *)
(*                                                                         *)
(* The operators are pure: they map an instance before a call to the       *)
(* instance after it.                                                      *)
(***************************************************************************)
EXTENDS Integers

CONSTANTS
    K,                \* nodes sampled per poll
    AlphaPreference,  \* votes needed to change a preference
    AlphaConfidence,  \* votes needed to count towards finalization
    Beta              \* consecutive successful polls needed to finalize

\* Parameters::verify.  0 < concurrent_repolls <= beta makes beta positive.
ValidParameters ==
    /\ K \in Nat /\ AlphaPreference \in Nat
    /\ AlphaConfidence \in Nat /\ Beta \in Nat \ {0}
    /\ K \div 2 < AlphaPreference
    /\ AlphaPreference <= AlphaConfidence
    /\ AlphaConfidence <= K

ASSUME ParametersAssumption == ValidParameters

Bits == {0, 1}

-----------------------------------------------------------------------------
(* Snowflake: the part both instances share.                               *)

\* Clears the confidence.  `finalized` is left alone, as in the code.
RecordUnsuccessful(sb) == [sb EXCEPT !.confidence = 0]

\* One poll that gave `count` votes to the choice the instance now prefers.
CountConfidence(sb, count) ==
    IF count < AlphaConfidence
    THEN RecordUnsuccessful(sb)
    ELSE [sb EXCEPT !.confidence = @ + 1,
                    !.finalized  = @ \/ sb.confidence + 1 >= Beta]

-----------------------------------------------------------------------------
(* Unary snowball.                                                         *)

NewUnary == [strength |-> 0, confidence |-> 0, finalized |-> FALSE]

\* The unary snowflake does not look at `finalized`: it keeps counting.
UnaryRecordPoll(sb, count) ==
    CountConfidence(
        [sb EXCEPT !.strength = IF count >= AlphaPreference THEN @ + 1 ELSE @],
        count)

-----------------------------------------------------------------------------
(* Binary snowball: `flake` is the preference of the snowflake below,      *)
(* `leader` the choice with the greater strength.                          *)

\* Extends a unary instance into a binary one rooted at `bit`.
Extend(sb, bit) ==
    [strength   |-> [b \in Bits |-> IF b = bit THEN sb.strength ELSE 0],
     leader     |-> bit,
     flake      |-> bit,
     confidence |-> sb.confidence,
     finalized  |-> sb.finalized]

BinaryPreference(sb) == IF sb.finalized THEN sb.flake ELSE sb.leader

\* Mutant: the confidence survives a change of preference.
FlakeKeepsConfidence(sb, count, bit) ==
    IF sb.finalized THEN sb
    ELSE IF count < AlphaPreference THEN RecordUnsuccessful(sb)
    ELSE CountConfidence([sb EXCEPT !.flake = bit], count)

\* BinarySnowflake::record_poll: a decided instance ignores the poll.
BinaryFlakeRecordPoll(sb, count, bit) ==
    IF sb.finalized THEN sb
    ELSE IF count < AlphaPreference THEN RecordUnsuccessful(sb)
    ELSE CountConfidence(
             [sb EXCEPT !.flake      = bit,
                        !.confidence = IF bit = sb.flake THEN @ ELSE 0],
             count)

\* BinarySnowball::record_poll: the strengths move even when decided.
BinaryRecordPoll(sb, count, bit) ==
    LET s == sb.strength[bit] + 1
        counted == [sb EXCEPT !.strength[bit] = s,
                              !.leader = IF s > sb.strength[1 - bit] THEN bit ELSE @]
    IN  BinaryFlakeRecordPoll(
            IF count >= AlphaPreference THEN counted ELSE sb, count, bit)
=============================================================================
