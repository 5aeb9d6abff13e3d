------------------------------ MODULE MCAnswers ------------------------------
(* Instance of Answers for TLC: two keys whose hashes are in two shards.   *)
EXTENDS Answers

CONSTANTS apple, pear

\* Two shard numbers, one past the number of shards.
Asked ==
    {[op |-> op, key |-> apple] : op \in {"get", "delete"}}
    \cup {[op |-> "get", key |-> pear]}
    \cup {[op |-> "set", key |-> apple, value |-> 17]}
    \cup {[op |-> "list", shard |-> i] : i \in {1, 2}}

Hashes == (apple :> 4) @@ (pear :> 7)
=============================================================================
