----------------------------- MODULE MCLogging -----------------------------
(* The process writes one line in two Write calls and then a second line; *)
(* the task prints one line in between.                                    *)
EXTENDS Logging

MCOutput ==
    [s \in Sources |->
        IF s = "proc"
        THEN << << [id |-> "a1", end |-> FALSE] >>,
                << [id |-> "a2", end |-> TRUE], [id |-> "b", end |-> TRUE] >> >>
        ELSE << << [id |-> "t", end |-> TRUE] >> >>]
MCTailCounts == {-1, 1}
=============================================================================
