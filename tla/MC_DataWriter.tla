--------------------------- MODULE MC_DataWriter ---------------------------
(* Model of two writers on one dataset, for TLC. *)
EXTENDS DataWriter

CONSTANTS w1, w2, s1, p1

MCWriters      == {w1, w2}
MCOneWriter    == {w1}
\* a column a of integers or of nanosecond timestamps (two output schemas,
\* the second normalised to milliseconds UTC), or a column clashing with
\* system_time
MCBatchSchemas ==
    {<<[name |-> "a", type |-> "Int64"]>>,
     <<[name |-> "a", type |-> "TimestampNs"]>>,
     <<[name |-> "system_time", type |-> "Int64"]>>}
MCTimes        == 1..2
MCSourceStates == {s1}
MCPushNames    == {p1}

MCSymmetry == Permutations(MCWriters)
====
