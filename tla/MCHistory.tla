------------------------------ MODULE MCHistory ------------------------------
(***************************************************************************)
(* Bounds for TLC: how often each rare event, and any of them, may happen.*)
(***************************************************************************)
EXTENDS History

CONSTANTS Rewinds, Compacts, Forks, Crashes, Failures, Total, StrayId

MCBudget == [w \in Rare |->
    CASE w = "rewind" -> Rewinds [] w = "compact" -> Compacts
      [] w = "fork" -> Forks [] w = "crash" -> Crashes [] w = "fail" -> Failures
      [] w = "any" -> Total]

\* Behaviours in which memory and table have parted are followed for fewer messages.
StrayedBound == strayed => nextId <= StrayId
=============================================================================
