------------------------------ MODULE MCDemount ------------------------------
\* Instances of DemountTasks: outcomes are written out here because a cfg has
\* no records.
EXTENDS DemountTasks

CONSTANTS m1, m2, s1, s2, s3, u1, u2, d1, d2, d3, r1, r2

\* One outcome of each resolution; between them every disposition and the three
\* categories that differ in the meter status they lead to.
Replace == [resolution |-> "REPLACE_SIM", disposition |-> "MARK_DEFECTIVE",
            category |-> "OTHER"]
ReplaceStock == [resolution |-> "REPLACE_SIM", disposition |-> "RETURN_TO_STOCK",
                 category |-> "OTHER"]
Pause == [resolution |-> "REMOVE_SIM_ONLY", disposition |-> "RETURN_TO_STOCK",
          category |-> "TEMPORARY_REMOVAL"]
Full == [resolution |-> "FULL_DEMOUNT", disposition |-> "MARK_DEFECTIVE",
         category |-> "MAINTENANCE"]

SwapAndPause == {ReplaceStock, Pause}
EveryOutcome == {Replace, ReplaceStock, Pause, Full}
=============================================================================
