---------------------------- MODULE MCGraderFeed ----------------------------
(***************************************************************************)
(* GraderFeed for TLC, with chunks that are whole lines. Two assets and no *)
(* frontend, to see in which order chunks arrive; or one asset and one     *)
(* frontend, to see who waits for whom.                                    *)
(***************************************************************************)
EXTENDS GraderFeed

CONSTANTS a1, a2, m1, m2, c1

OneAsset  == {a1}
TwoAssets == {a1, a2}

\* One task over two lines of one asset, and one of the whole lab.
MCTasks    == {"any", "block"}
MCScope    == [t \in MCTasks |-> IF t = "any" THEN LabWide ELSE a1]
MCTemplate == [t \in MCTasks |-> IF t = "any" THEN <<{m2}>> ELSE <<{m1}, {m2}>>]
MCMarks    == {m1, m2}

MarkedLines == {<<{m1}, {}>>, <<{m2}, {}>>}
AllLines    == MarkedLines \cup {<<{}, {}>>}

NoClients == {}
OneClient == {c1}
=============================================================================
