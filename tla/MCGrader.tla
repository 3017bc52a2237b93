------------------------------ MODULE MCGrader ------------------------------
(***************************************************************************)
(* Grader for TLC, without frontends. Four tasks: one for one asset, in    *)
(* two marks that may come in different chunks; one for the other asset;   *)
(* one for the whole lab, over two lines; and one whose template is not a  *)
(* regular expression.                                                     *)
(***************************************************************************)
EXTENDS Grader

CONSTANTS a1, a2, m1, m2

TwoAssets == {a1, a2}

MCTasks == {"word", "other", "block", "broken"}
MCValid == MCTasks \ {"broken"}

ScopeEach == [t \in MCTasks |-> CASE t = "word"  -> a1
                                   [] t = "other" -> a2
                                   [] OTHER       -> LabWide]
MCTemplate == [t \in MCTasks |-> CASE t = "word"   -> <<{m1, m2}>>
                                    [] t = "other"  -> <<{m2}>>
                                    [] t = "block"  -> <<{m1}, {m2}>>
                                    [] t = "broken" -> <<{m1}>>]

MCMarks == {m1, m2}

Pieces == {{}, {m1}, {m2}}

\* Chunks of at most one newline, and some with more than the ring has room for.
CutChunks == {<<p>> : p \in Pieces} \cup {<<p, q>> : p, q \in Pieces}
               \cup {<<p, q, r, {}>> : p, q, r \in Pieces}

NoClients == {}
=============================================================================
