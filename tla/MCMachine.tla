------------------------------ MODULE MCMachine ------------------------------
(* Machine over every program of TreeSets' kinds.                           *)
EXTENDS Machine, TreeSets

\* A division behind a division is left to MCDivision.cfg.
MCArithmeticTrees == {Program(<<s>>) : s \in Chained(BinExprKinds, BinExprKinds \ {"div", "mod"})}
MCTrees == ControlTrees \cup MCArithmeticTrees
MCDivisionTrees   == {Program(<<s>>) : s \in Chained({"div", "mod"}, {"div", "mod"})}
=============================================================================
