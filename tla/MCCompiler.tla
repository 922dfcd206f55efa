----------------------------- MODULE MCCompiler ------------------------------
(* Compiler over the programs, and over the other inputs, of MCParser.      *)
EXTENDS Compiler, MCParser

NoTrees == {}
=============================================================================
