---------------------------- MODULE MCStatements ----------------------------
(* One text more than the cache holds, two Statement objects, which are alike,  *)
(* a transaction that prepares one of the texts, as pragma() and the others do,  *)
(* and native statements for the cache, for two of those that are held after    *)
(* they were finalized or prepared past it, and one to prepare.                  *)
EXTENDS Statements, TLC

ObjectsAreAlike == Permutations(Wrappers)
=============================================================================
