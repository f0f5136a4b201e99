----------------------------- MODULE MCCsvHandles -----------------------------
(* CsvHandles on small instances: model values for threads and heap blocks. *)
EXTENDS CsvHandles, TLC

(* Threads run the same code and blocks are told apart only by equality.    *)
Symmetric == Permutations(Threads) \cup Permutations(Objects)
=============================================================================
