------------------------------- MODULE MCLake -------------------------------
(***************************************************************************)
(* Four bars in batches of two, behind a leftover part of the same month.  *)
(***************************************************************************)
EXTENDS IngestSinks

MCLeftover == {28333332}
MCDeltaSeqs == {1, 3}
=============================================================================
