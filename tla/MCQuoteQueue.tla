----------------------------- MODULE MCQuoteQueue ----------------------------
(***************************************************************************)
(* Instances of QuoteQueue for TLC.                                        *)
(***************************************************************************)
EXTENDS QuoteQueue, TLC
=============================================================================
