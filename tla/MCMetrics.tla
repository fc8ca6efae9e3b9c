----------------------------- MODULE MCMetrics -----------------------------
(***************************************************************************)
(* A small instance of Metrics.                                            *)
(***************************************************************************)
EXTENDS Metrics

CONSTANTS t1, t2, t3, notFound

MCThreads == {t1, t2, t3}
MCCodes == {notFound}
MCLatencies == {1, 3}

=============================================================================
