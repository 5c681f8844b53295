--------------------------- MODULE MCPaymentsView ---------------------------
(* Model values and bounds for TLC.                                        *)
EXTENDS PaymentsView

CONSTANTS w1, w2, r1

\* NodeSupervisor and ElectrumSupervisor.
TwoWriters == {w1, w2}

\* One query at a time.
OneReader == {r1}
=============================================================================
