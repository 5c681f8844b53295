------------------------ MODULE MCLightningPayments ------------------------
(* Model values and bounds for TLC.                                        *)
EXTENDS LightningPayments, TLC

CONSTANTS h1, h2, a1, a2, a3

\* Two attempts may concern one hash or two, three attempts may overlap on a
\* row, and the two amounts differ by more than a fee.
OneHash == {h1}
TwoHashes == {h1, h2}
TwoAttempts == {a1, a2}
ThreeAttempts == {a1, a2, a3}
OneRestored == {a1}
TwoAmounts == {1, 3}
OneAmount == {1}
OneFee == {1}

\* Attempts are interchangeable, except the restored ones.
AttemptSymmetry == Permutations(Attempts \ Restored)
=============================================================================
