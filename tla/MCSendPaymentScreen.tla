------------------------ MODULE MCSendPaymentScreen ------------------------
(* Model values and bounds for TLC.                                        *)
EXTENDS SendPaymentScreen

CONSTANTS h1, a1, a2, s1, s2, d1

OneHash == {h1}
TwoAttempts == {a1, a2}
OneAmount == {1}
OneFee == {0}

\* Two screens, because the first one may be closed with its callbacks pending or
\* its attempt not recorded yet.
OneScreen == {s1}
TwoScreens == {s1, s2}
OneDialog == {d1}
=============================================================================
