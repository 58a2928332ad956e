--------------------------- MODULE MCLoadProfile ---------------------------
EXTENDS LoadProfile

CONSTANTS c1, c2, c3

TwoCalls == {c1, c2}
ThreeCalls == {c1, c2, c3}
SomePcts == {10, 25, 100}

Setting(docker, disable, revert, calibrate) ==
    [docker |-> docker, disable |-> disable, revert |-> revert, calibrate |-> calibrate]

\* Both kinds of worker, the kill switch, and the timer and calibration off.
FiveSettings == {Setting(FALSE, FALSE, TRUE, TRUE), Setting(TRUE, FALSE, TRUE, TRUE),
                 Setting(FALSE, TRUE, TRUE, TRUE), Setting(FALSE, FALSE, FALSE, TRUE),
                 Setting(TRUE, FALSE, TRUE, FALSE)}

=============================================================================
