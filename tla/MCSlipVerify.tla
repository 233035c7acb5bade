---------------------------- MODULE MCSlipVerify ----------------------------
\* Small instances of SlipVerify for TLC.
EXTENDS SlipVerify, TLC

CONSTANTS o1, o2

Camera == INSTANCE SlipPhotos

MCImages == Camera!Photos
MCText == Camera!Readings

MCGrandTotal == [o \in Orders |-> 250]
=============================================================================
