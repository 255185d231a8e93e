---------------------------- MODULE MCSubmission ----------------------------
EXTENDS Submission

MCSigs    == 1 .. MaxRetries
MCSlots   == 1 .. MaxSlot
MCHeights == 1 .. MaxSlot + Validity
MCSendErrors == {"BundleFailure"}
=============================================================================
