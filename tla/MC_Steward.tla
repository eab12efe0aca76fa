----------------------------- MODULE MC_Steward -----------------------------
EXTENDS Steward, TLC

=============================================================================
