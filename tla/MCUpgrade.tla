------------------------------ MODULE MCUpgrade ------------------------------
EXTENDS Upgrade
=============================================================================
