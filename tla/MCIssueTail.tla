----------------------------- MODULE MCIssueTail -----------------------------
EXTENDS IssueTail
=============================================================================
