----------------------------- MODULE MCKeyset -----------------------------
EXTENDS Keyset
=============================================================================
