---------------------------- MODULE MCRowCache ----------------------------
EXTENDS RowCache
=============================================================================
