----------------------------- MODULE MCBulkOps -----------------------------
EXTENDS BulkOps
=============================================================================
