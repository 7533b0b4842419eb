--------------------------- MODULE MCVolumeLocks ---------------------------
\* Three handlers that lock two ids; a mutex per handler is enough, since a
\* handler allocates one at a time.
EXTENDS VolumeLocks
=============================================================================
