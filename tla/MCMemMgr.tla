------------------------------ MODULE MCMemMgr ------------------------------
EXTENDS MemMgr

\* The linker puts base below the pool.
BaseBelow == -1
=============================================================================
