---------------------------- MODULE MCProcTable -----------------------------
EXTENDS ProcTable, TLC
=============================================================================
