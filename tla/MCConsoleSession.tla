--------------------------- MODULE MCConsoleSession ---------------------------
EXTENDS ConsoleSession
==============================================================================
