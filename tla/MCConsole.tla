----------------------------- MODULE MCConsole -----------------------------
EXTENDS Console

MCScancodes == {5, 30, 58}
=============================================================================
