---------------------------- MODULE MCMessageSends ----------------------------
EXTENDS MessageSends
===============================================================================
