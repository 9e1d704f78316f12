------------------------------- MODULE MCSessions -------------------------------
EXTENDS Sessions
=============================================================================
