------------------------------- MODULE MCHttp -------------------------------
\* The programs of Http.
EXTENDS Http
=============================================================================
