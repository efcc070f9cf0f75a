---------------------------- MODULE MCLiveEvents ----------------------------
EXTENDS LiveEvents

CONSTANTS s1, k1, j1, w1

\* Requests that wait, and clients that hold a connection.
Groups == {{s1, j1, w1}, {s1, k1}}
=============================================================================
