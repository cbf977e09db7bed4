----------------------------- MODULE MCWifiJoin -----------------------------
\* Instance of WifiJoin for TLC: one more network than slots, and a password that
\* an access point may or may not ask for.
EXTENDS WifiJoin
=============================================================================
