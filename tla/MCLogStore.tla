---- MODULE MCLogStore ----
\* LogStore for TLC: logs of up to two characters, a half that holds one.
EXTENDS LogStore
====
