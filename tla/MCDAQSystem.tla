---- MODULE MCDAQSystem ----
EXTENDS DAQSystem
====
