---- MODULE MC_WorkSema ----
EXTENDS WorkSema
====
