---- MODULE MC_Mtgs ----
EXTENDS Mtgs
====
