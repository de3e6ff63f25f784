---- MODULE MC_Sif ----
EXTENDS Sif
====
