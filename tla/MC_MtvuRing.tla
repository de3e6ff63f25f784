---- MODULE MC_MtvuRing ----
EXTENDS MtvuRing

\* A packet without data (ExecuteVU) and one with data (WriteDataMem, ...).
MCSize == [execute |-> 2, write |-> 3]
====
