---- MODULE MC_ThreadedFileReader ----
EXTENDS ThreadedFileReader
====
