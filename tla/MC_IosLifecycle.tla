---- MODULE MC_IosLifecycle ----
EXTENDS IosLifecycle
====
