---- MODULE MC_VsyncPacket ----
EXTENDS VsyncPacket
====
