---- MODULE MC_GifPath ----
EXTENDS GifPath
====
