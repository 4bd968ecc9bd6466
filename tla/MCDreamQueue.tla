---- MODULE MCDreamQueue ----
EXTENDS DreamQueue, TLC
====
