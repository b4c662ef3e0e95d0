--------------------------- MODULE MCEventSources ---------------------------
(* Two sources with a descriptor and one without, two registered at a time.  *)
EXTENDS EventSources

CONSTANTS f1, f2, o1

MCFds == {f1, f2}
MCOthers == {o1}
=============================================================================
