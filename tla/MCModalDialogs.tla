--------------------------- MODULE MCModalDialogs ---------------------------
(* Three dialogs, each of which may be opened again.                        *)
EXTENDS ModalDialogs

CONSTANTS d1, d2, d3

MCDialogs == {d1, d2, d3}
=============================================================================
