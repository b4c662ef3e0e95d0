----------------------------- MODULE MCUiThread -----------------------------
(* A thread whose call waits, one whose call does not, and may be refused,  *)
(* retried and given up; an event that comes again and again; two idle      *)
(* functions of the UI thread, which may add each other.                    *)
EXTENDS UiThread, TLC

CONSTANTS t1, t2, s1, a2, l1, l2, e1

MCCallers == {t1, t2}
MCCalls == {s1, a2}
MCCallsOf == t1 :> {s1} @@ t2 :> {a2}
MCSync == {s1}
MCDestroy == {a2}
MCEnsure == {a2}
MCEvents == {e1}
MCLocal == {l1, l2}
=============================================================================
