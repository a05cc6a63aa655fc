--------------------------- MODULE MCEventListener ---------------------------
(***************************************************************************)
(* A small instance of EventListener for TLC.                              *)
(***************************************************************************)
EXTENDS EventListener, TLC

CONSTANTS ingested, deleted

\* Two topics; the second trigger hears both, the first and the third one each.
\* The first has no debounce window and gets the smallest one.
ThreeTopics == <<{ingested}, {ingested, deleted}, {deleted}>>
ThreeWindows == <<0, 3, 2>>
=============================================================================
