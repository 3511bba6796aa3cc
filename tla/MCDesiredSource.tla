--------------------------- MODULE MCDesiredSource ---------------------------
(***************************************************************************)
(* Two commits that change only the Registry, c2 the child of c1; the head *)
(* may be forced back to c1.                                               *)
(***************************************************************************)
EXTENDS DesiredSourceProps

CONSTANTS c1, c2
MCDescends == {<<c1, c2>>}
MCRegistry == {<<c1, c2>>, <<c2, c1>>}
=============================================================================
