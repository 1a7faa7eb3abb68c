-------------------------- MODULE MCWindowGeometry --------------------------
(***************************************************************************)
(* An instance of WindowGeometry on a small desktop, with frames that are  *)
(* wide, high and square, fill it at an exact multiple, exceed it, or have *)
(* no aspect ratio of their own.                                           *)
(***************************************************************************)
EXTENDS WindowGeometry

Frame(w, h, n, d) == [width |-> w, height |-> h, aspect |-> <<n, d>>]

MCDesktop == [width |-> 120, height |-> 90]

\* 4/3 as a float.
MCMenu == Frame(32, 24, 11184811, 8388608)

MCGeometries ==
  {Frame(40, 30, 11184811, 8388608), Frame(24, 32, 3, 4), Frame(32, 24, 2, 1),
   Frame(32, 16, 0, 1), Frame(128, 64, 3, 2), Frame(30, 30, 4, 5)}

MCOverrides ==
  {[width |-> 100, height |-> 50], [width |-> 50, height |-> 100], None}

=============================================================================
