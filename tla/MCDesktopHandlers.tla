-------------------------- MODULE MCDesktopHandlers -------------------------
(***************************************************************************)
(* The form handlers of the till for TLC: two requests side by side, three *)
(* records of a kind with a listing that shows two, and two callers of the *)
(* licence with secrets enough for every one they can draw.                *)
(***************************************************************************)
EXTENDS DesktopHandlers, TLC

HandlerSymmetry == Permutations(Workers) \cup Permutations(Callers)
=============================================================================
