------------------------------ MODULE MCRemoteScan -----------------------------
(* Two pages, one below the other or both below the root, asked for one at a  *)
(* time; an edit is indexed within its unit of time, and the window is one    *)
(* unit, so an edit of time 1 is behind a watermark of time 2.                *)
EXTENDS RemoteScan

CONSTANTS a, b
Order == <<a, b>>
================================================================================
