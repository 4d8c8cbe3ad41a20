---------------------------- MODULE MCNativeSession ----------------------------
(* A small instance of NativeSession for TLC: either the input path runs   *)
(* busy beside an idle display, or the display beside an idle input path.  *)
EXTENDS NativeSession

Load(e, f, n, s) == [events |-> e, faults |-> f, endings |-> n, script |-> s]
MCLoads ==
  {Load(3, 0, 0, <<>>), Load(2, 1, 0, <<>>), Load(1, 0, 1, <<>>), Load(0, 1, 1, <<>>)}
  \cup {Load(0, 0, 1, s) : s \in {<<"frame", "move">>, <<"frame", "moveRaw">>, <<"rects", "frame">>}}
===============================================================================
