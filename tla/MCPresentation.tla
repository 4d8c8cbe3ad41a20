----------------------------- MODULE MCPresentation ----------------------------
(* Bounds for Presentation: one behaviour hands the output over to another *)
(* surface, or moves it, or decodes AVC444, or is paced and disturbed by   *)
(* the platform.                                                           *)
EXTENDS Presentation

MCRegions == {{1}, {1, 2}}

MCWork ==
  { [ids |-> {1, 2}, origins |-> {0}, changes |-> 4, writes |-> 2, codecs |-> {"plain"},
     distractions |-> 0, large |-> FALSE],
    [ids |-> {1}, origins |-> {0, 1}, changes |-> 3, writes |-> 2, codecs |-> {"plain"},
     distractions |-> 0, large |-> FALSE],
    [ids |-> {1}, origins |-> {0}, changes |-> 2, writes |-> 2, codecs |-> {"plain", "avc444"},
     distractions |-> 1, large |-> FALSE],
    [ids |-> {1}, origins |-> {0}, changes |-> 2, writes |-> 1, codecs |-> {"plain"},
     distractions |-> 2, large |-> TRUE] }
===============================================================================
