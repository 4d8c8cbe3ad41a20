------------------------------ MODULE MCRdpFiles ------------------------------
(* Lists for RdpFiles: a folder; an empty file that the list does not      *)
(* declare with a file of two chunks.                                      *)
EXTENDS RdpFiles

Folder == [size |-> 0, declared |-> TRUE]
Unsaid == [size |-> 0, declared |-> FALSE]
Long == [size |-> 2, declared |-> TRUE]

MCLists == {<<Folder, Unsaid>>, <<Long>>}
===============================================================================
