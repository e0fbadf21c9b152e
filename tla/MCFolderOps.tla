---------------------------- MODULE MCFolderOps -----------------------------
(***************************************************************************)
(* An instance of FolderOps for TLC: two names of which one begins with    *)
(* the other, folders in two levels, and a path that is not clean.         *)
(***************************************************************************)
EXTENDS FolderOps, TLC

A  == <<"a">>
AB == <<"a", "b">>

MCChars   == {"a", "b", "/", "."}
MCWidth   == [c \in MCChars |-> 1]
MCLower   == [c \in MCChars |-> c]
MCNames   == {A, AB}
MCFolders == {Root, A, AB, A \o <<"/">> \o A, A \o <<"/">>}

HandlerSymmetry == Permutations(Handlers)
=============================================================================
