--------------------------- MODULE MCNoteService ---------------------------
(***************************************************************************)
(* Instances of NoteService for TLC.                                       *)
(***************************************************************************)
EXTENDS NoteService, TLC

\* Bodies with different previews of one rune, the second one longer than that.
TwoContents == {<<"a">>, <<"b", "a">>}
OneContent  == {<<"b", "a">>}

\* Failures that the handlers roll back or that leave nothing behind.
RolledBack == AllFaults \ {"statNew", "delete", "undo", "crash"}

\* Of these, the ones after which no file stays behind either.
LeavesNoFile == RolledBack \ {"swap", "statCreated"}

HandlerSymmetry == Permutations(Handlers)
=============================================================================
