----------------------------- MODULE ParentDirs -----------------------------
(***************************************************************************)
(* Folder paths as texts: the rules of common/pathutil.go for the paths    *)
(* and names that requests carry, and what the statements of               *)
(* database/folders.go do to a parent_dir column.  The statements work on  *)
(* characters, bytes and LIKE patterns, so a text is a sequence of         *)
(* characters here and not a list of folder names.                         *)
(***************************************************************************)
EXTENDS Integers, Sequences, FiniteSetsExt

CONSTANTS
    Chars,          \* the alphabet
    Slash, Dot,     \* two of its members
    Forbidden,      \* the backslash and the null byte, as far as Chars has them
    Wildcards,      \* '%', '_' and the backslash, as far as Chars has them
    Width,          \* bytes of a character in UTF-8
    Lower,          \* SQLite's LIKE compares characters under this folding
    MaxNameLen      \* bytes that a name may have, 255 in the code

ASSUME CharsAssumption == Slash \in Chars /\ Dot \in Chars /\ Slash # Dot
ASSUME WidthAssumption == Width \in [Chars -> 1..4]
ASSUME LowerAssumption ==
    /\ Lower \in [Chars -> Chars]
    /\ \A c \in Chars : Lower[c] = Lower[Slash] => c = Slash

Text == Seq(Chars)
Root == <<>>            \* parent_dir of what lies in the data directory itself

-----------------------------------------------------------------------------
(***************************************************************************)
(* Paths and names.                                                        *)
(***************************************************************************)
Occurs(chars, s) == \E i \in 1..Len(s) : s[i] \in chars

\* Where the segments of s begin and end: its slashes, and one on either side.
Cuts(s) == {0, Len(s) + 1} \cup {i \in 1..Len(s) : s[i] = Slash}

\* strings.Split(s, "/").
Segments(s) ==
    {SubSeq(s, cut[1] + 1, cut[2] - 1) : cut \in
        {c \in Cuts(s) \X Cuts(s) : c[1] < c[2] /\ \A k \in Cuts(s) : k <= c[1] \/ c[2] <= k}}

\* rejectBadRelativePath accepts p: filepath.Clean leaves p alone and no
\* segment is "..".  "." is its own Clean result.
CleanPath(p) ==
    \/ p = Root
    \/ /\ ~ Occurs(Forbidden, p)
       /\ \/ p = <<Dot>>
          \/ Segments(p) \cap {<<>>, <<Dot>>, <<Dot, Dot>>} = {}

\* filepath.Join(dataDir, p), relative to the data directory.
Resolve(p) == IF p = <<Dot>> THEN Root ELSE p

ValidateParentDir(p) == CleanPath(p)
ValidatePath(p)      == CleanPath(p) /\ Resolve(p) # Root

\* len(s) in Go.
Bytes(s) == Cardinality({b \in (1..Len(s)) \X (1..4) : b[2] <= Width[s[b[1]]]})

ValidateName(name) ==
    /\ name # <<>>
    /\ Bytes(name) <= MaxNameLen
    /\ ~ Occurs({Slash} \cup Forbidden, name)
    /\ name \notin {<<Dot>>, <<Dot, Dot>>}

\* dir + "/" + name, or name in the root.
InDir(dir, name) == IF dir = Root THEN name ELSE dir \o <<Slash>> \o name

\* filepath.Dir, with Root for its ".", and filepath.Base.
LastSlash(p) == Max({0} \cup {i \in 1..Len(p) : p[i] = Slash})
Dir(p)       == IF LastSlash(p) = 0 THEN Root ELSE SubSeq(p, 1, LastSlash(p) - 1)
Base(p)      == SubSeq(p, LastSlash(p) + 1, Len(p))

-----------------------------------------------------------------------------
(***************************************************************************)
(* The statements on parent_dir.                                           *)
(***************************************************************************)
Prefix(dir) == dir \o <<Slash>>

\* escapeLike: a backslash before every character that LIKE gives a meaning.
EscapeLike(s) == [i \in 1..Len(s) |-> [char |-> s[i], escaped |-> s[i] \in Wildcards]]

\* s LIKE pattern || '%' ESCAPE '\': a character of the pattern stands for
\* itself under the folding, an unescaped '_' for any one character.
Like(s, pattern) ==
    /\ Len(pattern) <= Len(s)
    /\ \A i \in 1..Len(pattern) :
          \/ pattern[i].char \in Wildcards /\ ~ pattern[i].escaped
          \/ Lower[s[i]] = Lower[pattern[i].char]

\* A mutated DeleteByParentDir whose prefix has no slash at its end.
DeletedWithoutSlash(s, dirPath) == s = dirPath \/ Like(s, EscapeLike(dirPath))

\* DeleteByParentDir(dirPath) deletes a row whose parent_dir is s.
DeletedBy(s, dirPath) == s = dirPath \/ Like(s, EscapeLike(Prefix(dirPath)))

\* SUBSTR(s, n): s from its n-th character on.
SubStr(s, n) == SubSeq(s, n, Len(s))

\* The two UPDATE statements of RenameParentDir.
UpdateExact(s, oldPath, newPath)  == IF s = oldPath THEN newPath ELSE s
UpdatePrefix(s, oldPath, newPath) ==
    IF Like(s, EscapeLike(Prefix(oldPath)))
    THEN Prefix(newPath) \o SubStr(s, Bytes(Prefix(oldPath)) + 1)
    ELSE s

\* A mutated RenameParentDir without its second statement.
RenamedExactly(s, oldPath, newPath) == UpdateExact(s, oldPath, newPath)

\* RenameParentDir(oldPath, newPath) stores this where parent_dir was s.
RenamedBy(s, oldPath, newPath) ==
    UpdatePrefix(UpdateExact(s, oldPath, newPath), oldPath, newPath)

-----------------------------------------------------------------------------
(***************************************************************************)
(* The same on the file system: what lies in a directory, and where it is  *)
(* after the directory is renamed.  The kernel compares path components.   *)
(***************************************************************************)
Under(s, dir) ==
    /\ Len(dir) < Len(s)
    /\ SubSeq(s, 1, Len(dir) + 1) = Prefix(dir)

Within(s, dir) == s = dir \/ Under(s, dir)

Moved(s, old, new) ==
    IF Within(s, old) THEN new \o SubSeq(s, Len(old) + 1, Len(s)) ELSE s
=============================================================================
