-------------------------- MODULE ParentDirs_proof --------------------------
(***************************************************************************)
(* When the SQL statements on parent_dir do what the file system does to   *)
(* the directories: for texts of every length over every alphabet.         *)
(***************************************************************************)
EXTENDS ParentDirs, FiniteSetTheorems, SequenceTheorems, TLAPS

\* No two characters that LIKE takes for the same.
OneCase == \A c, d \in Chars : Lower[c] = Lower[d] => c = d

\* Texts whose characters are one byte long.
OneByte(s) == \A i \in 1..Len(s) : Width[s[i]] = 1

LEMMA PrefixText ==
    ASSUME NEW dir \in Text
    PROVE  /\ Prefix(dir) \in Text
           /\ Len(Prefix(dir)) = Len(dir) + 1
           /\ \A i \in 1..Len(dir) : Prefix(dir)[i] = dir[i]
           /\ Prefix(dir)[Len(dir) + 1] = Slash
  BY CharsAssumption DEF Prefix, Text

LEMMA EscapeLikeText ==
    ASSUME NEW s \in Text
    PROVE  /\ Len(EscapeLike(s)) = Len(s)
           /\ \A i \in 1..Len(s) : /\ EscapeLike(s)[i].char = s[i]
                                   /\ EscapeLike(s)[i].escaped <=> s[i] \in Wildcards
  <1>1. Len(s) \in Nat  BY DEF Text
  <1>2. DOMAIN EscapeLike(s) = 1..Len(s)  BY DEF EscapeLike
  <1>3. EscapeLike(s) \in Seq([char : Chars, escaped : BOOLEAN])
    BY <1>1 DEF EscapeLike, Text
  <1>4. Len(EscapeLike(s)) = Len(s)  BY <1>1, <1>2, <1>3
  <1> QED  BY <1>4 DEF EscapeLike

\* The pattern of DeleteByParentDir and RenameParentDir: a text matches when
\* it begins with the folder and a slash, up to the folding of LIKE.
LEMMA LikePrefix ==
    ASSUME NEW s \in Text, NEW dir \in Text
    PROVE  Like(s, EscapeLike(Prefix(dir))) <=>
           /\ Len(dir) < Len(s)
           /\ \A i \in 1..Len(dir) + 1 : Lower[s[i]] = Lower[Prefix(dir)[i]]
  <1> DEFINE p == Prefix(dir)
  <1>1. p \in Text /\ Len(p) = Len(dir) + 1  BY PrefixText
  <1>2. Len(EscapeLike(p)) = Len(p)  BY <1>1, EscapeLikeText
  <1>3. \A i \in 1..Len(p) : /\ EscapeLike(p)[i].char = p[i]
                             /\ EscapeLike(p)[i].escaped <=> p[i] \in Wildcards
    BY <1>1, EscapeLikeText
  <1>4. Len(s) \in Nat /\ Len(dir) \in Nat  BY DEF Text
  <1> HIDE DEF p
  <1>5. Like(s, EscapeLike(p)) <=> /\ Len(p) <= Len(s)
                                   /\ \A i \in 1..Len(p) : Lower[s[i]] = Lower[p[i]]
    BY <1>2, <1>3 DEF Like
  <1> QED  BY <1>1, <1>4, <1>5 DEF p

LEMMA UnderPoints ==
    ASSUME NEW s \in Text, NEW dir \in Text
    PROVE  Under(s, dir) <=>
           /\ Len(dir) < Len(s)
           /\ \A i \in 1..Len(dir) + 1 : s[i] = Prefix(dir)[i]
  <1>1. Prefix(dir) \in Text /\ Len(Prefix(dir)) = Len(dir) + 1  BY PrefixText
  <1>2. CASE Len(dir) < Len(s)
    <2> DEFINE t == SubSeq(s, 1, Len(dir) + 1)
    <2>1. t \in Text /\ Len(t) = Len(dir) + 1 /\ \A i \in 1..Len(dir) + 1 : t[i] = s[i]
      BY <1>2 DEF Text
    <2>2. t = Prefix(dir) <=> \A i \in 1..Len(dir) + 1 : t[i] = Prefix(dir)[i]
      BY <1>1, <2>1 DEF Text
    <2> QED  BY <1>2, <2>1, <2>2 DEF Under
  <1>3. CASE ~ Len(dir) < Len(s)
    BY <1>3 DEF Under
  <1> QED  BY <1>2, <1>3

\* DeleteByParentDir leaves no row of the deleted folder or of one below it
\* behind, whatever characters the paths have.
THEOREM DeleteReachesAll ==
    ASSUME NEW s \in Text, NEW dir \in Text, Within(s, dir)
    PROVE  DeletedBy(s, dir)
  BY LikePrefix, UnderPoints DEF Within, DeletedBy

\* It deletes nothing else, unless paths differ only in the case of letters:
\* names with '%' and '_' and names that begin with another are kept apart.
THEOREM DeleteExact ==
    ASSUME OneCase, NEW s \in Text, NEW dir \in Text
    PROVE  DeletedBy(s, dir) <=> Within(s, dir)
  <1>1. Prefix(dir) \in Text /\ Len(Prefix(dir)) = Len(dir) + 1  BY PrefixText
  <1>2. ASSUME Len(dir) < Len(s), NEW i \in 1..Len(dir) + 1
        PROVE  s[i] \in Chars /\ Prefix(dir)[i] \in Chars
    BY <1>1, <1>2 DEF Text
  <1>3. ASSUME Like(s, EscapeLike(Prefix(dir))) PROVE Under(s, dir)
    BY <1>2, <1>3, LikePrefix, UnderPoints DEF OneCase
  <1> QED  BY <1>3, DeleteReachesAll DEF Within, DeletedBy

-----------------------------------------------------------------------------
\* The cells that Bytes counts for s, and the first cells of its characters.
Cells(s)  == {b \in (1..Len(s)) \X (1..4) : b[2] <= Width[s[b[1]]]}
Firsts(s) == {<<i, 1>> : i \in 1..Len(s)}

LEMMA FirstsCounted ==
    ASSUME NEW s \in Text
    PROVE  IsFiniteSet(Firsts(s)) /\ Cardinality(Firsts(s)) = Len(s)
  <1> DEFINE n == Len(s)
             f == [i \in 1..n |-> <<i, 1>>]
  <1>1. n \in Nat  BY DEF Text
  <1>2. f \in Injection(1..n, Firsts(s))
    BY Zenon DEF Injection, IsInjective, Firsts
  <1>3. f \in Surjection(1..n, Firsts(s))
    BY DEF Surjection, Firsts
  <1>4. ExistsBijection(1..n, Firsts(s))
    BY <1>2, <1>3 DEF Bijection, ExistsBijection
  <1> HIDE DEF n, f
  <1>5. IsFiniteSet(1..n) /\ Cardinality(1..n) = n
    <2>1. 1 \in Int /\ n \in Int  BY <1>1
    <2>2. /\ IsFiniteSet(1..n)
          /\ Cardinality(1..n) = IF 1 > n THEN 0 ELSE n - 1 + 1
      BY <2>1, FS_Interval
    <2> QED  BY <1>1, <2>2
  <1>6. IsFiniteSet(Firsts(s)) /\ Cardinality(Firsts(s)) = n
    BY <1>4, <1>5, FS_Bijection
  <1> QED  BY <1>6 DEF n

LEMMA WidthOfChar ==
    ASSUME NEW s \in Text, NEW i \in 1..Len(s)
    PROVE  Width[s[i]] \in 1..4
  <1>1. s[i] \in Chars  BY DEF Text
  <1> QED  BY <1>1, WidthAssumption

LEMMA FirstsInCells ==
    ASSUME NEW s \in Text
    PROVE  Firsts(s) \subseteq Cells(s)
  <1> SUFFICES ASSUME NEW i \in 1..Len(s) PROVE <<i, 1>> \in Cells(s)
    BY DEF Firsts
  <1>1. Width[s[i]] \in 1..4  BY WidthOfChar
  <1> QED  BY <1>1 DEF Cells

LEMMA CellsFinite ==
    ASSUME NEW s \in Text
    PROVE  IsFiniteSet(Cells(s)) /\ Cardinality(Cells(s)) \in Nat
  <1>1. Len(s) \in Int  BY DEF Text
  <1>2. IsFiniteSet(1..Len(s))  BY <1>1, FS_Interval
  <1>3. IsFiniteSet(1..4)
    <2>1. 1 \in Int /\ 4 \in Int  OBVIOUS
    <2> QED  BY <2>1, FS_Interval, Zenon
  <1>4. IsFiniteSet((1..Len(s)) \X (1..4))
    BY <1>2, <1>3, FS_Product, Zenon
  <1>5. Cells(s) \subseteq (1..Len(s)) \X (1..4)  BY DEF Cells
  <1>6. IsFiniteSet(Cells(s))  BY <1>4, <1>5, FS_Subset
  <1> QED  BY <1>6, FS_CardinalityType

LEMMA BytesOneByte ==
    ASSUME NEW s \in Text, OneByte(s)
    PROVE  Bytes(s) = Len(s)
  <1>1. Cells(s) \subseteq Firsts(s)
    <2> SUFFICES ASSUME NEW b \in Cells(s) PROVE b \in Firsts(s)
      OBVIOUS
    <2>1. /\ b = <<b[1], b[2]>> /\ b[1] \in 1..Len(s) /\ b[2] \in 1..4
          /\ b[2] <= Width[s[b[1]]]
      BY DEF Cells
    <2>2. b[2] <= 1  BY <2>1 DEF OneByte
    <2>3. b[2] = 1  BY <2>1, <2>2
    <2> QED  BY <2>1, <2>3 DEF Firsts
  <1>2. Cells(s) = Firsts(s)  BY <1>1, FirstsInCells
  <1>3. Bytes(s) = Cardinality(Cells(s))  BY DEF Bytes, Cells
  <1> QED  BY <1>2, <1>3, FirstsCounted

LEMMA BytesWide ==
    ASSUME NEW s \in Text, ~ OneByte(s)
    PROVE  Bytes(s) \in Nat /\ Bytes(s) > Len(s)
  <1> PICK i \in 1..Len(s) : Width[s[i]] # 1  BY DEF OneByte
  <1>1. Width[s[i]] \in 1..4  BY WidthOfChar
  <1>2. <<i, 2>> \in Cells(s)  BY <1>1 DEF Cells
  <1>3. <<i, 2>> \notin Firsts(s)  BY DEF Firsts
  <1>4. Firsts(s) \subseteq Cells(s) /\ Firsts(s) # Cells(s)
    BY <1>2, <1>3, FirstsInCells
  <1>5. Cardinality(Firsts(s)) < Cardinality(Cells(s))
    <2>1. /\ Cardinality(Firsts(s)) <= Cardinality(Cells(s))
          /\ Cardinality(Cells(s)) # Cardinality(Firsts(s))
      BY <1>4, CellsFinite, FS_Subset, Zenon
    <2>2. Cardinality(Firsts(s)) \in Nat
      BY FirstsCounted, FS_CardinalityType
    <2> QED  BY <2>1, <2>2, CellsFinite
  <1>6. Bytes(s) = Cardinality(Cells(s))  BY DEF Bytes, Cells
  <1>7. Len(s) < Cardinality(Cells(s)) /\ Cardinality(Cells(s)) \in Nat
    BY <1>5, FirstsCounted, CellsFinite
  <1>8. Len(s) \in Nat  BY DEF Text
  <1> QED  BY <1>6, <1>7, <1>8

LEMMA PrefixOneByte ==
    ASSUME NEW old \in Text, OneByte(Prefix(old))
    PROVE  Bytes(Prefix(old)) = Len(old) + 1
  BY PrefixText, BytesOneByte

\* new \o (s from Len(old) + 1 on) begins again with a slash below old.
LEMMA MovedUnder ==
    ASSUME NEW s \in Text, NEW old \in Text, NEW new \in Text, Under(s, old)
    PROVE  Moved(s, old, new) = Prefix(new) \o SubSeq(s, Len(old) + 2, Len(s))
  <1> DEFINE a == SubSeq(s, Len(old) + 1, Len(s))
             b == SubSeq(s, Len(old) + 2, Len(s))
  <1>1. Len(old) < Len(s) /\ s[Len(old) + 1] = Slash
    <2>1. Len(old) + 1 \in 1..Len(old) + 1  BY DEF Text
    <2> QED  BY <2>1, UnderPoints, PrefixText
  <1>2. b \in Text  BY <1>1 DEF Text
  <1>3. a = <<Slash>> \o b
    <2>1. Len(old) + 1 \in 1..Len(s) /\ Len(s) \in Len(old) + 1 .. Len(s)
      BY <1>1 DEF Text
    <2>2. a = <<s[Len(old) + 1]>> \o SubSeq(s, (Len(old) + 1) + 1, Len(s))
      BY <2>1, SubSeqRecursiveFirst DEF Text
    <2>3. (Len(old) + 1) + 1 = Len(old) + 2  BY DEF Text
    <2> QED  BY <1>1, <2>2, <2>3
  <1>4. Moved(s, old, new) = new \o a  BY DEF Moved, Within
  <1>5. new \o (<<Slash>> \o b) = (new \o <<Slash>>) \o b
    <2> DEFINE c == <<Slash>>
    <2>1. c \in Seq(Chars)  BY CharsAssumption
    <2>2. new \in Seq(Chars) /\ b \in Seq(Chars)  BY <1>2 DEF Text
    <2> HIDE DEF b, c
    <2>3. new \o (c \o b) = (new \o c) \o b
      BY <2>1, <2>2, ConcatAssociative, SMTT(30)
    <2> QED  BY <2>3 DEF c
  <1> QED  BY <1>3, <1>4, <1>5 DEF Prefix

LEMMA NotUnderItself ==
    ASSUME NEW dir \in Text
    PROVE  ~ Under(dir, dir)
  BY DEF Under, Text

\* RenameParentDir gives every row the path that its directory has after the
\* rename, if the old path is made of one-byte characters and no other path
\* differs from it only in the case of letters.
THEOREM RenameExact ==
    ASSUME OneCase, NEW s \in Text, NEW old \in Text, NEW new \in Text,
           OneByte(Prefix(old)), ~ Under(new, old)
    PROVE  RenamedBy(s, old, new) = Moved(s, old, new)
  <1>1. \A t \in Text : Like(t, EscapeLike(Prefix(old))) <=> Under(t, old)
    BY DeleteExact, NotUnderItself, LikePrefix DEF DeletedBy, Within, Text
  <1>2. CASE s = old
    <2>1. UpdateExact(s, old, new) = new  BY <1>2 DEF UpdateExact
    <2>2. RenamedBy(s, old, new) = new
      BY <1>1, <2>1 DEF RenamedBy, UpdatePrefix
    <2>3. Moved(s, old, new) = new \o SubSeq(s, Len(old) + 1, Len(s))
      BY <1>2 DEF Moved, Within
    <2>4. SubSeq(s, Len(old) + 1, Len(s)) = <<>>  BY <1>2 DEF Text
    <2> QED  BY <2>2, <2>3, <2>4, ConcatEmptySeq DEF Text
  <1>3. CASE s # old /\ Under(s, old)
    <2>1. UpdateExact(s, old, new) = s  BY <1>3 DEF UpdateExact
    <2>2. RenamedBy(s, old, new) = Prefix(new) \o SubSeq(s, Bytes(Prefix(old)) + 1, Len(s))
      BY <1>1, <1>3, <2>1 DEF RenamedBy, UpdatePrefix, SubStr
    <2>3. Bytes(Prefix(old)) + 1 = Len(old) + 2  BY PrefixOneByte DEF Text
    <2> QED  BY <1>3, <2>2, <2>3, MovedUnder
  <1>4. CASE s # old /\ ~ Under(s, old)
    BY <1>1, <1>4 DEF RenamedBy, UpdatePrefix, UpdateExact, Moved, Within
  <1> QED  BY <1>2, <1>3, <1>4

\* And only then: SUBSTR counts characters and len counts bytes, so below a
\* folder whose path has a longer character every row gets a wrong path.
THEOREM RenameWide ==
    ASSUME NEW old \in Text, NEW new \in Text, NEW name \in Text, name # <<>>,
           ~ OneByte(Prefix(old))
    PROVE  LET s == Prefix(old) \o name IN
           /\ Under(s, old)
           /\ RenamedBy(s, old, new) # Moved(s, old, new)
  <1> DEFINE s == Prefix(old) \o name
             p == Prefix(old)
             k == Bytes(Prefix(old))
  <1>1. p \in Text /\ Len(p) = Len(old) + 1  BY PrefixText
  <1>2. /\ s \in Text /\ Len(s) = Len(old) + 1 + Len(name) /\ Len(name) > 0
        /\ \A i \in 1..Len(old) + 1 : s[i] = p[i]
    <2>1. Len(name) \in Nat /\ Len(name) > 0  BY DEF Text
    <2> HIDE DEF p
    <2>2. s = p \o name  BY DEF p
    <2> HIDE DEF s
    <2>3. p \in Seq(Chars) /\ name \in Seq(Chars)  BY <1>1 DEF Text
    <2>4. /\ p \o name \in Seq(Chars) /\ Len(p \o name) = Len(p) + Len(name)
          /\ \A i \in 1..Len(p) + Len(name) :
                (p \o name)[i] = IF i <= Len(p) THEN p[i] ELSE name[i - Len(p)]
      BY <2>3, ConcatProperties
    <2>5. \A i \in 1..Len(p) : i \in 1..Len(p) + Len(name) /\ i <= Len(p)
      BY <1>1, <2>1 DEF Text
    <2>6. \A i \in 1..Len(p) : (p \o name)[i] = p[i]  BY <2>4, <2>5
    <2> QED  BY <1>1, <2>1, <2>2, <2>4, <2>6 DEF Text
  <1>3. Len(old) \in Nat /\ Len(name) \in Nat  BY DEF Text
  <1> HIDE DEF s, p
  <1>4. Len(old) < Len(s)  BY <1>2, <1>3
  <1>5. Under(s, old)
    BY <1>2, <1>4, UnderPoints DEF p
  <1>6. s # old  BY <1>5, NotUnderItself
  <1>7. Like(s, EscapeLike(p))
    BY <1>2, <1>4, LikePrefix DEF p
  <1>8. RenamedBy(s, old, new) = Prefix(new) \o SubSeq(s, k + 1, Len(s))
    BY <1>6, <1>7 DEF RenamedBy, UpdatePrefix, UpdateExact, SubStr, p
  <1>9. Moved(s, old, new) = Prefix(new) \o SubSeq(s, Len(old) + 2, Len(s))
    BY <1>2, <1>5, MovedUnder
  <1> DEFINE short == SubSeq(s, k + 1, Len(s))
             long  == SubSeq(s, Len(old) + 2, Len(s))
  <1>10. Prefix(new) \in Text  BY PrefixText
  <1>11. long \in Text /\ Len(long) = Len(name)
    BY <1>2, <1>3 DEF Text
  <1>12. k \in Nat /\ k > Len(old) + 1  BY <1>1, BytesWide DEF p
  <1> HIDE DEF k
  <1>13. short \in Text /\ Len(short) < Len(name)
    BY <1>2, <1>3, <1>12 DEF Text
  <1> HIDE DEF short, long
  <1>14. Len(Prefix(new) \o short) # Len(Prefix(new) \o long)
    BY <1>3, <1>10, <1>11, <1>13 DEF Text
  <1>15. RenamedBy(s, old, new) # Moved(s, old, new)
    BY <1>8, <1>9, <1>14 DEF short, long, k
  <1> QED  BY <1>5, <1>15 DEF s
-----------------------------------------------------------------------------
(***************************************************************************)
(* Paths character by character.                                           *)
(***************************************************************************)
LEMMA SameText ==
    ASSUME NEW s \in Text, NEW t \in Text, Len(s) = Len(t), \A i \in 1..Len(s) : s[i] = t[i]
    PROVE  s = t
  BY DEF Text

LEMMA WithinPoints ==
    ASSUME NEW s \in Text, NEW dir \in Text
    PROVE  Within(s, dir) <=>
           /\ Len(dir) <= Len(s)
           /\ \A i \in 1..Len(dir) : s[i] = dir[i]
           /\ Len(dir) < Len(s) => s[Len(dir) + 1] = Slash
  <1>1. Len(s) \in Nat /\ Len(dir) \in Nat  BY DEF Text
  <1>2. CASE Len(dir) < Len(s)
    <2>1. Within(s, dir) <=> Under(s, dir)  BY <1>1, <1>2 DEF Within
    <2>2. Under(s, dir) <=> \A i \in 1..Len(dir) + 1 : s[i] = Prefix(dir)[i]
      BY <1>2, UnderPoints
    <2>3. /\ \A i \in 1..Len(dir) : Prefix(dir)[i] = dir[i]
          /\ Prefix(dir)[Len(dir) + 1] = Slash
      BY PrefixText
    <2>4. \A i \in 1..Len(dir) + 1 : i \in 1..Len(dir) \/ i = Len(dir) + 1  BY <1>1
    <2>5. 1..Len(dir) \subseteq 1..Len(dir) + 1 /\ Len(dir) + 1 \in 1..Len(dir) + 1  BY <1>1
    <2>6. (\A i \in 1..Len(dir) + 1 : s[i] = Prefix(dir)[i]) <=>
             (\A i \in 1..Len(dir) : s[i] = dir[i]) /\ s[Len(dir) + 1] = Slash
      BY <2>3, <2>4, <2>5
    <2> QED  BY <1>1, <1>2, <2>1, <2>2, <2>6
  <1>3. CASE ~ Len(dir) < Len(s)
    <2>1. Within(s, dir) <=> s = dir  BY <1>3 DEF Within, Under
    <2>2. s = dir <=> Len(s) = Len(dir) /\ \A i \in 1..Len(s) : s[i] = dir[i]
      BY SameText
    <2> QED  BY <1>1, <1>3, <2>1, <2>2
  <1> QED  BY <1>2, <1>3

\* Of two folders that hold the same path one holds the other.
LEMMA WithinComparable ==
    ASSUME NEW s \in Text, NEW x \in Text, NEW y \in Text, Within(s, x), Within(s, y)
    PROVE  Within(x, y) \/ Within(y, x)
  <1>1. Len(s) \in Nat /\ Len(x) \in Nat /\ Len(y) \in Nat  BY DEF Text
  <1>2. /\ Len(x) <= Len(s) /\ Len(y) <= Len(s)
        /\ \A i \in 1..Len(x) : s[i] = x[i]
        /\ \A i \in 1..Len(y) : s[i] = y[i]
        /\ Len(x) < Len(s) => s[Len(x) + 1] = Slash
        /\ Len(y) < Len(s) => s[Len(y) + 1] = Slash
    BY WithinPoints
  <1>3. CASE Len(x) <= Len(y)
    <2>1. \A i \in 1..Len(x) : y[i] = x[i]  BY <1>1, <1>2, <1>3
    <2>2. Len(x) < Len(y) => y[Len(x) + 1] = Slash  BY <1>1, <1>2
    <2> QED  BY <1>3, <2>1, <2>2, WithinPoints
  <1>4. CASE Len(y) <= Len(x)
    <2>1. \A i \in 1..Len(y) : x[i] = y[i]  BY <1>1, <1>2, <1>4
    <2>2. Len(y) < Len(x) => x[Len(y) + 1] = Slash  BY <1>1, <1>2
    <2> QED  BY <1>4, <2>1, <2>2, WithinPoints
  <1> QED  BY <1>1, <1>3, <1>4

LEMMA WithinTrans ==
    ASSUME NEW s \in Text, NEW x \in Text, NEW y \in Text, Within(s, x), Within(x, y)
    PROVE  Within(s, y)
  <1>1. Len(s) \in Nat /\ Len(x) \in Nat /\ Len(y) \in Nat  BY DEF Text
  <1>2. /\ Len(x) <= Len(s) /\ Len(y) <= Len(x)
        /\ \A i \in 1..Len(x) : s[i] = x[i]
        /\ \A i \in 1..Len(y) : x[i] = y[i]
        /\ Len(x) < Len(s) => s[Len(x) + 1] = Slash
        /\ Len(y) < Len(x) => x[Len(y) + 1] = Slash
    BY WithinPoints
  <1>3. \A i \in 1..Len(y) : s[i] = y[i]  BY <1>1, <1>2
  <1>4. Len(y) < Len(s) => s[Len(y) + 1] = Slash  BY <1>1, <1>2
  <1> QED  BY <1>1, <1>2, <1>3, <1>4, WithinPoints

\* What is in a folder that a request may name is no name for the root.
LEMMA WithinNamed ==
    ASSUME NEW s \in Text, NEW dir \in Text, dir # Root, dir # <<Dot>>, Within(Resolve(s), dir)
    PROVE  Resolve(s) = s /\ s # Root
  <1>1. Len(dir) \in Nat /\ Len(dir) > 0  BY DEF Root, Text
  <1>2. Root \in Text /\ Len(Root) = 0  BY DEF Root, Text
  <1>3. ~ Within(Root, dir)  BY <1>1, <1>2, WithinPoints
  <1> QED  BY <1>3 DEF Resolve

LEMMA WithinNotDot ==
    ASSUME NEW s \in Text, NEW dir \in Text, dir # Root, dir # <<Dot>>, Within(s, dir)
    PROVE  Resolve(s) = s /\ s # Root
  <1>1. Len(dir) \in Nat /\ Len(dir) > 0  BY DEF Root, Text
  <1>2. CASE s = <<Dot>>
    <2>1. Len(s) = 1 /\ s[1] = Dot  BY <1>2
    <2>2. Len(dir) = 1 /\ dir[1] = Dot  BY <1>1, <2>1, WithinPoints
    <2>3. dir = s  BY <2>1, <2>2, SameText
    <2> QED  BY <1>2, <2>3
  <1>3. CASE s # <<Dot>>
    <2>1. Resolve(s) = s  BY <1>3 DEF Resolve
    <2> QED  BY <2>1, WithinNamed
  <1> QED  BY <1>2, <1>3

\* m is new and then what s has after old.
Follows(m, new, s, old) ==
    /\ m \in Text
    /\ Len(m) = Len(new) + (Len(s) - Len(old))
    /\ \A i \in 1..Len(new) : m[i] = new[i]
    /\ \A i \in 1..(Len(s) - Len(old)) : m[Len(new) + i] = s[Len(old) + i]

LEMMA MovedPoints ==
    ASSUME NEW s \in Text, NEW old \in Text, NEW new \in Text, Within(s, old)
    PROVE  Follows(Moved(s, old, new), new, s, old)
  <1> DEFINE rest == SubSeq(s, Len(old) + 1, Len(s))
             m    == Moved(s, old, new)
  <1>1. Len(s) \in Nat /\ Len(old) \in Nat /\ Len(new) \in Nat /\ Len(old) <= Len(s)
    BY WithinPoints DEF Text
  <1>2. /\ rest \in Seq(Chars) /\ Len(rest) = Len(s) - Len(old)
        /\ \A i \in 1..(Len(s) - Len(old)) : rest[i] = s[Len(old) + i]
    BY <1>1 DEF Text
  <1>3. m = new \o rest  BY DEF Moved
  <1> HIDE DEF rest, m
  <1>4. /\ m \in Seq(Chars) /\ Len(m) = Len(new) + Len(rest)
        /\ \A i \in 1..Len(new) + Len(rest) :
              m[i] = IF i <= Len(new) THEN new[i] ELSE rest[i - Len(new)]
    BY <1>2, <1>3, ConcatProperties DEF Text
  <1>5. ASSUME NEW i \in 1..Len(new) PROVE m[i] = new[i]
    <2>1. i \in 1..Len(new) + Len(rest) /\ i <= Len(new)  BY <1>1, <1>2
    <2> QED  BY <1>4, <2>1
  <1>6. ASSUME NEW i \in 1..(Len(s) - Len(old)) PROVE m[Len(new) + i] = s[Len(old) + i]
    <2>1. /\ Len(new) + i \in 1..Len(new) + Len(rest)
          /\ ~ (Len(new) + i <= Len(new)) /\ (Len(new) + i) - Len(new) = i
      BY <1>1, <1>2
    <2>2. m[Len(new) + i] = rest[i]  BY <1>4, <2>1
    <2> QED  BY <1>2, <2>2
  <1>7. m \in Text /\ Len(m) = Len(new) + (Len(s) - Len(old))  BY <1>2, <1>4 DEF Text
  <1> QED  BY <1>5, <1>6, <1>7 DEF m, Follows

\* A rename moves what is in the old folder into the new one.
LEMMA MovedWithin ==
    ASSUME NEW s \in Text, NEW old \in Text, NEW new \in Text, Within(s, old)
    PROVE  Moved(s, old, new) \in Text /\ Within(Moved(s, old, new), new)
  <1> DEFINE m == Moved(s, old, new)
  <1>1. Len(s) \in Nat /\ Len(old) \in Nat /\ Len(new) \in Nat /\ Len(old) <= Len(s)
    BY WithinPoints DEF Text
  <1>2. /\ m \in Text
        /\ Len(m) = Len(new) + (Len(s) - Len(old))
        /\ \A i \in 1..Len(new) : m[i] = new[i]
        /\ \A i \in 1..(Len(s) - Len(old)) : m[Len(new) + i] = s[Len(old) + i]
    BY MovedPoints DEF Follows
  <1> HIDE DEF m
  <1>3. Len(new) < Len(m) => m[Len(new) + 1] = Slash
    <2> SUFFICES ASSUME Len(new) < Len(m) PROVE m[Len(new) + 1] = Slash
      OBVIOUS
    <2>1. 1 \in 1..(Len(s) - Len(old)) /\ Len(old) < Len(s)  BY <1>1, <1>2
    <2>2. s[Len(old) + 1] = Slash  BY <2>1, WithinPoints
    <2> QED  BY <1>2, <2>1, <2>2
  <1>4. Within(m, new)  BY <1>1, <1>2, <1>3, WithinPoints
  <1> QED  BY <1>2, <1>4 DEF m

\* The rename back undoes a rename.
LEMMA MovedBack ==
    ASSUME NEW s \in Text, NEW old \in Text, NEW new \in Text, Within(s, old)
    PROVE  Moved(Moved(s, old, new), new, old) = s
  <1> DEFINE m == Moved(s, old, new)
             b == Moved(m, new, old)
  <1>1. Len(s) \in Nat /\ Len(old) \in Nat /\ Len(new) \in Nat /\ Len(old) <= Len(s)
    BY WithinPoints DEF Text
  <1>2. /\ m \in Text /\ Within(m, new)
        /\ Len(m) = Len(new) + (Len(s) - Len(old))
        /\ \A i \in 1..(Len(s) - Len(old)) : m[Len(new) + i] = s[Len(old) + i]
    BY MovedPoints, MovedWithin DEF Follows
  <1> HIDE DEF m
  <1>3. /\ b \in Text
        /\ Len(b) = Len(old) + (Len(m) - Len(new))
        /\ \A i \in 1..Len(old) : b[i] = old[i]
        /\ \A i \in 1..(Len(m) - Len(new)) : b[Len(old) + i] = m[Len(new) + i]
    <2>1. Follows(b, old, m, new)  BY <1>2, MovedPoints
    <2> QED  BY <2>1 DEF Follows
  <1> HIDE DEF b
  <1>4. Len(b) = Len(s)  BY <1>1, <1>2, <1>3
  <1>5. ASSUME NEW i \in 1..Len(s) PROVE b[i] = s[i]
    <2>1. CASE i <= Len(old)
      <3>1. i \in 1..Len(old)  BY <1>1, <2>1
      <3>2. s[i] = old[i]  BY <3>1, WithinPoints
      <3> QED  BY <1>3, <3>1, <3>2
    <2>2. CASE ~ (i <= Len(old))
      <3> DEFINE j == i - Len(old)
      <3>1. j \in 1..(Len(s) - Len(old)) /\ i = Len(old) + j /\ Len(m) - Len(new) = Len(s) - Len(old)
        BY <1>1, <1>2, <2>2
      <3> HIDE DEF j
      <3>2. b[Len(old) + j] = m[Len(new) + j] /\ m[Len(new) + j] = s[Len(old) + j]
        BY <1>2, <1>3, <3>1
      <3> QED  BY <3>1, <3>2
    <2> QED  BY <2>1, <2>2
  <1>6. b = s  BY <1>2, <1>3, <1>4, <1>5, SameText
  <1> QED  BY <1>6 DEF b, m

-----------------------------------------------------------------------------
(***************************************************************************)
(* The directory of a path.  The path that UpdateFolder renames to is not  *)
(* below the old one.                                                      *)
(***************************************************************************)
LEMMA LeastNatural ==
    ASSUME NEW S \in SUBSET Nat, S # {}
    PROVE  \E x \in S : \A y \in S : x <= y
  <1>1. IsWellFoundedOn(OpToRel(<, Nat), Nat)  BY NatLessThanWellFounded
  <1>2. PICK x \in S : \A y \in S : ~ (<<y, x>> \in OpToRel(<, Nat))
    BY <1>1, WFMin
  <1>3. \A y \in S : ~ (y < x)
    BY <1>2, Zenon DEF OpToRel
  <1> QED  BY <1>3

LEMMA LastSlashMax ==
    ASSUME NEW p \in Text
    PROVE  /\ LastSlash(p) \in 0..Len(p)
           /\ LastSlash(p) # 0 => p[LastSlash(p)] = Slash
           /\ \A i \in 1..Len(p) : p[i] = Slash => i <= LastSlash(p)
  <1> DEFINE S == {0} \cup {i \in 1..Len(p) : p[i] = Slash}
             T == {n \in Nat : Len(p) - n \in S}
  <1>1. Len(p) \in Nat /\ S \subseteq 0..Len(p)  BY DEF Text
  <1>2. T \in SUBSET Nat /\ Len(p) \in T  BY <1>1
  <1>3. \A i \in S : i = 0 \/ p[i] = Slash  OBVIOUS
  <1>4. \A i \in 1..Len(p) : p[i] = Slash => i \in S  OBVIOUS
  <1> HIDE DEF S
  <1>5. PICK t \in T : \A u \in T : t <= u  BY <1>2, LeastNatural
  <1>6. \A y \in S : y \in Nat /\ Len(p) - y \in T /\ Len(p) - t >= y
    <2> TAKE y \in S
    <2>1. y \in Nat /\ Len(p) - y \in Nat /\ Len(p) - (Len(p) - y) = y  BY <1>1
    <2>2. Len(p) - y \in T  BY <2>1
    <2>3. t <= Len(p) - y  BY <1>5, <2>2
    <2> QED  BY <1>1, <2>1, <2>2, <2>3
  <1>7. \E x \in S : \A y \in S : x >= y  BY <1>5, <1>6
  <1>8. Max(S) \in S /\ \A y \in S : Max(S) >= y  BY <1>7 DEF Max
  <1>9. LastSlash(p) = Max(S)  BY DEF LastSlash, S
  <1> QED  BY <1>1, <1>3, <1>4, <1>8, <1>9

LEMMA DirShorter ==
    ASSUME NEW p \in Text
    PROVE  /\ Dir(p) \in Text
           /\ Dir(p) # Root => Len(Dir(p)) < Len(p)
  <1>1. LastSlash(p) \in 0..Len(p) /\ Len(p) \in Nat  BY LastSlashMax DEF Text
  <1>2. CASE LastSlash(p) = 0  BY <1>2 DEF Dir, Root, Text
  <1>3. CASE LastSlash(p) # 0
    <2>1. Dir(p) = SubSeq(p, 1, LastSlash(p) - 1)  BY <1>3 DEF Dir
    <2>2. Dir(p) \in Text /\ Len(Dir(p)) = LastSlash(p) - 1
      BY <1>1, <1>3, <2>1 DEF Text
    <2> QED  BY <1>1, <2>2
  <1> QED  BY <1>2, <1>3

LEMMA InDirText ==
    ASSUME NEW d \in Text, NEW n \in Text
    PROVE  /\ InDir(d, n) \in Text
           /\ d # Root => /\ Len(InDir(d, n)) = Len(d) + 1 + Len(n)
                          /\ \A i \in 1..Len(n) : InDir(d, n)[Len(d) + 1 + i] = n[i]
  <1>1. CASE d = Root  BY <1>1 DEF InDir
  <1>2. CASE d # Root
    <2> DEFINE p == Prefix(d)
    <2>1. p \in Text /\ Len(p) = Len(d) + 1  BY PrefixText
    <2>2. InDir(d, n) = p \o n  BY <1>2 DEF InDir, Prefix
    <2> HIDE DEF p
    <2>3. p \in Seq(Chars) /\ n \in Seq(Chars) /\ Len(d) \in Nat /\ Len(n) \in Nat
      BY <2>1 DEF Text
    <2>4. /\ p \o n \in Seq(Chars) /\ Len(p \o n) = Len(p) + Len(n)
          /\ \A i \in 1..Len(p) + Len(n) :
                (p \o n)[i] = IF i <= Len(p) THEN p[i] ELSE n[i - Len(p)]
      BY <2>3, ConcatProperties
    <2>5. ASSUME NEW i \in 1..Len(n) PROVE (p \o n)[Len(d) + 1 + i] = n[i]
      <3>1. /\ Len(d) + 1 + i \in 1..Len(p) + Len(n)
            /\ ~ (Len(d) + 1 + i <= Len(p)) /\ (Len(d) + 1 + i) - Len(p) = i
        BY <2>1, <2>3
      <3> QED  BY <2>4, <3>1
    <2> QED  BY <1>2, <2>1, <2>2, <2>3, <2>4, <2>5 DEF Text
  <1> QED  BY <1>1, <1>2

LEMMA TargetNotUnder ==
    ASSUME NEW p \in Text, p # Root, NEW n \in Text, ValidateName(n)
    PROVE  ~ Under(InDir(Dir(p), n), p)
  <1> DEFINE d == Dir(p)
             t == InDir(Dir(p), n)
             k == Len(p) + 1
  <1>1. \A i \in 1..Len(n) : n[i] # Slash  BY DEF ValidateName, Occurs
  <1>2. d \in Text /\ (d # Root => Len(d) < Len(p))  BY DirShorter
  <1>3. t \in Text  BY <1>2, InDirText
  <1>4. Len(p) \in Nat /\ Len(p) > 0 /\ Len(n) \in Nat /\ Len(d) \in Nat
    BY <1>2 DEF Text, Root
  <1> SUFFICES ASSUME Under(t, p) PROVE FALSE
    OBVIOUS
  <1>5. Len(p) < Len(t) /\ t[k] = Slash
    <2>1. k \in 1..Len(p) + 1  BY <1>4
    <2> QED  BY <1>3, <2>1, UnderPoints, PrefixText
  <1>6. CASE d = Root
    <2>1. t = n  BY <1>6 DEF InDir
    <2>2. k \in 1..Len(n)  BY <1>4, <1>5, <2>1
    <2> QED  BY <1>1, <1>5, <2>1, <2>2
  <1>7. CASE d # Root
    <2> DEFINE i == k - (Len(d) + 1)
    <2>1. Len(t) = Len(d) + 1 + Len(n)
      BY <1>2, <1>7, InDirText
    <2>2. \A j \in 1..Len(n) : t[Len(d) + 1 + j] = n[j]
      BY <1>2, <1>7, InDirText
    <2> HIDE DEF t, d
    <2>3. i \in 1..Len(n) /\ Len(d) + 1 + i = k
      BY <1>2, <1>4, <1>5, <1>7, <2>1
    <2>4. t[k] = n[i]  BY <2>2, <2>3
    <2> QED  BY <1>1, <1>5, <2>3, <2>4
  <1> QED  BY <1>6, <1>7

LEMMA LastSlashIs ==
    ASSUME NEW p \in Text, NEW k \in 0..Len(p), k # 0 => p[k] = Slash,
           \A i \in 1..Len(p) : p[i] = Slash => i <= k
    PROVE  LastSlash(p) = k
  <1>1. Len(p) \in Nat  BY DEF Text
  <1>2. /\ LastSlash(p) \in 0..Len(p)
        /\ LastSlash(p) # 0 => p[LastSlash(p)] = Slash
        /\ \A i \in 1..Len(p) : p[i] = Slash => i <= LastSlash(p)
    BY LastSlashMax
  <1>3. k <= LastSlash(p)  BY <1>1, <1>2
  <1>4. LastSlash(p) <= k  BY <1>1, <1>2
  <1> QED  BY <1>1, <1>2, <1>3, <1>4

LEMMA DirPoints ==
    ASSUME NEW p \in Text, LastSlash(p) # 0
    PROVE  /\ Dir(p) \in Text /\ Len(Dir(p)) = LastSlash(p) - 1
           /\ \A i \in 1..(LastSlash(p) - 1) : Dir(p)[i] = p[i]
  <1>1. LastSlash(p) \in 1..Len(p) /\ Len(p) \in Nat  BY LastSlashMax DEF Text
  <1>2. Dir(p) = SubSeq(p, 1, LastSlash(p) - 1)  BY DEF Dir
  <1> QED  BY <1>1, <1>2 DEF Text

\* A path below a folder has its directory in the folder, and the other way
\* round.
LEMMA DirWithin ==
    ASSUME NEW p \in Text, NEW d \in Text, Under(p, d)
    PROVE  /\ LastSlash(p) \in Len(d) + 1 .. Len(p)
           /\ Dir(p) \in Text /\ Within(Dir(p), d)
  <1>1. Len(p) \in Nat /\ Len(d) \in Nat  BY DEF Text
  <1>2. /\ Len(d) < Len(p) /\ p[Len(d) + 1] = Slash
        /\ \A i \in 1..Len(d) : p[i] = d[i]
    <2>1. Len(d) < Len(p) /\ Within(p, d)  BY DEF Under, Within
    <2> QED  BY <2>1, WithinPoints
  <1>3. LastSlash(p) \in Len(d) + 1 .. Len(p)  BY <1>1, <1>2, LastSlashMax
  <1>4. /\ Dir(p) \in Text /\ Len(Dir(p)) = LastSlash(p) - 1
        /\ \A i \in 1..(LastSlash(p) - 1) : Dir(p)[i] = p[i]
    BY <1>1, <1>3, DirPoints
  <1>5. \A i \in 1..Len(d) : Dir(p)[i] = d[i]  BY <1>1, <1>2, <1>3, <1>4
  <1>6. Len(d) < Len(Dir(p)) => Dir(p)[Len(d) + 1] = Slash
    BY <1>1, <1>2, <1>3, <1>4
  <1>7. Within(Dir(p), d)  BY <1>1, <1>3, <1>4, <1>5, <1>6, WithinPoints
  <1> QED  BY <1>3, <1>4, <1>7

LEMMA WithinDir ==
    ASSUME NEW p \in Text, NEW d \in Text, d # Root, Within(Dir(p), d)
    PROVE  Under(p, d)
  <1>1. Len(p) \in Nat /\ Len(d) \in Nat /\ Len(d) > 0  BY DEF Text, Root
  <1>2. Dir(p) \in Text  BY DirShorter
  <1>3. /\ Len(d) <= Len(Dir(p)) /\ \A i \in 1..Len(d) : Dir(p)[i] = d[i]
        /\ Len(d) < Len(Dir(p)) => Dir(p)[Len(d) + 1] = Slash
    BY <1>2, WithinPoints
  <1>4. LastSlash(p) # 0  BY <1>1, <1>3 DEF Dir, Root
  <1>5. /\ LastSlash(p) \in 1..Len(p) /\ p[LastSlash(p)] = Slash
        /\ Len(Dir(p)) = LastSlash(p) - 1
        /\ \A i \in 1..(LastSlash(p) - 1) : Dir(p)[i] = p[i]
    BY <1>1, <1>4, LastSlashMax, DirPoints
  <1>6. \A i \in 1..Len(d) : p[i] = d[i]  BY <1>1, <1>3, <1>5
  <1>7. p[Len(d) + 1] = Slash
    <2>1. CASE Len(d) = Len(Dir(p))  BY <1>1, <1>5, <2>1
    <2>2. CASE Len(d) < Len(Dir(p))  BY <1>1, <1>3, <1>5, <2>2
    <2> QED  BY <1>1, <1>3, <1>5, <2>1, <2>2
  <1>8. Len(d) < Len(p)  BY <1>1, <1>3, <1>5
  <1>9. Within(p, d)  BY <1>1, <1>6, <1>7, <1>8, WithinPoints
  <1> QED  BY <1>1, <1>8, <1>9 DEF Within

\* A rename keeps what is in which directory.
LEMMA DirMoved ==
    ASSUME NEW p \in Text, NEW old \in Text, NEW new \in Text, Under(p, old)
    PROVE  Dir(Moved(p, old, new)) = Moved(Dir(p), old, new)
  <1> DEFINE t == Moved(p, old, new)
             k == Len(new) + (LastSlash(p) - Len(old))
             d == Dir(p)
             q == Moved(d, old, new)
  <1>1. Len(p) \in Nat /\ Len(old) \in Nat /\ Len(new) \in Nat  BY DEF Text
  <1>2. LastSlash(p) \in Len(old) + 1 .. Len(p) /\ d \in Text /\ Within(d, old)
    BY DirWithin
  <1>3. /\ p[LastSlash(p)] = Slash
        /\ \A i \in 1..Len(p) : p[i] = Slash => i <= LastSlash(p)
        /\ Len(d) = LastSlash(p) - 1
        /\ \A i \in 1..(LastSlash(p) - 1) : d[i] = p[i]
    BY <1>1, <1>2, LastSlashMax, DirPoints
  <1>4. Within(p, old)  BY DEF Within
  <1> HIDE DEF d
  <1>5. /\ t \in Text /\ Len(t) = Len(new) + (Len(p) - Len(old))
        /\ \A i \in 1..Len(new) : t[i] = new[i]
        /\ \A i \in 1..(Len(p) - Len(old)) : t[Len(new) + i] = p[Len(old) + i]
    <2>1. Follows(t, new, p, old)  BY <1>4, MovedPoints
    <2> QED  BY <2>1 DEF Follows
  <1>6. /\ q \in Text /\ Len(q) = Len(new) + (Len(d) - Len(old))
        /\ \A i \in 1..Len(new) : q[i] = new[i]
        /\ \A i \in 1..(Len(d) - Len(old)) : q[Len(new) + i] = d[Len(old) + i]
    <2>1. Follows(q, new, d, old)  BY <1>2, MovedPoints
    <2> QED  BY <2>1 DEF Follows
  <1> HIDE DEF t, q
  <1>7. LastSlash(t) = k
    <2>1. k \in 0..Len(t) /\ k # 0  BY <1>1, <1>2, <1>5
    <2>2. t[k] = Slash
      <3>1. LastSlash(p) - Len(old) \in 1..(Len(p) - Len(old))  BY <1>1, <1>2
      <3>2. Len(old) + (LastSlash(p) - Len(old)) = LastSlash(p)  BY <1>1, <1>2
      <3> QED  BY <1>3, <1>5, <3>1, <3>2
    <2>3. ASSUME NEW i \in 1..Len(t), t[i] = Slash PROVE i <= k
      <3>1. CASE i <= Len(new)  BY <1>1, <1>2, <3>1
      <3>2. CASE ~ (i <= Len(new))
        <4> DEFINE j == i - Len(new)
        <4>1. j \in 1..(Len(p) - Len(old)) /\ i = Len(new) + j  BY <1>1, <1>5, <3>2
        <4> HIDE DEF j
        <4>2. p[Len(old) + j] = Slash  BY <1>5, <2>3, <4>1
        <4>3. Len(old) + j \in 1..Len(p)  BY <1>1, <4>1
        <4>4. Len(old) + j <= LastSlash(p)  BY <1>3, <4>2, <4>3
        <4> QED  BY <1>1, <1>2, <4>1, <4>4
      <3> QED  BY <3>1, <3>2
    <2>4. t \in Text  BY <1>5
    <2> HIDE DEF k
    <2> QED  BY <2>1, <2>2, <2>3, <2>4, LastSlashIs
  <1>8. /\ Dir(t) \in Text /\ Len(Dir(t)) = k - 1
        /\ \A i \in 1..(k - 1) : Dir(t)[i] = t[i]
    <2>1. k # 0  BY <1>1, <1>2
    <2> QED  BY <1>5, <1>7, <2>1, DirPoints
  <1>9. Len(q) = k - 1  BY <1>1, <1>2, <1>3, <1>6
  <1>10. ASSUME NEW i \in 1..(k - 1) PROVE Dir(t)[i] = q[i]
    <2>1. Dir(t)[i] = t[i]  BY <1>8
    <2>2. CASE i <= Len(new)
      <3>1. i \in 1..Len(new)  BY <1>1, <1>2, <2>2
      <3> QED  BY <1>5, <1>6, <2>1, <3>1
    <2>3. CASE ~ (i <= Len(new))
      <3> DEFINE j == i - Len(new)
      <3>1. /\ j \in 1..(Len(d) - Len(old)) /\ j \in 1..(Len(p) - Len(old))
            /\ i = Len(new) + j /\ Len(old) + j \in 1..(LastSlash(p) - 1)
        <4>1. i \in Nat /\ i > Len(new) /\ i < k  BY <1>1, <1>2, <2>3
        <4>2. j \in Nat /\ j > 0 /\ Len(old) + j < LastSlash(p) /\ i = Len(new) + j
          BY <1>1, <1>2, <4>1
        <4>3. LastSlash(p) \in Nat /\ LastSlash(p) <= Len(p) /\ Len(d) = LastSlash(p) - 1
          BY <1>1, <1>2, <1>3
        <4> HIDE DEF j, k
        <4> QED  BY <1>1, <4>2, <4>3
      <3> HIDE DEF j
      <3>2. t[i] = p[Len(old) + j]  BY <1>5, <3>1
      <3>3. q[i] = d[Len(old) + j]  BY <1>6, <3>1
      <3>4. d[Len(old) + j] = p[Len(old) + j]  BY <1>3, <3>1
      <3> QED  BY <2>1, <3>2, <3>3, <3>4
    <2>4. i \in Int /\ Len(new) \in Int  BY <1>1, <1>2
    <2> HIDE DEF t, q, k
    <2> QED  BY <2>2, <2>3
  <1>11. Dir(t) = q  BY <1>6, <1>8, <1>9, <1>10, SameText
  <1> QED  BY <1>11 DEF t, q, d

LEMMA InDirFront ==
    ASSUME NEW d \in Text, d # Root, NEW n \in Text, NEW i \in 1..Len(d) + 1
    PROVE  InDir(d, n)[i] = Prefix(d)[i]
  <1> DEFINE p == Prefix(d)
  <1>1. p \in Text /\ Len(p) = Len(d) + 1  BY PrefixText
  <1>2. InDir(d, n) = p \o n  BY DEF InDir, Prefix
  <1> HIDE DEF p
  <1>3. \A j \in 1..Len(p) + Len(n) : (p \o n)[j] = IF j <= Len(p) THEN p[j] ELSE n[j - Len(p)]
    BY <1>1, ConcatProperties DEF Text
  <1>4. Len(d) \in Nat /\ Len(n) \in Nat  BY DEF Text
  <1> QED  BY <1>1, <1>2, <1>3, <1>4 DEF p

\* The directory of a new name in a directory.
LEMMA DirInDir ==
    ASSUME NEW d \in Text, NEW n \in Text, n # <<>>, \A i \in 1..Len(n) : n[i] # Slash
    PROVE  Dir(InDir(d, n)) = d /\ InDir(d, n) # Root
  <1>1. Len(d) \in Nat /\ Len(n) \in Nat /\ Len(n) > 0  BY DEF Text
  <1>2. CASE d = Root
    <2>1. InDir(d, n) = n  BY <1>2 DEF InDir
    <2>2. LastSlash(n) = 0  BY <1>1, LastSlashIs
    <2> QED  BY <1>1, <1>2, <2>1, <2>2 DEF Dir, Root
  <1>3. CASE d # Root
    <2> DEFINE t == InDir(d, n)
    <2>1. /\ t \in Text /\ Len(t) = Len(d) + 1 + Len(n)
          /\ \A i \in 1..Len(n) : t[Len(d) + 1 + i] = n[i]
      BY <1>3, InDirText
    <2>2. \A i \in 1..Len(d) + 1 : t[i] = Prefix(d)[i]  BY <1>3, InDirFront
    <2>3. t[Len(d) + 1] = Slash /\ \A i \in 1..Len(d) : t[i] = d[i]
      BY <1>1, <2>2, PrefixText
    <2> HIDE DEF t
    <2>4. LastSlash(t) = Len(d) + 1
      <3>1. ASSUME NEW i \in 1..Len(t), t[i] = Slash PROVE i <= Len(d) + 1
        <4> SUFFICES ASSUME ~ (i <= Len(d) + 1) PROVE FALSE
          BY <1>1
        <4> DEFINE j == i - (Len(d) + 1)
        <4>1. j \in 1..Len(n) /\ i = Len(d) + 1 + j  BY <1>1, <2>1
        <4> HIDE DEF j
        <4> QED  BY <2>1, <3>1, <4>1
      <3>2. Len(d) + 1 \in 0..Len(t)  BY <1>1, <2>1
      <3> QED  BY <1>1, <2>1, <2>3, <3>1, <3>2, LastSlashIs
    <2>5. /\ Dir(t) \in Text /\ Len(Dir(t)) = Len(d) /\ \A i \in 1..Len(d) : Dir(t)[i] = t[i]
      <3>1. LastSlash(t) # 0 /\ LastSlash(t) - 1 = Len(d)  BY <1>1, <2>4
      <3> QED  BY <2>1, <3>1, DirPoints
    <2>6. Dir(t) = d  BY <2>3, <2>5, SameText
    <2>7. t # Root  BY <1>1, <2>1 DEF Root
    <2> QED  BY <2>6, <2>7 DEF t
  <1> QED  BY <1>2, <1>3

\* A tree of directories that has a path below a folder has the folder.
LEMMA AncestorInTree ==
    ASSUME NEW D \in SUBSET Text, \A d \in D : Dir(d) = Root \/ Dir(d) \in D,
           NEW dir \in Text, dir # Root, NEW s \in D, Within(s, dir)
    PROVE  dir \in D
  <1> DEFINE T == {n \in Nat : \E d \in D : Within(d, dir) /\ Len(d) = n}
  <1>1. T \in SUBSET Nat /\ Len(s) \in T  BY DEF Text
  <1>2. PICK n \in T : \A m \in T : n <= m  BY <1>1, LeastNatural
  <1>3. PICK d \in D : Within(d, dir) /\ Len(d) = n  BY <1>2
  <1>4. CASE d = dir  BY <1>4
  <1>5. CASE Under(d, dir)
    <2>1. Dir(d) \in Text /\ Within(Dir(d), dir)  BY <1>5, DirWithin
    <2>2. Len(Dir(d)) \in Nat /\ Len(dir) \in Nat /\ Len(dir) > 0  BY <2>1 DEF Text, Root
    <2>3. Dir(d) # Root  BY <2>1, <2>2, WithinPoints DEF Root
    <2>4. Len(Dir(d)) < Len(d) /\ Dir(d) \in D  BY <2>3, DirShorter
    <2>5. Len(Dir(d)) \in T  BY <2>1, <2>2, <2>4
    <2> QED  BY <1>2, <1>3, <2>2, <2>4, <2>5
  <1> QED  BY <1>3, <1>4, <1>5 DEF Within

-----------------------------------------------------------------------------
(***************************************************************************)
(* Clean paths do not begin with a slash, and a path that does not is its  *)
(* directory with its last name behind it.                                 *)
(***************************************************************************)
LEMMA CleanHead ==
    ASSUME NEW p \in Text, CleanPath(p), p # Root
    PROVE  p[1] # Slash
  <1>1. Len(p) \in Nat /\ Len(p) > 0  BY DEF Text, Root
  <1>2. CASE p = <<Dot>>  BY <1>2, CharsAssumption
  <1>3. CASE Segments(p) \cap {<<>>, <<Dot>>, <<Dot, Dot>>} = {}
    <2> SUFFICES ASSUME p[1] = Slash PROVE FALSE
      OBVIOUS
    <2> DEFINE pairs == {c \in Cuts(p) \X Cuts(p) :
                           c[1] < c[2] /\ \A k \in Cuts(p) : k <= c[1] \/ c[2] <= k}
    <2>1. 0 \in Cuts(p) /\ 1 \in Cuts(p) /\ \A k \in Cuts(p) : k \in Nat
      BY <1>1 DEF Cuts
    <2>2. <<0, 1>> \in pairs  BY <2>1
    <2>3. Segments(p) = {SubSeq(p, cut[1] + 1, cut[2] - 1) : cut \in pairs}  BY DEF Segments
    <2> HIDE DEF pairs
    <2>4. SubSeq(p, 1, 0) \in Segments(p)
      <3>1. <<0, 1>>[1] + 1 = 1 /\ <<0, 1>>[2] - 1 = 0  OBVIOUS
      <3> QED  BY <2>2, <2>3, <3>1
    <2>5. SubSeq(p, 1, 0) = <<>>  BY DEF Text
    <2> QED  BY <1>3, <2>4, <2>5
  <1> QED  BY <1>2, <1>3 DEF CleanPath

LEMMA InDirHead ==
    ASSUME NEW d \in Text, d # Root => d[1] # Slash, NEW n \in Text, n # <<>>, n[1] # Slash
    PROVE  InDir(d, n)[1] # Slash
  <1>1. CASE d = Root  BY <1>1 DEF InDir
  <1>2. CASE d # Root
    <2>1. Len(d) \in Nat /\ Len(d) > 0  BY <1>2 DEF Text, Root
    <2>2. InDir(d, n)[1] = Prefix(d)[1]  BY <1>2, <2>1, InDirFront
    <2>3. Prefix(d)[1] = d[1]  BY <2>1, PrefixText
    <2> QED  BY <1>2, <2>2, <2>3
  <1> QED  BY <1>1, <1>2

LEMMA DirHead ==
    ASSUME NEW p \in Text, p[1] # Slash, Dir(p) # Root
    PROVE  Dir(p)[1] # Slash
  <1>1. LastSlash(p) \in 1..Len(p) /\ p[LastSlash(p)] = Slash /\ Len(p) \in Nat
    BY LastSlashMax DEF Dir, Text
  <1>2. LastSlash(p) # 1  BY <1>1
  <1> QED  BY <1>1, <1>2, DirPoints

LEMMA MovedHead ==
    ASSUME NEW s \in Text, s[1] # Slash, NEW old \in Text,
           NEW new \in Text, new # Root, new[1] # Slash
    PROVE  Moved(s, old, new)[1] # Slash
  <1>1. Len(new) \in Nat /\ Len(new) > 0  BY DEF Text, Root
  <1>2. CASE Within(s, old)
    <2>1. Follows(Moved(s, old, new), new, s, old)  BY <1>2, MovedPoints
    <2>2. 1 \in 1..Len(new)  BY <1>1
    <2>3. Moved(s, old, new)[1] = new[1]  BY <2>1, <2>2 DEF Follows
    <2> QED  BY <2>3
  <1>3. CASE ~ Within(s, old)  BY <1>3 DEF Moved
  <1> QED  BY <1>2, <1>3

LEMMA InDirBase ==
    ASSUME NEW d \in Text, d # Root, d[1] # Slash
    PROVE  Base(d) \in Text /\ InDir(Dir(d), Base(d)) = d
  <1> DEFINE k == LastSlash(d)
             b == Base(d)
             m == InDir(Dir(d), Base(d))
  <1>1. /\ Len(d) \in Nat /\ k \in 0..Len(d)
        /\ k # 0 => d[k] = Slash
    BY LastSlashMax DEF Text
  <1>2. b = SubSeq(d, k + 1, Len(d))  BY DEF Base
  <1> HIDE DEF b, k
  <1>3. /\ b \in Text /\ Len(b) = Len(d) - k
        /\ \A i \in 1..(Len(d) - k) : b[i] = d[k + i]
    BY <1>1, <1>2 DEF Text
  <1>4. CASE k = 0
    <2>1. Dir(d) = Root  BY <1>4 DEF Dir, k
    <2>2. InDir(Root, b) = b  BY DEF InDir
    <2>3. \A i \in 1..Len(d) : b[i] = d[i]  BY <1>1, <1>3, <1>4
    <2>4. b = d  BY <1>1, <1>3, <1>4, <2>3, SameText
    <2> QED  BY <1>3, <2>1, <2>2, <2>4 DEF b
  <1>5. CASE k # 0
    <2> DEFINE q == Dir(d)
    <2>1. q \in Text /\ Len(q) = k - 1 /\ \A i \in 1..(k - 1) : q[i] = d[i]
      BY <1>5, DirPoints DEF k
    <2>2. k # 1  BY <1>1, <1>5
    <2>3. q # Root  BY <1>1, <1>5, <2>1, <2>2 DEF Root
    <2> HIDE DEF q
    <2> DEFINE t == InDir(q, b)
    <2>4. /\ t \in Text /\ Len(t) = Len(q) + 1 + Len(b)
          /\ \A i \in 1..Len(b) : t[Len(q) + 1 + i] = b[i]
      BY <1>3, <2>1, <2>3, InDirText
    <2>5. \A i \in 1..Len(q) + 1 : t[i] = Prefix(q)[i]
      BY <1>3, <2>1, <2>3, InDirFront
    <2>6. /\ \A i \in 1..Len(q) : Prefix(q)[i] = q[i]
          /\ Prefix(q)[Len(q) + 1] = Slash
      BY <2>1, PrefixText
    <2> HIDE DEF t
    <2>7. Len(t) = Len(d)  BY <1>1, <1>3, <2>1, <2>4
    <2>8. ASSUME NEW i \in 1..Len(t) PROVE t[i] = d[i]
      <3>1. CASE i < k
        <4>1. i \in 1..(k - 1) /\ i \in 1..Len(q) /\ i \in 1..Len(q) + 1
          BY <1>1, <2>1, <2>7, <3>1
        <4> QED  BY <2>1, <2>5, <2>6, <4>1
      <3>2. CASE i = k
        <4>1. i = Len(q) + 1 /\ i \in 1..Len(q) + 1  BY <1>1, <1>5, <2>1, <3>2
        <4> QED  BY <1>1, <1>5, <2>5, <2>6, <3>2, <4>1
      <3>3. CASE i > k
        <4> DEFINE j == i - k
        <4>1. j \in 1..Len(b) /\ j \in 1..(Len(d) - k) /\ i = Len(q) + 1 + j /\ i = k + j
          BY <1>1, <1>3, <2>1, <2>7, <3>3
        <4> HIDE DEF j
        <4>2. t[i] = b[j] /\ b[j] = d[i]  BY <1>3, <2>4, <4>1
        <4> QED  BY <4>2
      <3> QED  BY <1>1, <2>7, <3>1, <3>2, <3>3
    <2>9. t = d  BY <2>4, <2>7, <2>8, SameText
    <2> QED  BY <1>3, <2>9 DEF t, q, b
  <1> QED  BY <1>4, <1>5

\* Different names in one directory are different paths.
LEMMA InDirSame ==
    ASSUME NEW d \in Text, NEW n \in Text, NEW m \in Text, InDir(d, n) = InDir(d, m)
    PROVE  n = m
  <1>1. CASE d = Root  BY <1>1 DEF InDir
  <1>2. CASE d # Root
    <2>1. /\ Len(InDir(d, n)) = Len(d) + 1 + Len(n)
          /\ \A i \in 1..Len(n) : InDir(d, n)[Len(d) + 1 + i] = n[i]
      BY <1>2, InDirText
    <2>2. /\ Len(InDir(d, n)) = Len(d) + 1 + Len(m)
          /\ \A i \in 1..Len(m) : InDir(d, n)[Len(d) + 1 + i] = m[i]
      BY <1>2, InDirText
    <2>3. Len(d) \in Nat /\ Len(n) \in Nat /\ Len(m) \in Nat  BY DEF Text
    <2>4. Len(n) = Len(m)  BY <2>1, <2>2, <2>3
    <2>5. \A i \in 1..Len(n) : n[i] = m[i]  BY <2>1, <2>2, <2>4
    <2> QED  BY <2>4, <2>5, SameText
  <1> QED  BY <1>1, <1>2
=============================================================================
