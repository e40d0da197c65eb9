-------------------------- MODULE FileClipboardProofs --------------------------
(* Proofs about FileClipboard.                                               *)
EXTENDS FileClipboard, NativeClipboardProofs, TLAPS

-------------------------------------------------------------------------------
(* Paths.                                                                    *)

\* The front of a sequence, element by element.
LEMMA FrontFacts ==
    ASSUME NEW D, NEW p \in Seq(D), NEW k \in 0 .. Len(p)
    PROVE  /\ SubSeq(p, 1, k) \in Seq(D) /\ Len(SubSeq(p, 1, k)) = k
           /\ \A i \in 1 .. k : SubSeq(p, 1, k)[i] = p[i]
<1>1. Len(p) \in Nat /\ \A i \in 1 .. Len(p) : p[i] \in D
  BY SeqValues
<1>2. k \in Nat /\ \A i \in 1 .. k : p[i] \in D
  BY <1>1
<1>3. /\ SubSeq(p, 1, k) \in Seq(D)
      /\ Len(SubSeq(p, 1, k)) = IF 1 <= k THEN k - 1 + 1 ELSE 0
      /\ \A i \in 1 .. k - 1 + 1 : SubSeq(p, 1, k)[i] = p[1 + i - 1]
  BY <1>2, SubSeqProperties
<1>4. k - 1 + 1 = k /\ (IF 1 <= k THEN k - 1 + 1 ELSE 0) = k /\ \A i \in 1 .. k : 1 + i - 1 = i
  BY <1>2
<1> QED BY <1>3, <1>4

\* The ancestors of a path are its proper fronts.
LEMMA AncestorFacts ==
    ASSUME NEW p \in Paths, NEW q \in Ancestors(p)
    PROVE  /\ q \in Paths /\ Len(q) \in 1 .. Len(p) - 1 /\ Len(p) \in Nat
           /\ q # p
           /\ \A i \in 1 .. Len(q) : q[i] = p[i]
<1>1. p \in Seq(FileNames) /\ Len(p) \in Nat
  BY PathIsNames, SeqValues
<1>2. PICK k \in 1 .. Len(p) - 1 : q = SubSeq(p, 1, k)
  BY DEF Ancestors
<1>3. k \in 0 .. Len(p)
  BY <1>1, <1>2
<1>4. q \in Seq(FileNames) /\ Len(q) = k /\ \A i \in 1 .. k : q[i] = p[i]
  BY <1>1, <1>2, <1>3, FrontFacts
<1>5. Len(<<>>) = 0
  OBVIOUS
<1>6. q \in Paths
  BY <1>2, <1>4, <1>5 DEF Paths
<1> QED BY <1>1, <1>2, <1>4, <1>6

\* A proper front is an ancestor.
LEMMA AncestorOf ==
    ASSUME NEW p \in Paths, NEW q \in Paths, Len(q) < Len(p), \A i \in 1 .. Len(q) : q[i] = p[i]
    PROVE  q \in Ancestors(p)
<1>1. p \in Seq(FileNames) /\ Len(p) \in Nat /\ q \in Seq(FileNames) /\ q # <<>> /\ Len(q) \in Nat
  BY PathIsNames, SeqValues
<1>2. Len(q) \in 1 .. Len(p) - 1 /\ Len(q) \in 0 .. Len(p)
  BY <1>1, EmptySeq
<1>3. SubSeq(p, 1, Len(q)) = q
  <2>1. /\ SubSeq(p, 1, Len(q)) \in Seq(FileNames) /\ Len(SubSeq(p, 1, Len(q))) = Len(q)
        /\ \A i \in 1 .. Len(q) : SubSeq(p, 1, Len(q))[i] = p[i]
    BY <1>1, <1>2, FrontFacts
  <2> QED BY <1>1, <2>1, SameSequence
<1> QED BY <1>2, <1>3 DEF Ancestors

LEMMA AncestorsOfAncestors ==
    ASSUME NEW p \in Paths, NEW q \in Ancestors(p), NEW r \in Ancestors(q)
    PROVE  r \in Ancestors(p)
<1>1. /\ q \in Paths /\ Len(q) \in 1 .. Len(p) - 1 /\ Len(p) \in Nat
      /\ \A i \in 1 .. Len(q) : q[i] = p[i]
  BY AncestorFacts
<1>2. r \in Paths /\ Len(r) \in 1 .. Len(q) - 1 /\ \A i \in 1 .. Len(r) : r[i] = q[i]
  BY <1>1, AncestorFacts
<1>3. Len(r) < Len(p) /\ \A i \in 1 .. Len(r) : r[i] = p[i]
  BY <1>1, <1>2
<1> QED BY <1>1, <1>2, <1>3, AncestorOf

LEMMA FiniteAncestors ==
    ASSUME NEW p \in Paths
    PROVE  IsFiniteSet(Ancestors(p))
<1>1. Len(p) \in Nat
  BY PathIsNames, SeqValues
<1> DEFINE f == [k \in 1 .. Len(p) - 1 |-> SubSeq(p, 1, k)]
<1>2. IsFiniteSet(1 .. Len(p) - 1)
  BY <1>1, FS_Interval
<1>3. DOMAIN f = 1 .. Len(p) - 1
  OBVIOUS
<1>4. Ancestors(p) = {f[k] : k \in 1 .. Len(p) - 1}
  BY DEF Ancestors
<1> HIDE DEF f
<1> QED BY <1>2, <1>3, <1>4, FiniteImage

LEMMA PrefixFacts ==
    ASSUME NEW p \in Paths, NEW q \in Paths, IsPrefix(p, q)
    PROVE  Len(p) \in 1 .. Len(q) /\ Len(q) \in Nat /\ \A i \in 1 .. Len(p) : q[i] = p[i]
<1>1. /\ p \in Seq(FileNames) /\ q \in Seq(FileNames) /\ Len(p) \in Nat /\ Len(q) \in Nat
      /\ Len(p) # 0 /\ Len(p) <= Len(q)
  BY PathIsNames, SeqValues, EmptySeq DEF IsPrefix
<1>2. Len(p) \in 0 .. Len(p) /\ Len(p) \in 0 .. Len(q) /\ Len(p) \in 1 .. Len(q)
  BY <1>1
<1>3. \A i \in 1 .. Len(p) : SubSeq(p, 1, Len(p))[i] = p[i]
  BY <1>1, <1>2, FrontFacts
<1>4. \A i \in 1 .. Len(p) : SubSeq(q, 1, Len(p))[i] = q[i]
  BY <1>1, <1>2, FrontFacts
<1>5. SubSeq(p, 1, Len(p)) = SubSeq(q, 1, Len(p))
  BY DEF IsPrefix
<1> QED BY <1>1, <1>2, <1>3, <1>4, <1>5

LEMMA PrefixOf ==
    ASSUME NEW p \in Paths, NEW q \in Paths, Len(p) <= Len(q), \A i \in 1 .. Len(p) : q[i] = p[i]
    PROVE  IsPrefix(p, q)
<1>1. /\ p \in Seq(FileNames) /\ q \in Seq(FileNames) /\ Len(p) \in Nat /\ Len(q) \in Nat
  BY PathIsNames, SeqValues
<1>2. SubSeq(p, 1, Len(p)) = SubSeq(q, 1, Len(p))
  BY <1>1
<1> QED BY <1>1, <1>2 DEF IsPrefix

LEMMA PrefixOfAncestor ==
    ASSUME NEW p \in Paths, NEW q \in Paths, NEW r \in Ancestors(q), IsPrefix(p, r)
    PROVE  IsPrefix(p, q)
<1>1. r \in Paths /\ Len(r) \in 1 .. Len(q) - 1 /\ Len(q) \in Nat /\ \A i \in 1 .. Len(r) : r[i] = q[i]
  BY AncestorFacts
<1>2. Len(p) \in 1 .. Len(r) /\ Len(r) \in Nat /\ \A i \in 1 .. Len(p) : r[i] = p[i]
  BY <1>1, PrefixFacts
<1>3. Len(p) <= Len(q) /\ \A i \in 1 .. Len(p) : q[i] = p[i]
  BY <1>1, <1>2
<1> QED BY <1>3, PrefixOf

\* Where a received file of the given name goes.
Dest(name) == ReceiveDir \o name

LEMMA DestFacts ==
    ASSUME ReceiveDir \in Paths, NEW name \in Paths
    PROVE  /\ Dest(name) \in Paths /\ ReceiveDir \in Ancestors(Dest(name))
           /\ Len(Dest(name)) = Len(ReceiveDir) + Len(name)
           /\ \A i \in 1 .. Len(ReceiveDir) : Dest(name)[i] = ReceiveDir[i]
           /\ \A i \in 1 .. Len(name) : Dest(name)[Len(ReceiveDir) + i] = name[i]
           /\ Len(ReceiveDir) \in Nat \ {0} /\ Len(name) \in Nat \ {0}
<1>1. /\ ReceiveDir \in Seq(FileNames) /\ name \in Seq(FileNames) /\ name # <<>> /\ ReceiveDir # <<>>
      /\ Len(ReceiveDir) \in Nat /\ Len(name) \in Nat
  BY PathIsNames, SeqValues
<1>2. Len(ReceiveDir) # 0 /\ Len(name) # 0
  BY <1>1, EmptySeq
<1>3. /\ Dest(name) \in Seq(FileNames)
      /\ Len(Dest(name)) = Len(ReceiveDir) + Len(name)
      /\ \A i \in 1 .. Len(ReceiveDir) : Dest(name)[i] = ReceiveDir[i]
      /\ \A i \in 1 .. Len(name) : Dest(name)[Len(ReceiveDir) + i] = name[i]
  BY <1>1, ConcatFacts DEF Dest
<1>4. Len(<<>>) = 0
  OBVIOUS
<1>5. Dest(name) \in Paths
  BY <1>1, <1>2, <1>3, <1>4 DEF Paths
<1>6. Len(ReceiveDir) < Len(Dest(name))
  BY <1>1, <1>2, <1>3
<1>7. ReceiveDir \in Ancestors(Dest(name))
  BY <1>3, <1>5, <1>6, AncestorOf
<1> QED BY <1>1, <1>2, <1>3, <1>5, <1>7

LEMMA DestInjective ==
    ASSUME ReceiveDir \in Paths, NEW a \in Paths, NEW b \in Paths, Dest(a) = Dest(b)
    PROVE  a = b
<1>1. a \in Seq(FileNames) /\ b \in Seq(FileNames)
  BY PathIsNames
<1>2. /\ Len(Dest(a)) = Len(ReceiveDir) + Len(a) /\ Len(Dest(b)) = Len(ReceiveDir) + Len(b)
      /\ Len(ReceiveDir) \in Nat /\ Len(a) \in Nat /\ Len(b) \in Nat
      /\ \A i \in 1 .. Len(a) : Dest(a)[Len(ReceiveDir) + i] = a[i]
      /\ \A i \in 1 .. Len(b) : Dest(b)[Len(ReceiveDir) + i] = b[i]
  BY DestFacts
<1>3. Len(a) = Len(b) /\ \A i \in 1 .. Len(a) : a[i] = b[i]
  BY <1>2
<1> QED BY <1>1, <1>3, SameSequence

-------------------------------------------------------------------------------
(* Disks.                                                                    *)

Values == Versions \cup {Torn}
Entries == [name : Paths, bytes : Values]

\* Finitely many paths, each with what it leads to.
FilesOK(f) ==
    /\ DOMAIN f \subseteq Paths /\ IsFiniteSet(DOMAIN f)
    /\ \A p \in DOMAIN f : f[p] \in Values \cup {Dir}

\* What exists on a disk is a finite tree with the receive directory.
DiskOK(f) ==
    /\ DOMAIN f \subseteq Paths /\ IsFiniteSet(DOMAIN f)
    /\ ReceiveDir \in Paths /\ IsDirectory(f, ReceiveDir)
    /\ \A p \in DOMAIN f : f[p] \in Values \cup {Dir}
    /\ \A p \in DOMAIN f : \A q \in Ancestors(p) : IsDirectory(f, q)

LEMMA DiskFiles ==
    ASSUME NEW f, DiskOK(f)
    PROVE  FilesOK(f)
  BY DEF DiskOK, FilesOK

LEMMA DirIsNoValue == Dir \notin Values
  BY HomeAssumption DEF Values

\* fs::create_dir_all, where no file is in the way.
LEMMA WithDirsOK ==
    ASSUME NEW f, DiskOK(f), NEW p \in Paths, \A q \in Ancestors(p) : ~IsFile(f, q)
    PROVE  LET g == WithDirs(f, Ancestors(p))
           IN  /\ DiskOK(g) /\ DOMAIN g = DOMAIN f \cup Ancestors(p)
               /\ \A q \in DOMAIN f : g[q] = f[q]
               /\ \A q \in Ancestors(p) : IsDirectory(g, q)
<1> DEFINE g == WithDirs(f, Ancestors(p))
<1>1. DOMAIN g = DOMAIN f \cup Ancestors(p)
  BY DEF WithDirs
<1>2. \A q \in DOMAIN f : g[q] = f[q]
  BY DEF WithDirs
<1>3. \A q \in Ancestors(p) : q \notin DOMAIN f => g[q] = Dir
  BY DEF WithDirs
<1> HIDE DEF g
<1>4. \A q \in Ancestors(p) : IsDirectory(g, q)
  BY <1>1, <1>2, <1>3 DEF IsDirectory, IsFile
<1>5. DOMAIN g \subseteq Paths
  BY <1>1, AncestorFacts DEF DiskOK
<1>6. IsFiniteSet(DOMAIN g)
  <2>1. IsFiniteSet(DOMAIN f) /\ IsFiniteSet(Ancestors(p))
    BY FiniteAncestors DEF DiskOK
  <2>2. IsFiniteSet(DOMAIN f \cup Ancestors(p))
    BY <2>1, FS_Union
  <2> QED BY <1>1, <2>2
<1>7. \A q \in DOMAIN f : IsDirectory(f, q) => IsDirectory(g, q)
  BY <1>1, <1>2 DEF IsDirectory
<1>8. ReceiveDir \in Paths /\ IsDirectory(g, ReceiveDir)
  BY <1>7 DEF DiskOK, IsDirectory
<1>9. \A q \in DOMAIN g : g[q] \in Values \cup {Dir}
  BY <1>1, <1>2, <1>4 DEF DiskOK, IsDirectory
<1>10. ASSUME NEW q \in DOMAIN g, NEW r \in Ancestors(q) PROVE IsDirectory(g, r)
  <2>1. CASE q \in DOMAIN f
    <3>1. IsDirectory(f, r)
      BY <2>1 DEF DiskOK
    <3> QED BY <1>7, <3>1 DEF IsDirectory
  <2>2. CASE q \in Ancestors(p)
    BY <1>4, <2>2, AncestorsOfAncestors
  <2> QED BY <1>1, <2>1, <2>2
<1>11. DiskOK(g)
  BY <1>5, <1>6, <1>8, <1>9, <1>10 DEF DiskOK
<1> QED BY <1>1, <1>2, <1>4, <1>11 DEF g

\* A file where no directory is, in a directory.
LEMMA WithFileOK ==
    ASSUME NEW f, DiskOK(f), NEW p \in Paths, ~IsDirectory(f, p), NEW v \in Values,
           \A q \in Ancestors(p) : IsDirectory(f, q)
    PROVE  LET g == WithFile(f, p, v)
           IN  /\ DiskOK(g) /\ DOMAIN g = DOMAIN f \cup {p} /\ g[p] = v
               /\ \A q \in DOMAIN f : q # p => g[q] = f[q]
<1> DEFINE g == WithFile(f, p, v)
<1>1. DOMAIN g = DOMAIN f \cup {p} /\ g[p] = v
  BY DEF WithFile
<1>2. \A q \in DOMAIN f : q # p => g[q] = f[q]
  BY DEF WithFile
<1> HIDE DEF g
<1>3. DOMAIN g \subseteq Paths
  BY <1>1 DEF DiskOK
<1>4. IsFiniteSet(DOMAIN g)
  <2>1. IsFiniteSet(DOMAIN f)
    BY DEF DiskOK
  <2> QED BY <1>1, <2>1, FS_AddElement
<1>5. ASSUME NEW q, IsDirectory(f, q) PROVE IsDirectory(g, q)
  <2>1. q # p /\ q \in DOMAIN f /\ f[q] = Dir
    BY <1>5 DEF IsDirectory
  <2> QED BY <1>1, <1>2, <2>1 DEF IsDirectory
<1>6. ReceiveDir \in Paths /\ IsDirectory(g, ReceiveDir)
  BY <1>5 DEF DiskOK
<1>7. \A q \in DOMAIN g : g[q] \in Values \cup {Dir}
  BY <1>1, <1>2 DEF DiskOK
<1>8. ASSUME NEW q \in DOMAIN g, NEW r \in Ancestors(q) PROVE IsDirectory(g, r)
  <2>1. IsDirectory(f, r)
    <3>1. CASE q \in DOMAIN f
      BY <3>1 DEF DiskOK
    <3>2. CASE q = p
      BY <3>2
    <3> QED BY <1>1, <3>1, <3>2
  <2> QED BY <1>5, <2>1
<1>9. DiskOK(g)
  BY <1>3, <1>4, <1>6, <1>7, <1>8 DEF DiskOK
<1> QED BY <1>1, <1>2, <1>9 DEF g

\* The entries of a path are those of the files at and below it.
LEMMA EntriesOfFacts ==
    ASSUME NEW f, FilesOK(f), NEW p \in Paths
    PROVE  /\ EntriesOf(f, p) \in Seq(Entries)
           /\ ToSet(EntriesOf(f, p)) =
                {[name |-> SubSeq(q, Len(p), Len(q)), bytes |-> f[q]] :
                    q \in {q \in DOMAIN f : IsFile(f, q) /\ IsPrefix(p, q)}}
           /\ \A i, j \in DOMAIN EntriesOf(f, p) : EntriesOf(f, p)[i] = EntriesOf(f, p)[j] => i = j
<1> DEFINE Q == {q \in DOMAIN f : IsFile(f, q) /\ IsPrefix(p, q)}
           g == [q \in Q |-> [name |-> SubSeq(q, Len(p), Len(q)), bytes |-> f[q]]]
           S == {g[q] : q \in Q}
<1>1. S = {[name |-> SubSeq(q, Len(p), Len(q)), bytes |-> f[q]] : q \in Q}
  OBVIOUS
<1>2. IsFiniteSet(Q)
  BY FS_Subset DEF FilesOK
<1>3. IsFiniteSet(S)
  <2>1. DOMAIN g = Q
    OBVIOUS
  <2> HIDE DEF g, Q
  <2> QED BY <1>2, <2>1, FiniteImage
<1>4. ASSUME NEW q \in Q PROVE g[q] \in Entries
  <2>1. q \in Paths /\ IsFile(f, q) /\ Len(p) <= Len(q)
    BY DEF FilesOK, IsPrefix
  <2>2. q \in Seq(FileNames) /\ Len(q) \in Nat /\ \A i \in 1 .. Len(q) : q[i] \in FileNames
    BY <2>1, PathIsNames, SeqValues
  <2>3. p \in Seq(FileNames) /\ p # <<>> /\ Len(p) \in Nat
    BY PathIsNames, SeqValues
  <2>4. Len(p) # 0
    BY <2>3, EmptySeq
  <2>5. \A i \in Len(p) .. Len(q) : q[i] \in FileNames
    BY <2>2, <2>3, <2>4
  <2>6. /\ SubSeq(q, Len(p), Len(q)) \in Seq(FileNames)
        /\ Len(SubSeq(q, Len(p), Len(q))) = Len(q) - Len(p) + 1
    BY <2>1, <2>2, <2>3, <2>5, SubSeqProperties
  <2>7. Len(<<>>) = 0
    OBVIOUS
  <2>8. SubSeq(q, Len(p), Len(q)) # <<>>
    <3>1. Len(SubSeq(q, Len(p), Len(q))) # 0
      BY <2>1, <2>2, <2>3, <2>6
    <3> HIDE DEF g, Q
    <3> QED BY <2>7, <3>1, Zenon
  <2>9. SubSeq(q, Len(p), Len(q)) \in Paths
    BY <2>6, <2>8 DEF Paths
  <2>10. f[q] \in Values
    BY <2>1 DEF FilesOK, IsFile
  <2>11. g[q] = [name |-> SubSeq(q, Len(p), Len(q)), bytes |-> f[q]]
    OBVIOUS
  <2> HIDE DEF g, Q
  <2> QED BY <2>9, <2>10, <2>11 DEF Entries
<1>5. S \subseteq Entries
  BY <1>4
<1>6. EntriesOf(f, p) = SetToSeq(S)
  BY <1>1 DEF EntriesOf
<1> HIDE DEF S, g
<1>7. /\ SetToSeq(S) \in Seq(S) /\ ToSet(SetToSeq(S)) = S
      /\ \A i, j \in DOMAIN SetToSeq(S) : SetToSeq(S)[i] = SetToSeq(S)[j] => i = j
  BY <1>3, SetAsSequence
<1>8. Seq(S) \subseteq Seq(Entries)
  <2>1. SUFFICES ASSUME NEW s \in Seq(S) PROVE s \in Seq(Entries)
    OBVIOUS
  <2> QED BY <1>5
<1> QED BY <1>1, <1>6, <1>7, <1>8

LEMMA CollectFilesFacts ==
    ASSUME NEW f, FilesOK(f), NEW paths \in Seq(Paths)
    PROVE  /\ CollectFiles(f, paths) \in Seq(Entries)
           /\ ToSet(CollectFiles(f, paths)) = UNION {ToSet(EntriesOf(f, p)) : p \in ToSet(paths)}
<1> DEFINE ss == [i \in DOMAIN paths |-> EntriesOf(f, paths[i])]
<1>1. Len(paths) \in Nat /\ DOMAIN paths = 1 .. Len(paths) /\ \A i \in 1 .. Len(paths) : paths[i] \in Paths
  BY SeqValues
<1>2. \A i \in 1 .. Len(paths) : EntriesOf(f, paths[i]) \in Seq(Entries)
  BY <1>1, EntriesOfFacts
<1>3. ss \in Seq(Seq(Entries)) /\ DOMAIN ss = DOMAIN paths
  BY <1>1, <1>2
<1>4. CollectFiles(f, paths) = FlattenSeq(ss)
  BY DEF CollectFiles
<1>5. UNION {ToSet(ss[i]) : i \in DOMAIN ss} = UNION {ToSet(EntriesOf(f, p)) : p \in ToSet(paths)}
  BY DEF ToSet
<1> HIDE DEF ss
<1>6. FlattenSeq(ss) \in Seq(Entries) /\ ToSet(FlattenSeq(ss)) = UNION {ToSet(ss[i]) : i \in DOMAIN ss}
  BY <1>3, FlattenElements
<1> QED BY <1>4, <1>5, <1>6

\* What is left without some paths.
LEMMA WithoutFacts ==
    ASSUME NEW f, FilesOK(f), NEW gone
    PROVE  LET g == Without(f, gone)
           IN  /\ FilesOK(g) /\ DOMAIN g = {q \in DOMAIN f : \A r \in gone : ~IsPrefix(r, q)}
               /\ \A q \in DOMAIN g : g[q] = f[q]
<1> DEFINE g == Without(f, gone)
<1>1. DOMAIN g = {q \in DOMAIN f : \A r \in gone : ~IsPrefix(r, q)} /\ \A q \in DOMAIN g : g[q] = f[q]
  BY DEF Without
<1> HIDE DEF g
<1>2. DOMAIN g \subseteq DOMAIN f
  BY <1>1
<1>3. IsFiniteSet(DOMAIN g)
  BY <1>2, FS_Subset DEF FilesOK
<1>4. FilesOK(g)
  BY <1>1, <1>2, <1>3 DEF FilesOK
<1> QED BY <1>1, <1>4 DEF g

\* The entries that are left.
LEMMA FewerEntries ==
    ASSUME NEW f, FilesOK(f), NEW gone, NEW paths \in Seq(Paths)
    PROVE  ToSet(CollectFiles(Without(f, gone), paths)) \subseteq ToSet(CollectFiles(f, paths))
<1> DEFINE g == Without(f, gone)
<1>1. FilesOK(g) /\ DOMAIN g \subseteq DOMAIN f /\ \A q \in DOMAIN g : g[q] = f[q]
  BY WithoutFacts
<1> HIDE DEF g
<1>2. ASSUME NEW p \in ToSet(paths), NEW e \in ToSet(EntriesOf(g, p)) PROVE e \in ToSet(EntriesOf(f, p))
  <2>1. p \in Paths
    BY SeqValues
  <2>2. PICK q \in DOMAIN g : /\ IsFile(g, q) /\ IsPrefix(p, q)
                              /\ e = [name |-> SubSeq(q, Len(p), Len(q)), bytes |-> g[q]]
    BY <1>1, <1>2, <2>1, EntriesOfFacts
  <2>3. q \in DOMAIN f /\ IsFile(f, q) /\ g[q] = f[q]
    BY <1>1, <2>2 DEF IsFile
  <2> QED BY <2>1, <2>2, <2>3, EntriesOfFacts
<1>3. /\ ToSet(CollectFiles(g, paths)) = UNION {ToSet(EntriesOf(g, p)) : p \in ToSet(paths)}
      /\ ToSet(CollectFiles(f, paths)) = UNION {ToSet(EntriesOf(f, p)) : p \in ToSet(paths)}
  BY <1>1, CollectFilesFacts
<1> QED BY <1>2, <1>3 DEF g

-------------------------------------------------------------------------------
(* Saving.                                                                   *)

OutcomeKinds == {"written", "unwritten", "torn"}
Disks(f) == {f} \cup UNION {[S -> Values \cup {Dir}] : S \in SUBSET Paths}
Saves(f) ==
    {acc \in [fs : Disks(f), saved : Seq(Paths)] :
        DiskOK(acc.fs) /\ ToSet(acc.saved) \subseteq DOMAIN acc.fs}

\* Files stay files and directories stay directories.
Keeps(f, g) ==
    /\ DOMAIN f \subseteq DOMAIN g
    /\ \A p \in DOMAIN f : g[p] = Dir <=> f[p] = Dir

LEMMA KeepsBlocked ==
    ASSUME NEW f, NEW g, Keeps(f, g), NEW p
    PROVE  Blocked(f, p) => Blocked(g, p)
  BY DEF Keeps, Blocked, IsFile, IsDirectory

LEMMA AppendSet ==
    ASSUME NEW D, NEW s \in Seq(D), NEW x \in D
    PROVE  ToSet(Append(s, x)) = ToSet(s) \cup {x}
<1>1. /\ Len(s) \in Nat /\ DOMAIN s = 1 .. Len(s)
      /\ Append(s, x) \in Seq(D) /\ Len(Append(s, x)) = Len(s) + 1
      /\ \A i \in 1 .. Len(s) : Append(s, x)[i] = s[i]
      /\ Append(s, x)[Len(s) + 1] = x
  BY SeqValues, AppendFacts
<1>2. DOMAIN Append(s, x) = 1 .. Len(s) + 1
  BY <1>1, SeqValues
<1>3. ToSet(s) = {s[i] : i \in 1 .. Len(s)} /\ ToSet(Append(s, x)) = {Append(s, x)[i] : i \in 1 .. Len(s) + 1}
  BY <1>1, <1>2 DEF ToSet
<1>4. \A i : i \in 1 .. Len(s) + 1 <=> i \in 1 .. Len(s) \/ i = Len(s) + 1
  BY <1>1
<1>5. \A i \in 1 .. Len(s) : Append(s, x)[i] \in ToSet(s) /\ s[i] \in ToSet(Append(s, x))
  BY <1>1, <1>3, <1>4
<1>6. x \in ToSet(Append(s, x))
  BY <1>1, <1>3, <1>4
<1> QED BY <1>1, <1>3, <1>4, <1>5, <1>6

\* What one turn of the loop does.
OneSaved(f, acc, e, outcome, r, dest) ==
    /\ r \in Saves(f)
    /\ Keeps(acc.fs, r.fs)
    /\ \A p \in DOMAIN acc.fs : p # dest => r.fs[p] = acc.fs[p]
    /\ DOMAIN r.fs \subseteq DOMAIN acc.fs \cup Ancestors(dest) \cup {dest}
    /\ Blocked(acc.fs, dest) => r = acc
    /\ ~Blocked(acc.fs, dest) /\ outcome = "written" =>
            r.fs[dest] = e.bytes /\ r.saved = Append(acc.saved, dest)
    /\ outcome # "written" => r.saved = acc.saved

LEMMA SaveOneFacts ==
    ASSUME NEW f, NEW acc \in Saves(f), NEW e \in Entries, NEW outcome \in OutcomeKinds
    PROVE  OneSaved(f, acc, e, outcome, SaveOne(acc, e, outcome), Dest(e.name))
<1> DEFINE r == SaveOne(acc, e, outcome)
           dest == Dest(e.name)
           dirs == WithDirs(acc.fs, Ancestors(dest))
           D == Disks(f)
<1>1. /\ acc = [fs |-> acc.fs, saved |-> acc.saved] /\ acc.fs \in D /\ acc.saved \in Seq(Paths)
      /\ DiskOK(acc.fs) /\ ToSet(acc.saved) \subseteq DOMAIN acc.fs
  BY DEF Saves
<1>2. e.name \in Paths /\ e.bytes \in Values
  BY DEF Entries
<1>3. dest \in Paths
  BY <1>1, <1>2, DestFacts DEF DiskOK
<1>4. CASE Blocked(acc.fs, dest)
  <2>1. r = acc
    BY <1>4 DEF SaveOne, Dest
  <2> HIDE DEF r
  <2>2. Keeps(acc.fs, r.fs)
    BY <2>1 DEF Keeps
  <2>3. outcome # "written" => r.saved = acc.saved
    BY <2>1
  <2> QED BY <1>4, <2>1, <2>2, <2>3 DEF r, OneSaved
<1>5. CASE ~Blocked(acc.fs, dest)
  <2>1. /\ DiskOK(dirs) /\ DOMAIN dirs = DOMAIN acc.fs \cup Ancestors(dest)
        /\ \A q \in DOMAIN acc.fs : dirs[q] = acc.fs[q]
        /\ \A q \in Ancestors(dest) : IsDirectory(dirs, q)
    <3>1. \A q \in Ancestors(dest) : ~IsFile(acc.fs, q)
      BY <1>5 DEF Blocked
    <3> HIDE DEF dest
    <3> QED BY <1>1, <1>3, <3>1, WithDirsOK
  <2>2. ~IsDirectory(dirs, dest)
    <3>1. ~IsDirectory(acc.fs, dest) /\ dest \notin Ancestors(dest)
      BY <1>3, <1>5, AncestorFacts DEF Blocked
    <3> HIDE DEF dest, dirs
    <3> QED BY <2>1, <3>1 DEF IsDirectory
  <2>3. ASSUME NEW v \in Values
        PROVE  LET g == WithFile(dirs, dest, v)
               IN  /\ g \in D /\ DiskOK(g) /\ DOMAIN g = DOMAIN acc.fs \cup Ancestors(dest) \cup {dest} /\ g[dest] = v
                   /\ Keeps(acc.fs, g)
                   /\ \A p \in DOMAIN acc.fs : p # dest => g[p] = acc.fs[p]
    <3> DEFINE g == WithFile(dirs, dest, v)
    <3> HIDE DEF dirs, dest
    <3>1. /\ DiskOK(g) /\ DOMAIN g = DOMAIN dirs \cup {dest} /\ g[dest] = v
          /\ \A q \in DOMAIN dirs : q # dest => g[q] = dirs[q]
      BY <1>3, <2>1, <2>2, WithFileOK
    <3>2. g = [q \in DOMAIN g |-> g[q]]
      BY DEF WithFile
    <3> HIDE DEF g
    <3>3. DOMAIN g \in SUBSET Paths /\ \A q \in DOMAIN g : g[q] \in Values \cup {Dir}
      BY <3>1 DEF DiskOK
    <3>4. g \in [DOMAIN g -> Values \cup {Dir}]
      BY <3>2, <3>3
    <3>5. g \in D
      BY <3>3, <3>4 DEF Disks
    <3>6. \A p \in DOMAIN acc.fs : p # dest => g[p] = acc.fs[p]
      BY <2>1, <3>1
    <3>7. dest \in DOMAIN acc.fs => acc.fs[dest] # Dir
      BY <2>1, <2>2 DEF IsDirectory
    <3>8. Keeps(acc.fs, g)
      BY <2>1, <3>1, <3>6, <3>7, DirIsNoValue DEF Keeps
    <3>9. DOMAIN g = DOMAIN acc.fs \cup Ancestors(dest) \cup {dest}
      BY <2>1, <3>1
    <3> QED BY <3>1, <3>5, <3>6, <3>8, <3>9 DEF g
  <2>4. CASE outcome = "written"
    <3> DEFINE g == WithFile(dirs, dest, e.bytes)
    <3>1. r = [fs |-> g, saved |-> Append(acc.saved, dest)]
      BY <1>5, <2>4 DEF SaveOne, Dest
    <3>2. /\ g \in D /\ DiskOK(g) /\ DOMAIN g = DOMAIN acc.fs \cup Ancestors(dest) \cup {dest}
          /\ g[dest] = e.bytes /\ Keeps(acc.fs, g)
          /\ \A p \in DOMAIN acc.fs : p # dest => g[p] = acc.fs[p]
      BY <1>2, <2>3
    <3> HIDE DEF g, dest, r, D
    <3>3. Append(acc.saved, dest) \in Seq(Paths) /\ ToSet(Append(acc.saved, dest)) = ToSet(acc.saved) \cup {dest}
      BY <1>1, <1>3, AppendFacts, AppendSet
    <3>4. ToSet(r.saved) \subseteq DOMAIN r.fs
      BY <1>1, <3>1, <3>2, <3>3
    <3>5. r \in [fs : D, saved : Seq(Paths)]
      BY <3>1, <3>2, <3>3
    <3>6. r \in Saves(f)
      BY <3>1, <3>2, <3>4, <3>5 DEF Saves, D
    <3>7. r.fs = g /\ r.saved = Append(acc.saved, dest)
      BY <3>1
    <3> QED BY <1>5, <2>4, <3>2, <3>6, <3>7 DEF r, dest, OneSaved
  <2>5. CASE outcome = "torn"
    <3> DEFINE g == WithFile(dirs, dest, Torn)
    <3>1. r = [acc EXCEPT !.fs = g]
      BY <1>5, <2>5 DEF SaveOne, Dest
    <3>2. Torn \in Values
      BY DEF Values
    <3>3. /\ g \in D /\ DiskOK(g) /\ DOMAIN g = DOMAIN acc.fs \cup Ancestors(dest) \cup {dest}
          /\ Keeps(acc.fs, g)
          /\ \A p \in DOMAIN acc.fs : p # dest => g[p] = acc.fs[p]
      BY <2>3, <3>2
    <3> HIDE DEF g, dest, r, D
    <3>4. r = [fs |-> g, saved |-> acc.saved]
      BY <1>1, <3>1
    <3>5. ToSet(r.saved) \subseteq DOMAIN r.fs
      BY <1>1, <3>3, <3>4
    <3>6. r \in [fs : D, saved : Seq(Paths)]
      BY <1>1, <3>3, <3>4
    <3>7. r \in Saves(f)
      BY <3>3, <3>4, <3>5, <3>6 DEF Saves, D
    <3>8. r.fs = g /\ r.saved = acc.saved
      BY <3>4
    <3> QED BY <1>5, <2>5, <3>3, <3>7, <3>8 DEF r, dest, OneSaved
  <2>6. CASE outcome = "unwritten"
    <3>1. r = [acc EXCEPT !.fs = dirs]
      BY <1>5, <2>6 DEF SaveOne, Dest
    <3>2. dirs = [q \in DOMAIN dirs |-> dirs[q]]
      BY DEF WithDirs
    <3> HIDE DEF dirs, dest, r, D
    <3>3. DOMAIN dirs \in SUBSET Paths /\ \A q \in DOMAIN dirs : dirs[q] \in Values \cup {Dir}
      BY <2>1 DEF DiskOK
    <3>4. dirs \in [DOMAIN dirs -> Values \cup {Dir}]
      BY <3>2, <3>3
    <3>5. dirs \in D
      BY <3>3, <3>4 DEF Disks, D
    <3>6. Keeps(acc.fs, dirs)
      BY <2>1 DEF Keeps
    <3>7. r = [fs |-> dirs, saved |-> acc.saved]
      BY <1>1, <3>1
    <3>8. ToSet(r.saved) \subseteq DOMAIN r.fs
      BY <1>1, <2>1, <3>7
    <3>9. r \in [fs : D, saved : Seq(Paths)]
      BY <1>1, <3>5, <3>7
    <3>10. r \in Saves(f)
      BY <2>1, <3>7, <3>8, <3>9 DEF Saves, D
    <3>11. r.fs = dirs /\ r.saved = acc.saved
      BY <3>7
    <3> QED BY <1>5, <2>1, <2>6, <3>6, <3>10, <3>11 DEF r, dest, OneSaved
  <2> QED BY <2>4, <2>5, <2>6 DEF OutcomeKinds
<1> QED BY <1>4, <1>5 DEF OneSaved

\* save_received_files saves one entry after the other.
LEMMA SaveSteps ==
    ASSUME NEW f, DiskOK(f), NEW entries \in Seq(Entries),
           NEW outcomes \in [DOMAIN entries -> OutcomeKinds]
    PROVE  \E u \in [0 .. Len(entries) -> Saves(f)] :
                /\ u[0] = [fs |-> f, saved |-> <<>>]
                /\ \A k \in 1 .. Len(entries) : u[k] = SaveOne(u[k - 1], entries[k], outcomes[k])
                /\ save_received_files(f, entries, outcomes) = u[Len(entries)]
<1> DEFINE n == Len(entries)
           D == Saves(f)
           base == [fs |-> f, saved |-> <<>>]
           step == [k \in 1 .. n |-> [acc \in D |-> SaveOne(acc, entries[k], outcomes[k])]]
           Def(g) == [k \in 0 .. n |-> IF k = 0 THEN base ELSE SaveOne(g[k - 1], entries[k], outcomes[k])]
           after == CHOOSE g : g = Def(g)
<1>1. n \in Nat /\ DOMAIN entries = 1 .. n /\ \A k \in 1 .. n : entries[k] \in Entries
  BY SeqValues
<1>2. base \in D
  <2>1. <<>> \in Seq(Paths) /\ ToSet(<<>>) = {}
    BY DEF ToSet
  <2>2. f \in Disks(f)
    BY DEF Disks
  <2>3. base \in [fs : Disks(f), saved : Seq(Paths)]
    BY <2>1, <2>2
  <2>4. ToSet(base.saved) \subseteq DOMAIN base.fs
    BY <2>1
  <2> QED BY <2>3, <2>4 DEF Saves
<1>3. step \in [1 .. n -> [D -> D]]
  <2>1. ASSUME NEW k \in 1 .. n, NEW acc \in D PROVE SaveOne(acc, entries[k], outcomes[k]) \in D
    <3>1. entries[k] \in Entries /\ outcomes[k] \in OutcomeKinds
      BY <1>1
    <3> QED BY <3>1, SaveOneFacts DEF OneSaved
  <2> HIDE DEF D
  <2> QED BY <2>1
<1>4. PICK u : Follows(u, D, base, n, step)
  <2> HIDE DEF D, base, step, n
  <2> QED BY <1>1, <1>2, <1>3, RecursionExists
<1>5. u \in [0 .. n -> D] /\ u[0] = base /\ \A k \in 1 .. n : u[k] = SaveOne(u[k - 1], entries[k], outcomes[k])
  <2>1. u \in [0 .. n -> D] /\ u[0] = base /\ \A k \in 1 .. n : u[k] = step[k][u[k - 1]]
    BY <1>4 DEF Follows
  <2>2. \A k \in 1 .. n : k - 1 \in 0 .. n
    BY <1>1
  <2>3. \A k \in 1 .. n : u[k - 1] \in D
    BY <2>1, <2>2
  <2>4. \A k \in 1 .. n : step[k][u[k - 1]] = SaveOne(u[k - 1], entries[k], outcomes[k])
    BY <2>3
  <2> QED BY <2>1, <2>4
<1>6. u = Def(u)
  <2>1. u = [k \in 0 .. n |-> u[k]]
    BY <1>5
  <2>2. \A k \in 0 .. n : k # 0 => k \in 1 .. n
    BY <1>1
  <2>3. \A k \in 0 .. n : u[k] = IF k = 0 THEN base ELSE SaveOne(u[k - 1], entries[k], outcomes[k])
    BY <1>5, <2>2
  <2> HIDE DEF base, n
  <2> QED BY <2>1, <2>3
<1>7. after = Def(after)
  <2> HIDE DEF Def
  <2> QED BY <1>6
<1>8. after[n] = u[n]
  <2> DEFINE S == {k \in 0 .. n : after[k] = u[k]}
  <2>4. \A k \in 0 .. n : after[k] = IF k = 0 THEN base ELSE SaveOne(after[k - 1], entries[k], outcomes[k])
    <3> HIDE DEF after, n, base
    <3> QED BY <1>7
  <2> HIDE DEF after
  <2>1. 0 \in S
    <3>1. after[0] = base
      BY <1>1, <2>4
    <3> QED BY <1>1, <1>5, <3>1
  <2>2. ASSUME NEW k \in 0 .. n - 1, k \in S PROVE k + 1 \in S
    <3>1. k + 1 \in 1 .. n /\ k + 1 \in 0 .. n /\ k + 1 # 0 /\ k + 1 - 1 = k
      BY <1>1
    <3>2. after[k + 1] = SaveOne(after[k + 1 - 1], entries[k + 1], outcomes[k + 1])
      BY <2>4, <3>1
    <3>3. after[k] = u[k]
      BY <2>2
    <3>4. u[k + 1] = SaveOne(u[k + 1 - 1], entries[k + 1], outcomes[k + 1])
      BY <1>5, <3>1
    <3> QED BY <3>1, <3>2, <3>3, <3>4
  <2> HIDE DEF S
  <2>3. \A k \in 0 .. n : k \in S
    BY <1>1, <2>1, <2>2, InductionUpTo
  <2> QED BY <1>1, <2>3 DEF S
<1>9. save_received_files(f, entries, outcomes) = after[n]
  BY DEF save_received_files
<1> QED BY <1>5, <1>8, <1>9

\* What save_received_files does to the disk and what it returns.
LEMMA SaveFacts ==
    ASSUME NEW f, DiskOK(f), NEW entries \in Seq(Entries),
           NEW outcomes \in [DOMAIN entries -> OutcomeKinds]
    PROVE  LET r == save_received_files(f, entries, outcomes)
               dests == {Dest(e.name) : e \in ToSet(entries)}
           IN  /\ DiskOK(r.fs) /\ r.saved \in Seq(Paths)
               /\ Keeps(f, r.fs)
               /\ ToSet(r.saved) \subseteq dests \cap DOMAIN r.fs
               /\ \A p \in DOMAIN f : p \notin dests => r.fs[p] = f[p]
               /\ DOMAIN r.fs \subseteq DOMAIN f \cup dests \cup UNION {Ancestors(p) : p \in dests}
<1> DEFINE n == Len(entries)
           dests == {Dest(e.name) : e \in ToSet(entries)}
           Good(acc) == /\ Keeps(f, acc.fs)
                        /\ ToSet(acc.saved) \subseteq dests
                        /\ \A p \in DOMAIN f : p \notin dests => acc.fs[p] = f[p]
                        /\ DOMAIN acc.fs \subseteq DOMAIN f \cup dests \cup UNION {Ancestors(p) : p \in dests}
<1>1. PICK u \in [0 .. n -> Saves(f)] :
        /\ u[0] = [fs |-> f, saved |-> <<>>]
        /\ \A k \in 1 .. n : u[k] = SaveOne(u[k - 1], entries[k], outcomes[k])
        /\ save_received_files(f, entries, outcomes) = u[n]
  BY SaveSteps
<1>2. n \in Nat /\ DOMAIN entries = 1 .. n
  BY SeqValues
<1> DEFINE S == {k \in 0 .. n : Good(u[k])}
<1>3. 0 \in S
  <2>1. u[0].fs = f /\ u[0].saved = <<>> /\ ToSet(<<>>) = {}
    BY <1>1 DEF ToSet
  <2>2. Keeps(f, f)
    BY DEF Keeps
  <2> HIDE DEF dests
  <2> QED BY <1>2, <2>1, <2>2
<1>4. ASSUME NEW k \in 0 .. n - 1, k \in S PROVE k + 1 \in S
  <2> DEFINE acc == u[k]
             e == entries[k + 1]
             r == SaveOne(acc, e, outcomes[k + 1])
             dest == Dest(e.name)
  <2>1. k \in 0 .. n /\ k + 1 \in 1 .. n /\ k + 1 \in 0 .. n /\ k + 1 - 1 = k
    BY <1>2
  <2>2. u[k + 1] = r
    BY <1>1, <2>1
  <2>3. e \in Entries /\ outcomes[k + 1] \in OutcomeKinds /\ dest \in dests /\ acc \in Saves(f)
    BY <1>1, <1>2, <2>1, SeqValues DEF ToSet
  <2>4. /\ r \in Saves(f)
        /\ Keeps(acc.fs, r.fs)
        /\ \A p \in DOMAIN acc.fs : p # dest => r.fs[p] = acc.fs[p]
        /\ DOMAIN r.fs \subseteq DOMAIN acc.fs \cup Ancestors(dest) \cup {dest}
        /\ r.saved \in {acc.saved, Append(acc.saved, dest)}
    <3> DEFINE o == outcomes[k + 1]
    <3>1. o \in OutcomeKinds /\ r = SaveOne(acc, e, o) /\ dest = Dest(e.name)
      BY <2>3
    <3> HIDE DEF e, acc, o, r, dest
    <3>2. OneSaved(f, acc, e, o, SaveOne(acc, e, o), Dest(e.name))
      BY <2>3, <3>1, SaveOneFacts
    <3> QED BY <3>1, <3>2 DEF OneSaved
  <2>5. Good(acc)
    BY <1>4
  <2>6. dest \in Paths
    <3>1. e.name \in Paths /\ ReceiveDir \in Paths
      BY <2>3 DEF Entries, DiskOK
    <3> QED BY <3>1, DestFacts
  <2> HIDE DEF e, r, dest, dests, acc
  <2>7. Keeps(f, r.fs)
    BY <2>4, <2>5 DEF Keeps
  <2>8. ToSet(r.saved) \subseteq dests
    <3>1. acc.saved \in Seq(Paths)
      BY <2>3 DEF Saves
    <3>2. ToSet(Append(acc.saved, dest)) = ToSet(acc.saved) \cup {dest}
      BY <2>6, <3>1, AppendSet
    <3> QED BY <2>3, <2>4, <2>5, <3>2
  <2>9. \A p \in DOMAIN f : p \notin dests => r.fs[p] = f[p]
    BY <2>3, <2>4, <2>5 DEF Keeps
  <2>10. DOMAIN r.fs \subseteq DOMAIN f \cup dests \cup UNION {Ancestors(p) : p \in dests}
    BY <2>3, <2>4, <2>5
  <2>11. Good(r)
    BY <2>7, <2>8, <2>9, <2>10
  <2> QED BY <2>1, <2>2, <2>11
<1>5. n \in S
  <2> HIDE DEF S, n
  <2>1. \A k \in 0 .. n : k \in S
    BY <1>2, <1>3, <1>4, InductionUpTo
  <2>2. n \in 0 .. n
    BY <1>2
  <2> QED BY <2>1, <2>2
<1>6. Good(u[n]) /\ u[n] \in Saves(f)
  BY <1>1, <1>2, <1>5
<1>7. DiskOK(u[n].fs) /\ u[n].saved \in Seq(Paths) /\ ToSet(u[n].saved) \subseteq DOMAIN u[n].fs
  BY <1>6 DEF Saves
<1> HIDE DEF dests
<1> QED BY <1>1, <1>6, <1>7 DEF dests

\* No two entries go to the same place.
DistinctNames(entries) == \A i, j \in DOMAIN entries : entries[i].name = entries[j].name => i = j

\* A saved file has its bytes at the end, and a file is saved if nothing fails and
\* nothing is in its way.
LEMMA SavedBytes ==
    ASSUME NEW f, DiskOK(f), NEW entries \in Seq(Entries), DistinctNames(entries),
           NEW outcomes \in [DOMAIN entries -> OutcomeKinds]
    PROVE  LET r == save_received_files(f, entries, outcomes)
           IN  \A e \in ToSet(entries) :
                /\ Dest(e.name) \in ToSet(r.saved) => r.fs[Dest(e.name)] = e.bytes
                /\ \/ Dest(e.name) \in ToSet(r.saved) \/ Blocked(r.fs, Dest(e.name))
                   \/ \E k \in DOMAIN entries : outcomes[k] # "written"
<1> DEFINE n == Len(entries)
           dest(k) == Dest(entries[k].name)
           AllWritten == \A k \in 1 .. n : outcomes[k] = "written"
           Good(acc, k) ==
                /\ \A j \in 1 .. k : dest(j) \in ToSet(acc.saved) => acc.fs[dest(j)] = entries[j].bytes
                /\ AllWritten => \A j \in 1 .. k : dest(j) \in ToSet(acc.saved) \/ Blocked(acc.fs, dest(j))
                /\ \A p \in ToSet(acc.saved) : \E j \in 1 .. k : p = dest(j)
<1>1. PICK u \in [0 .. n -> Saves(f)] :
        /\ u[0] = [fs |-> f, saved |-> <<>>]
        /\ \A k \in 1 .. n : u[k] = SaveOne(u[k - 1], entries[k], outcomes[k])
        /\ save_received_files(f, entries, outcomes) = u[n]
  BY SaveSteps
<1>2. n \in Nat /\ DOMAIN entries = 1 .. n /\ \A k \in 1 .. n : entries[k] \in Entries
  BY SeqValues
<1>3. \A k \in 1 .. n : entries[k].name \in Paths /\ dest(k) \in Paths
  <2>1. \A k \in 1 .. n : entries[k].name \in Paths
    BY <1>2 DEF Entries
  <2>2. ReceiveDir \in Paths
    BY DEF DiskOK
  <2> QED BY <2>1, <2>2, DestFacts
<1>4. \A i, j \in 1 .. n : dest(i) = dest(j) => i = j
  <2>1. ReceiveDir \in Paths
    BY DEF DiskOK
  <2>2. \A i, j \in 1 .. n : dest(i) = dest(j) => entries[i].name = entries[j].name
    BY <1>3, <2>1, DestInjective
  <2> QED BY <1>2, <2>2 DEF DistinctNames
<1> DEFINE S == {k \in 0 .. n : Good(u[k], k)}
<1>5. 0 \in S
  <2>1. u[0].saved = <<>> /\ ToSet(<<>>) = {}
    BY <1>1 DEF ToSet
  <2>2. 1 .. 0 = {}
    OBVIOUS
  <2> HIDE DEF dest, AllWritten
  <2> QED BY <1>2, <2>1, <2>2
<1>6. ASSUME NEW k \in 0 .. n - 1, k \in S PROVE k + 1 \in S
  <2> DEFINE acc == u[k]
             e == entries[k + 1]
             r == SaveOne(acc, e, outcomes[k + 1])
             d == dest(k + 1)
  <2>1. /\ k \in 0 .. n /\ k + 1 \in 1 .. n /\ k + 1 \in 0 .. n /\ k + 1 - 1 = k
        /\ \A j \in 1 .. k : j \in 1 .. n /\ j # k + 1 /\ j \in 1 .. k + 1
        /\ \A j \in 1 .. k + 1 : j \in 1 .. k \/ j = k + 1
        /\ k + 1 \in 1 .. k + 1
    BY <1>2
  <2>2. u[k + 1] = r
    BY <1>1, <2>1
  <2>3. e \in Entries /\ outcomes[k + 1] \in OutcomeKinds /\ acc \in Saves(f) /\ d \in Paths
    BY <1>1, <1>2, <1>3, <2>1
  <2>4. /\ r \in Saves(f)
        /\ Keeps(acc.fs, r.fs)
        /\ \A p \in DOMAIN acc.fs : p # d => r.fs[p] = acc.fs[p]
        /\ Blocked(acc.fs, d) => r = acc
        /\ ~Blocked(acc.fs, d) /\ outcomes[k + 1] = "written" => r.fs[d] = e.bytes /\ r.saved = Append(acc.saved, d)
        /\ outcomes[k + 1] # "written" => r.saved = acc.saved
    <3> DEFINE o == outcomes[k + 1]
    <3>1. o \in OutcomeKinds /\ r = SaveOne(acc, e, o) /\ d = Dest(e.name)
      BY <2>3
    <3> HIDE DEF e, acc, d, r, o
    <3>2. OneSaved(f, acc, e, o, SaveOne(acc, e, o), Dest(e.name))
      BY <2>3, <3>1, SaveOneFacts
    <3> QED BY <3>1, <3>2 DEF OneSaved, o
  <2>5. Good(acc, k)
    BY <1>6
  <2>6. acc.saved \in Seq(Paths) /\ ToSet(acc.saved) \subseteq DOMAIN acc.fs
    BY <2>3 DEF Saves
  <2>7. \A j \in 1 .. k : dest(j) # d
    BY <1>4, <2>1
  <2>8. d \notin ToSet(acc.saved)
    BY <2>5, <2>7
  <2>9. ToSet(Append(acc.saved, d)) = ToSet(acc.saved) \cup {d}
    BY <2>3, <2>6, AppendSet
  <2>10. \A p : Blocked(acc.fs, p) => Blocked(r.fs, p)
    BY <2>4, KeepsBlocked
  <2>11. ToSet(r.saved) \in {ToSet(acc.saved), ToSet(acc.saved) \cup {d}}
    BY <2>4, <2>9
  <2>12. e.bytes = entries[k + 1].bytes /\ d = dest(k + 1)
    OBVIOUS
  <2> HIDE DEF e, r, acc, d, dest
  <2>13. \A j \in 1 .. k + 1 : dest(j) \in ToSet(r.saved) => r.fs[dest(j)] = entries[j].bytes
    <3>1. ASSUME NEW j \in 1 .. k, dest(j) \in ToSet(r.saved) PROVE r.fs[dest(j)] = entries[j].bytes
      <4>1. dest(j) # d /\ dest(j) \in ToSet(acc.saved)
        BY <2>7, <2>11, <3>1
      <4>2. dest(j) \in DOMAIN acc.fs /\ acc.fs[dest(j)] = entries[j].bytes
        BY <2>5, <2>6, <4>1
      <4> QED BY <2>4, <4>1, <4>2
    <3>2. d \in ToSet(r.saved) => r.fs[d] = e.bytes
      BY <2>4, <2>8
    <3> QED BY <2>1, <2>12, <3>1, <3>2
  <2>14. ASSUME AllWritten, NEW j \in 1 .. k + 1 PROVE dest(j) \in ToSet(r.saved) \/ Blocked(r.fs, dest(j))
    <3>1. CASE j \in 1 .. k
      <4>1. dest(j) \in ToSet(acc.saved) \/ Blocked(acc.fs, dest(j))
        BY <2>5, <2>14, <3>1
      <4> QED BY <2>10, <2>11, <4>1
    <3>2. CASE j = k + 1
      <4>1. outcomes[k + 1] = "written"
        BY <2>1, <2>14
      <4>2. d \in ToSet(r.saved) \/ Blocked(r.fs, d)
        BY <2>4, <2>9, <2>10, <4>1
      <4> QED BY <2>12, <3>2, <4>2
    <3> QED BY <2>1, <3>1, <3>2
  <2>15. \A p \in ToSet(r.saved) : \E j \in 1 .. k + 1 : p = dest(j)
    BY <2>1, <2>5, <2>11, <2>12
  <2> HIDE DEF AllWritten
  <2>16. Good(r, k + 1)
    BY <2>13, <2>14, <2>15
  <2> QED BY <2>1, <2>2, <2>16
<1>7. n \in S
  <2> HIDE DEF S, n
  <2>1. \A k \in 0 .. n : k \in S
    BY <1>2, <1>5, <1>6, InductionUpTo
  <2>2. n \in 0 .. n
    BY <1>2
  <2> QED BY <2>1, <2>2
<1>8. Good(u[n], n)
  BY <1>7
<1>9. \A e \in ToSet(entries) : \E j \in 1 .. n : e = entries[j] /\ Dest(e.name) = dest(j)
  BY <1>2 DEF ToSet
<1>10. AllWritten \/ \E k \in DOMAIN entries : outcomes[k] # "written"
  BY <1>2
<1> HIDE DEF dest, AllWritten
<1>11. ASSUME NEW e \in ToSet(entries)
       PROVE  /\ Dest(e.name) \in ToSet(u[n].saved) => u[n].fs[Dest(e.name)] = e.bytes
              /\ \/ Dest(e.name) \in ToSet(u[n].saved) \/ Blocked(u[n].fs, Dest(e.name))
                 \/ \E k \in DOMAIN entries : outcomes[k] # "written"
  <2>1. PICK j \in 1 .. n : e = entries[j] /\ Dest(e.name) = dest(j)
    BY <1>9
  <2>2. dest(j) \in ToSet(u[n].saved) => u[n].fs[dest(j)] = e.bytes
    BY <1>8, <2>1
  <2>3. dest(j) \in ToSet(u[n].saved) \/ Blocked(u[n].fs, dest(j)) \/ ~AllWritten
    BY <1>8
  <2> QED BY <1>10, <2>1, <2>2, <2>3
<1> QED BY <1>1, <1>11

-------------------------------------------------------------------------------
(* Types.                                                                    *)

Data == Seq(Paths) \cup Seq(ByteStrings)
Texts == TextTypes \X Data
OfferOK(offers) ==
    /\ DOMAIN offers \subseteq Types
    /\ \A t \in DOMAIN offers : offers[t] \in Data
    /\ "hdrop" \in DOMAIN offers => offers["hdrop"] \in Seq(Paths)
Contents ==
    [type : {"File", "Files"}, entries : Seq(Entries)] \cup [type : {"Text"}, text : Texts]
MonitorStates ==
    {Idle} \cup [pc : {"files"}, paths : Seq(Paths), remote : BOOLEAN]
           \cup [pc : {"text"}, text : Texts, remote : BOOLEAN]
           \cup [pc : {"send"}, key : ({"files"} \X Seq(Paths)) \cup ({"text"} \X Texts), remote : BOOLEAN]
ProxyStates ==
    {Idle} \cup [pc : {"files"}, key : Seq(Paths)] \cup [pc : {"text"}, key : Texts]

TypeInv ==
    /\ machine \in [Nodes -> Machines]
    /\ DOMAIN fs = Nodes /\ \A n \in Nodes : DiskOK(fs[n])
    /\ DOMAIN clip = Nodes /\ \A n \in Nodes : OfferOK(clip[n].offers) /\ clip[n].remote \in BOOLEAN
    /\ notified \in [Nodes -> BOOLEAN]
    /\ DOMAIN dedup = Nodes /\ \A n \in Nodes : DOMAIN dedup[n] = {"files", "text"}
    /\ monitor \in [Nodes -> MonitorStates]
    /\ proxy \in [Nodes -> ProxyStates]
    /\ inbox \in [Nodes -> Seq(Contents)]
    /\ got \in [Nodes -> SUBSET Entries]
    /\ copies \in 0 .. MaxCopies /\ edits \in 0 .. MaxEdits

LEMMA DataLength ==
    ASSUME NEW data \in Data
    PROVE  Len(data) \in Nat
  BY DEF Data

LEMMA UrisType ==
    ASSUME NEW list \in Seq(Paths)
    PROVE  Uris(list) \in Seq(ByteStrings) /\ Strings(list) \in Seq(ByteStrings)
<1>1. Len(list) \in Nat /\ DOMAIN list = 1 .. Len(list) /\ \A i \in 1 .. Len(list) : list[i] \in Paths
  BY SeqValues
<1>2. \A i \in 1 .. Len(list) : PathString(list[i]) \in ByteStrings
  BY <1>1, PathIsNames, PathStringType
<1>3. \A i \in 1 .. Len(list) : Encode(PathString(list[i])) \in ByteStrings
  BY <1>2, UnescapeEncode
<1>4. Uris(list) \in [1 .. Len(list) -> ByteStrings]
  BY <1>1, <1>3 DEF Uris
<1>5. Strings(list) \in [1 .. Len(list) -> ByteStrings]
  BY <1>1, <1>2 DEF Strings
<1> QED BY <1>1, <1>4, <1>5

LEMMA ManagerOfferType ==
    ASSUME NEW m \in AllMachines, NEW list \in Seq(Paths)
    PROVE  OfferOK(ManagerOffer(m, list))
<1> DEFINE offers == ManagerOffer(m, list)
<1>1. /\ DOMAIN offers \subseteq Types
      /\ \A t \in DOMAIN offers : offers[t] = IF t \in {"paths", "hdrop"} THEN list ELSE Uris(list)
  BY ManagerOfferFacts
<1>2. list \in Data /\ Uris(list) \in Data
  BY UrisType DEF Data
<1> HIDE DEF offers
<1>3. \A t \in DOMAIN offers : offers[t] \in Data
  BY <1>1, <1>2
<1>4. "hdrop" \in DOMAIN offers => offers["hdrop"] \in Seq(Paths)
  BY <1>1
<1> QED BY <1>1, <1>3, <1>4 DEF OfferOK, offers

LEMMA NativeOfferType ==
    ASSUME NEW m \in AllMachines, NEW t \in NativeTypes(m), NEW list \in Seq(Paths)
    PROVE  OfferOK(NativeOffer(t, list))
<1> DEFINE offers == NativeOffer(t, list)
<1>1. /\ t \in {"uri-list", "gnome", "hdrop"} /\ DOMAIN offers = {t}
      /\ offers[t] = IF t = "hdrop" THEN list ELSE Strings(list)
  BY NativeFacts
<1>2. list \in Data /\ Strings(list) \in Data
  BY UrisType DEF Data
<1> HIDE DEF offers
<1>3. DOMAIN offers \subseteq Types
  BY <1>1 DEF Types
<1>4. offers[t] \in Data
  BY <1>1, <1>2
<1> QED BY <1>1, <1>3, <1>4 DEF OfferOK, offers

\* What is in the clipboard is read as a list of paths or as text.
LEMMA OfferRead ==
    ASSUME NEW m \in AllMachines, NEW offers, OfferOK(offers), NEW f, DiskOK(f)
    PROVE  /\ get_clipboard_file_list(m, offers, DOMAIN f) \in Seq(Paths)
           /\ \A t \in DOMAIN offers \cap TextTypes : <<t, offers[t]>> \in Texts
<1>1. \A t \in DOMAIN offers : t \in Types /\ offers[t] \in Data /\ Len(offers[t]) \in Nat
  BY DataLength DEF OfferOK
<1>2. DOMAIN f \subseteq Paths
  BY DEF DiskOK
<1>3. get_clipboard_file_list(m, offers, DOMAIN f) \in Seq(Paths)
  BY <1>1, <1>2, ReadType DEF OfferOK
<1> QED BY <1>1, <1>3 DEF Texts

\* The list for the clipboard.
\* The paths that lead to a file below the receive directory, and the file itself.
Outer(p) == (Ancestors(p) \cup {p}) \ (Ancestors(ReceiveDir) \cup {ReceiveDir})
ListsAll(paths, saved) ==
    /\ \A q \in ToSet(paths) : \E p \in ToSet(saved) : q \in Outer(p)
    /\ \A p \in ToSet(saved) : \E q \in ToSet(paths) : q \in Outer(p)

LEMMA ClipboardPathsFacts ==
    ASSUME ReceiveDir \in Paths, NEW type, NEW names, names \subseteq Paths, NEW saved \in Seq(Paths), saved # <<>>,
           ToSet(saved) \subseteq {Dest(name) : name \in names},
           NEW paths \in ClipboardPaths(type, saved)
    PROVE  paths \in Seq(Paths) /\ paths # <<>> /\ ListsAll(paths, saved)
<1> DEFINE top(p) == SubSeq(p, 1, Len(ReceiveDir) + 1)
<1>1. ASSUME NEW p \in ToSet(saved) PROVE p \in Outer(p) /\ top(p) \in Outer(p) /\ top(p) \in Paths
  <2>1. PICK name \in names : p = Dest(name)
    OBVIOUS
  <2>2. /\ p \in Paths /\ Len(p) = Len(ReceiveDir) + Len(name)
        /\ Len(ReceiveDir) \in Nat \ {0} /\ Len(name) \in Nat \ {0}
        /\ ReceiveDir \in Ancestors(p)
    BY <2>1, DestFacts
  <2>3. \A q \in Ancestors(ReceiveDir) \cup {ReceiveDir} : Len(q) <= Len(ReceiveDir)
    BY <2>2, AncestorFacts
  <2>4. p \in Outer(p)
    BY <2>2, <2>3 DEF Outer
  <2>5. p \in Seq(FileNames) /\ Len(ReceiveDir) + 1 \in 0 .. Len(p) /\ Len(p) \in Nat
    BY <2>2, PathIsNames
  <2>6. /\ top(p) \in Seq(FileNames) /\ Len(top(p)) = Len(ReceiveDir) + 1
        /\ \A i \in 1 .. Len(ReceiveDir) + 1 : top(p)[i] = p[i]
    BY <2>5, FrontFacts
  <2>7. Len(<<>>) = 0
    OBVIOUS
  <2> HIDE DEF top
  <2>8. top(p) # <<>>
    BY <2>2, <2>6, <2>7
  <2>9. top(p) \in Paths
    BY <2>6, <2>8 DEF Paths
  <2>10. top(p) \in Ancestors(p) \cup {p}
    <3>1. CASE Len(top(p)) < Len(p)
      BY <2>2, <2>6, <2>9, <3>1, AncestorOf
    <3>2. CASE Len(top(p)) = Len(p)
      BY <2>5, <2>6, <3>2, SameSequence
    <3> QED BY <2>5, <2>6, <3>1, <3>2
  <2>11. top(p) \in Outer(p)
    BY <2>2, <2>3, <2>6, <2>10 DEF Outer
  <2> QED BY <2>4, <2>9, <2>11
<1>2. CASE type = "File"
  <2>1. paths = saved
    BY <1>2 DEF ClipboardPaths
  <2> HIDE DEF top
  <2> QED BY <1>1, <2>1 DEF ListsAll
<1>3. CASE type # "File"
  <2> DEFINE S == ToSet(saved)
             g == [p \in S |-> top(p)]
             T == {g[p] : p \in S}
  <2>1. T = deduplicate_to_top_level_paths(saved)
    BY DEF deduplicate_to_top_level_paths
  <2>2. paths \in SetToSeqs(T)
    BY <1>3, <2>1 DEF ClipboardPaths
  <2>3. \A p \in S : g[p] = top(p)
    OBVIOUS
  <2>4. DOMAIN g = S
    OBVIOUS
  <2>5. IsFiniteSet(S) /\ S # {}
    <3>1. Len(saved) \in Nat /\ DOMAIN saved = 1 .. Len(saved) /\ Len(saved) # 0
      BY SeqValues, EmptySeq
    <3>2. IsFiniteSet(DOMAIN saved)
      BY <3>1, FS_Interval
    <3>3. S = {saved[i] : i \in DOMAIN saved}
      BY DEF ToSet
    <3>4. IsFiniteSet({saved[i] : i \in DOMAIN saved})
      BY <3>2, FiniteImage
    <3>5. 1 \in DOMAIN saved
      BY <3>1
    <3> QED BY <3>3, <3>4, <3>5
  <2> HIDE DEF g, top
  <2>13. \A p \in S : g[p] \in Outer(p) /\ g[p] \in Paths
    BY <1>1, <2>3
  <2> HIDE DEF S
  <2>6. IsFiniteSet(T)
    BY <2>4, <2>5, FiniteImage
  <2>7. T \subseteq Paths /\ T # {}
    BY <2>5, <2>13
  <2>8. \A q \in T : \E p \in S : q \in Outer(p)
    BY <2>13
  <2>9. \A p \in S : \E q \in T : q \in Outer(p)
    BY <2>13
  <2> HIDE DEF T
  <2>10. paths \in Seq(T) /\ ToSet(paths) = T
    BY <2>2, <2>6, SetAsSequence
  <2>11. paths \in Seq(Paths)
    BY <2>7, <2>10
  <2>12. paths # <<>>
    <3>1. ToSet(<<>>) = {}
      BY DEF ToSet
    <3> QED BY <2>7, <2>10, <3>1
  <2> QED BY <2>8, <2>9, <2>10, <2>11, <2>12 DEF ListsAll, S
<1> QED BY <1>2, <1>3

LEMMA InitType == Init => TypeInv
<1> SUFFICES ASSUME Init PROVE TypeInv
  OBVIOUS
<1>1. ASSUME NEW n \in Nodes PROVE DiskOK(fs[n])
  <2>1. /\ IsFiniteSet(DOMAIN Home[n]) /\ ReceiveDir \in DOMAIN Home[n]
        /\ \A p \in DOMAIN Home[n] : p \in Paths /\ Home[n][p] \in Versions \cup {Dir}
        /\ \A p \in DOMAIN Home[n] : \A q \in Ancestors(p) \cup {ReceiveDir} :
                q \in DOMAIN Home[n] /\ Home[n][q] = Dir
    BY HomeAssumption
  <2> QED BY <2>1 DEF Init, DiskOK, IsDirectory, Values
<1>2. DOMAIN fs = Nodes
  BY HomeAssumption DEF Init
<1>3. \A n \in Nodes : OfferOK(clip[n].offers) /\ clip[n].remote \in BOOLEAN
  <2>1. DOMAIN NoOffer = {}
    BY DEF NoOffer
  <2>2. OfferOK(NoOffer)
    BY <2>1 DEF OfferOK
  <2> QED BY <2>2 DEF Init
<1>4. \A n \in Nodes : DOMAIN dedup[n] = {"files", "text"}
  BY DEF Init, DedupNew
<1>5. monitor \in [Nodes -> MonitorStates] /\ proxy \in [Nodes -> ProxyStates]
  BY DEF Init, MonitorStates, ProxyStates
<1>6. inbox \in [Nodes -> Seq(Contents)] /\ got \in [Nodes -> SUBSET Entries]
  BY DEF Init
<1>7. copies \in 0 .. MaxCopies /\ edits \in 0 .. MaxEdits
  BY FilesBoundsAssumption DEF Init
<1>8. machine \in [Nodes -> Machines] /\ notified \in [Nodes -> BOOLEAN] /\ DOMAIN dedup = Nodes /\ DOMAIN clip = Nodes
  BY DEF Init
<1> QED BY <1>1, <1>2, <1>3, <1>4, <1>5, <1>6, <1>7, <1>8 DEF TypeInv

LEMMA MachineType ==
    ASSUME TypeInv, NEW n \in Nodes
    PROVE  machine[n] \in AllMachines
  BY MachinesAssumption DEF TypeInv

\* A selection is a list of paths.
LEMMA SelectionType ==
    ASSUME NEW n \in Nodes, NEW paths \in Selections[n]
    PROVE  paths \in Seq(Paths) /\ paths # <<>> /\ paths \in Seq(DOMAIN Home[n])
<1>1. DOMAIN Home[n] \subseteq Paths
  BY HomeAssumption
<1>2. paths # <<>> /\ paths \in Seq(DOMAIN Home[n])
  BY SelectionsAssumption
<1> QED BY <1>1, <1>2

LEMMA SetClipType ==
    ASSUME DOMAIN clip = Nodes, \A n \in Nodes : OfferOK(clip[n].offers) /\ clip[n].remote \in BOOLEAN,
           notified \in [Nodes -> BOOLEAN],
           NEW n \in Nodes, NEW offers, OfferOK(offers), NEW remote \in BOOLEAN, SetClip(n, offers, remote)
    PROVE  /\ DOMAIN clip' = Nodes /\ \A k \in Nodes : OfferOK(clip'[k].offers) /\ clip'[k].remote \in BOOLEAN
           /\ notified' \in [Nodes -> BOOLEAN]
<1>1. DOMAIN clip' = Nodes /\ notified' \in [Nodes -> BOOLEAN]
  BY DEF SetClip
<1>2. clip'[n] = [offers |-> offers, remote |-> remote] /\ \A k \in Nodes : k # n => clip'[k] = clip[k]
  BY DEF SetClip
<1>3. clip'[n].offers = offers /\ clip'[n].remote = remote
  BY <1>2
<1>4. ASSUME NEW k \in Nodes PROVE OfferOK(clip'[k].offers) /\ clip'[k].remote \in BOOLEAN
  <2>1. CASE k = n
    BY <1>3, <2>1
  <2>2. CASE k # n
    BY <1>2, <2>2
  <2> QED BY <2>1, <2>2
<1> QED BY <1>1, <1>4

LEMMA UserCopyType ==
    ASSUME TypeInv, NEW n \in Nodes, NEW paths \in Selections[n], UserCopy(n, paths)
    PROVE  TypeInv'
<1>1. OfferOK(ManagerOffer(machine[n], paths))
  BY MachineType, SelectionType, ManagerOfferType
<1>2. /\ DOMAIN clip' = Nodes /\ \A k \in Nodes : OfferOK(clip'[k].offers) /\ clip'[k].remote \in BOOLEAN
      /\ notified' \in [Nodes -> BOOLEAN]
  <2>1. SetClip(n, ManagerOffer(machine[n], paths), FALSE)
    BY DEF UserCopy
  <2> QED BY <1>1, <2>1, SetClipType DEF TypeInv
<1>3. copies' \in 0 .. MaxCopies
  BY FilesBoundsAssumption DEF UserCopy, TypeInv
<1> QED BY <1>2, <1>3 DEF UserCopy, TypeInv

\* A user changes one of the files.
LEMMA EditFacts ==
    ASSUME TypeInv, NEW n \in Nodes, NEW p \in DOMAIN Home[n], NEW v \in Versions, UserEdit(n, p, v)
    PROVE  LET f == fs[n]
               g == fs'[n]
           IN  /\ DOMAIN fs' = Nodes /\ DiskOK(g) /\ DOMAIN g = DOMAIN f /\ g[p] = v
               /\ \A q \in DOMAIN f : q # p => g[q] = f[q]
               /\ IsFile(f, p) /\ v # Dir
               /\ Keeps(f, g)
               /\ \A k \in Nodes : k # n => fs'[k] = fs[k]
<1> DEFINE f == fs[n]
           g == WithFile(f, p, v)
<1>1. DiskOK(f) /\ IsFile(f, p) /\ DOMAIN fs = Nodes
  BY DEF UserEdit, TypeInv
<1>2. v \in Values /\ Dir # v
  BY HomeAssumption DEF Values
<1>3. p \in Paths /\ p \in DOMAIN f /\ f[p] # Dir
  BY <1>1 DEF DiskOK, IsFile
<1>4. ~IsDirectory(f, p) /\ \A q \in Ancestors(p) : IsDirectory(f, q)
  BY <1>1, <1>3 DEF IsDirectory, DiskOK
<1>5. /\ DiskOK(g) /\ DOMAIN g = DOMAIN f \cup {p} /\ g[p] = v
      /\ \A q \in DOMAIN f : q # p => g[q] = f[q]
  <2> HIDE DEF f
  <2> QED BY <1>1, <1>2, <1>3, <1>4, WithFileOK
<1>6. fs' = [fs EXCEPT ![n] = g]
  BY DEF UserEdit
<1> HIDE DEF g
<1>7. fs'[n] = g /\ DOMAIN fs' = Nodes /\ \A k \in Nodes : k # n => fs'[k] = fs[k]
  BY <1>1, <1>6
<1> HIDE DEF f
<1>8. Keeps(f, g)
  BY <1>2, <1>3, <1>5 DEF Keeps
<1>9. DOMAIN g = DOMAIN f
  BY <1>3, <1>5
<1> QED BY <1>1, <1>2, <1>5, <1>7, <1>8, <1>9 DEF f

LEMMA UserEditType ==
    ASSUME TypeInv, NEW n \in Nodes, NEW p \in DOMAIN Home[n], NEW v \in Versions, UserEdit(n, p, v)
    PROVE  TypeInv'
<1>1. DOMAIN fs' = Nodes /\ DiskOK(fs'[n]) /\ \A k \in Nodes : k # n => fs'[k] = fs[k]
  BY EditFacts
<1>2. \A k \in Nodes : DiskOK(fs'[k])
  BY <1>1 DEF TypeInv
<1>3. edits' \in 0 .. MaxEdits
  BY FilesBoundsAssumption DEF UserEdit, TypeInv
<1> QED BY <1>1, <1>2, <1>3 DEF UserEdit, TypeInv

\* A user removes a path: nothing at, below or above the receive directory.
Apart(p) == p \in Paths /\ ~IsPrefix(p, ReceiveDir) /\ ~IsPrefix(ReceiveDir, p)

LEMMA RemoveFacts ==
    ASSUME TypeInv, NEW n \in Nodes, NEW p \in DOMAIN Home[n], UserRemove(n, p)
    PROVE  LET f == fs[n]
               g == fs'[n]
           IN  /\ DOMAIN fs' = Nodes /\ DiskOK(g) /\ g = Without(f, {p})
               /\ DOMAIN g = {q \in DOMAIN f : ~IsPrefix(p, q)}
               /\ \A q \in DOMAIN g : g[q] = f[q]
               /\ Apart(p)
               /\ \A k \in Nodes : k # n => fs'[k] = fs[k]
<1> DEFINE f == fs[n]
           g == Without(f, {p})
<1>1. DiskOK(f) /\ DOMAIN fs = Nodes /\ p \in DOMAIN f /\ ~IsPrefix(ReceiveDir, p) /\ ~IsPrefix(p, ReceiveDir)
  BY DEF UserRemove, TypeInv
<1>2. fs' = [fs EXCEPT ![n] = g]
  BY DEF UserRemove
<1> HIDE DEF f
<1>3. FilesOK(f)
  BY <1>1, DiskFiles
<1>4. /\ FilesOK(g) /\ DOMAIN g = {q \in DOMAIN f : \A r \in {p} : ~IsPrefix(r, q)}
      /\ \A q \in DOMAIN g : g[q] = f[q]
  BY <1>3, WithoutFacts
<1> HIDE DEF g
<1>5. DOMAIN g = {q \in DOMAIN f : ~IsPrefix(p, q)}
  BY <1>4
<1>6. fs'[n] = g /\ DOMAIN fs' = Nodes /\ \A k \in Nodes : k # n => fs'[k] = fs[k]
  BY <1>1, <1>2
<1>7. Apart(p)
  BY <1>1 DEF Apart, DiskOK
<1>8. ReceiveDir \in Paths /\ IsDirectory(g, ReceiveDir)
  BY <1>1, <1>4, <1>5 DEF DiskOK, IsDirectory
<1>9. ASSUME NEW q \in DOMAIN g, NEW r \in Ancestors(q) PROVE IsDirectory(g, r)
  <2>1. q \in DOMAIN f /\ q \in Paths /\ p \in Paths /\ ~IsPrefix(p, q)
    BY <1>5, <1>7, <1>4 DEF FilesOK, Apart
  <2>2. r \in DOMAIN f /\ f[r] = Dir
    BY <1>1, <2>1 DEF DiskOK, IsDirectory
  <2>3. ~IsPrefix(p, r)
    BY <2>1, PrefixOfAncestor
  <2> QED BY <1>4, <1>5, <2>2, <2>3 DEF IsDirectory
<1>10. DiskOK(g)
  BY <1>4, <1>8, <1>9 DEF DiskOK, FilesOK
<1> QED BY <1>4, <1>5, <1>6, <1>7, <1>10 DEF f, g

LEMMA UserRemoveType ==
    ASSUME TypeInv, NEW n \in Nodes, NEW p \in DOMAIN Home[n], UserRemove(n, p)
    PROVE  TypeInv'
<1>1. DOMAIN fs' = Nodes /\ DiskOK(fs'[n]) /\ \A k \in Nodes : k # n => fs'[k] = fs[k]
  BY RemoveFacts
<1>2. \A k \in Nodes : DiskOK(fs'[k])
  BY <1>1 DEF TypeInv
<1>3. edits' \in 0 .. MaxEdits
  BY FilesBoundsAssumption DEF UserRemove, TypeInv
<1> QED BY <1>1, <1>2, <1>3 DEF UserRemove, TypeInv

LEMMA MonitorReadType ==
    ASSUME TypeInv, NEW n \in Nodes, MonitorRead(n)
    PROVE  TypeInv'
<1> DEFINE offers == clip[n].offers
           paths == get_clipboard_file_list(machine[n], offers, DOMAIN fs[n])
<1>1. paths \in Seq(Paths) /\ \A t \in DOMAIN offers \cap TextTypes : <<t, offers[t]>> \in Texts
  <2>1. machine[n] \in AllMachines /\ OfferOK(offers) /\ DiskOK(fs[n])
    BY MachineType DEF TypeInv
  <2> HIDE DEF offers
  <2> QED BY <2>1, OfferRead
<1>2. clip[n].remote \in BOOLEAN /\ monitor \in [Nodes -> MonitorStates]
  BY DEF TypeInv
<1>3. [pc |-> "files", paths |-> paths, remote |-> clip[n].remote] \in MonitorStates
  <2> HIDE DEF paths
  <2> QED BY <1>1, <1>2 DEF MonitorStates
<1>4. \A t \in DOMAIN offers \cap TextTypes :
        [pc |-> "text", text |-> <<t, offers[t]>>, remote |-> clip[n].remote] \in MonitorStates
  <2>1. SUFFICES ASSUME NEW t \in DOMAIN offers \cap TextTypes
                 PROVE [pc |-> "text", text |-> <<t, offers[t]>>, remote |-> clip[n].remote] \in MonitorStates
    OBVIOUS
  <2>2. PICK text \in Texts : text = <<t, offers[t]>>
    BY <1>1
  <2>3. [pc |-> "text", text |-> text, remote |-> clip[n].remote] \in MonitorStates
    BY <1>2 DEF MonitorStates
  <2> QED BY <2>2, <2>3
<1>5. \/ monitor' = [monitor EXCEPT ![n] = [pc |-> "files", paths |-> paths, remote |-> clip[n].remote]]
      \/ \E t \in DOMAIN offers \cap TextTypes :
            monitor' = [monitor EXCEPT ![n] = [pc |-> "text", text |-> <<t, offers[t]>>, remote |-> clip[n].remote]]
      \/ monitor' = monitor
  BY DEF MonitorRead
<1>6. monitor' \in [Nodes -> MonitorStates]
  <2> HIDE DEF paths, offers
  <2>1. \A x \in MonitorStates : [monitor EXCEPT ![n] = x] \in [Nodes -> MonitorStates]
    BY <1>2
  <2> QED BY <1>2, <1>3, <1>4, <1>5, <2>1
<1>7. notified' \in [Nodes -> BOOLEAN]
  BY DEF MonitorRead, TypeInv
<1> HIDE DEF paths, offers
<1> QED BY <1>6, <1>7 DEF MonitorRead, TypeInv

\* Where the monitor is.
LEMMA MonitorCases ==
    ASSUME TypeInv, NEW n \in Nodes
    PROVE  /\ monitor[n].pc \in {"idle", "files", "text", "send"}
           /\ monitor[n].pc = "idle" <=> monitor[n] = Idle
           /\ monitor[n].pc = "files" => monitor[n].paths \in Seq(Paths)
           /\ monitor[n].pc = "text" => monitor[n].text \in Texts
           /\ monitor[n].pc = "send" =>
                \/ monitor[n].key[1] = "files" /\ monitor[n].key[2] \in Seq(Paths)
                \/ monitor[n].key[1] = "text" /\ monitor[n].key[2] \in Texts
           /\ monitor[n].pc # "idle" => monitor[n].remote \in BOOLEAN
<1>1. monitor[n] \in MonitorStates
  BY DEF TypeInv
<1>2. CASE monitor[n] = Idle
  BY <1>2 DEF Idle
<1>3. CASE monitor[n] \in [pc : {"files"}, paths : Seq(Paths), remote : BOOLEAN]
  BY <1>3 DEF Idle
<1>4. CASE monitor[n] \in [pc : {"text"}, text : Texts, remote : BOOLEAN]
  BY <1>4 DEF Idle
<1>5. CASE monitor[n] \in [pc : {"send"}, key : ({"files"} \X Seq(Paths)) \cup ({"text"} \X Texts), remote : BOOLEAN]
  BY <1>5 DEF Idle
<1> QED BY <1>1, <1>2, <1>3, <1>4, <1>5 DEF MonitorStates

LEMMA ProxyCases ==
    ASSUME TypeInv, NEW n \in Nodes
    PROVE  /\ proxy[n].pc \in {"idle", "files", "text"}
           /\ proxy[n].pc = "idle" <=> proxy[n] = Idle
           /\ proxy[n].pc = "files" => proxy[n].key \in Seq(Paths)
           /\ proxy[n].pc = "text" => proxy[n].key \in Texts
<1>1. proxy[n] \in ProxyStates
  BY DEF TypeInv
<1>2. CASE proxy[n] = Idle
  BY <1>2 DEF Idle
<1>3. CASE proxy[n] \in [pc : {"files"}, key : Seq(Paths)]
  BY <1>3 DEF Idle
<1>4. CASE proxy[n] \in [pc : {"text"}, key : Texts]
  BY <1>4 DEF Idle
<1> QED BY <1>1, <1>2, <1>3, <1>4 DEF ProxyStates

\* An entry of the dedup state is set and the other one dropped.
LEMMA DedupFacts ==
    ASSUME NEW kind \in {"files", "text"}, NEW key
    PROVE  LET d == [DedupNew EXCEPT ![kind] = key]
           IN  DOMAIN d = {"files", "text"} /\ d[kind] = key
  BY DEF DedupNew

LEMMA MonitorMarkType ==
    ASSUME TypeInv, NEW n \in Nodes, MonitorMark(n)
    PROVE  TypeInv'
<1> DEFINE kind == monitor[n].pc
           key == IF kind = "files" THEN monitor[n].paths ELSE monitor[n].text
           send == [pc |-> "send", key |-> <<kind, key>>, remote |-> monitor[n].remote]
<1>1. kind \in {"files", "text"}
  BY DEF MonitorMark
<1>2. <<kind, key>> \in ({"files"} \X Seq(Paths)) \cup ({"text"} \X Texts) /\ monitor[n].remote \in BOOLEAN
  BY <1>1, MonitorCases
<1>3. send \in MonitorStates
  <2> HIDE DEF kind, key
  <2> QED BY <1>2 DEF MonitorStates
<1>4. monitor' \in [Nodes -> MonitorStates]
  <2>1. Idle \in MonitorStates
    BY DEF MonitorStates
  <2>2. monitor' = [monitor EXCEPT ![n] = Idle] \/ monitor' = [monitor EXCEPT ![n] = send]
    BY DEF MonitorMark
  <2>3. monitor \in [Nodes -> MonitorStates]
    BY DEF TypeInv
  <2> HIDE DEF send
  <2> QED BY <1>3, <2>1, <2>2, <2>3
<1>5. DOMAIN dedup' = Nodes /\ \A k \in Nodes : DOMAIN dedup'[k] = {"files", "text"}
  <2>1. dedup' = dedup \/ dedup' = [dedup EXCEPT ![n] = [DedupNew EXCEPT ![kind] = key]]
    BY DEF MonitorMark
  <2>2. DOMAIN [DedupNew EXCEPT ![kind] = key] = {"files", "text"}
    BY <1>1, DedupFacts
  <2>3. DOMAIN dedup = Nodes /\ \A k \in Nodes : DOMAIN dedup[k] = {"files", "text"}
    BY DEF TypeInv
  <2> HIDE DEF kind, key
  <2> QED BY <2>1, <2>2, <2>3
<1> HIDE DEF kind, key
<1> QED BY <1>4, <1>5 DEF MonitorMark, TypeInv

\* What the monitor sends.
LEMMA SentType ==
    ASSUME TypeInv, NEW n \in Nodes, monitor[n].pc = "send", NEW unread
    PROVE  LET kind == monitor[n].key[1]
               entries == CollectFiles(Without(fs[n], unread), monitor[n].key[2])
           IN  /\ kind \in {"files", "text"}
               /\ kind = "files" => entries \in Seq(Entries) /\ FilesContent(entries) \in Contents
               /\ kind = "text" => TextContent(monitor[n].key[2]) \in Contents
<1> DEFINE key == monitor[n].key
           entries == CollectFiles(Without(fs[n], unread), key[2])
<1>1. \/ key[1] = "files" /\ key[2] \in Seq(Paths)
      \/ key[1] = "text" /\ key[2] \in Texts
  BY MonitorCases
<1> HIDE DEF key
<1>2. ASSUME key[1] = "files" PROVE entries \in Seq(Entries)
  <2>1. FilesOK(fs[n]) /\ key[2] \in Seq(Paths)
    BY <1>1, <1>2, DiskFiles DEF TypeInv
  <2>2. FilesOK(Without(fs[n], unread))
    BY <2>1, WithoutFacts
  <2> QED BY <2>1, <2>2, CollectFilesFacts
<1> HIDE DEF entries
<1>3. ASSUME key[1] = "files" PROVE FilesContent(entries) \in Contents
  BY <1>2, <1>3 DEF FilesContent, Contents
<1>4. ASSUME key[1] = "text" PROVE TextContent(key[2]) \in Contents
  BY <1>1, <1>4 DEF TextContent, Contents
<1> QED BY <1>1, <1>2, <1>3, <1>4 DEF entries, key

LEMMA MonitorSendType ==
    ASSUME TypeInv, NEW n \in Nodes, MonitorSend(n)
    PROVE  TypeInv'
<1>1. monitor[n].pc = "send"
  BY DEF MonitorSend
<1>2. ASSUME NEW c \in Contents, Send(n, c) PROVE inbox' \in [Nodes -> Seq(Contents)]
  <2>1. inbox \in [Nodes -> Seq(Contents)]
    BY DEF TypeInv
  <2>2. \A m \in Nodes : Append(inbox[m], c) \in Seq(Contents)
    BY <2>1, AppendFacts
  <2> QED BY <1>2, <2>1, <2>2 DEF Send
<1>3. inbox' \in [Nodes -> Seq(Contents)]
  <2>1. CASE monitor[n].key[1] = "text" /\ Send(n, TextContent(monitor[n].key[2]))
    BY <1>1, <1>2, <2>1, SentType
  <2>2. ASSUME NEW unread, monitor[n].key[1] = "files",
               Send(n, FilesContent(CollectFiles(Without(fs[n], unread), monitor[n].key[2])))
        PROVE  inbox' \in [Nodes -> Seq(Contents)]
    <3>1. FilesContent(CollectFiles(Without(fs[n], unread), monitor[n].key[2])) \in Contents
      BY <1>1, <2>2, SentType
    <3> QED BY <1>2, <2>2, <3>1
  <2>3. CASE inbox' = inbox
    BY <2>3 DEF TypeInv
  <2> QED BY <2>1, <2>2, <2>3 DEF MonitorSend
<1>4. monitor' \in [Nodes -> MonitorStates]
  <2>1. Idle \in MonitorStates
    BY DEF MonitorStates
  <2> QED BY <2>1 DEF MonitorSend, TypeInv
<1> QED BY <1>3, <1>4 DEF MonitorSend, TypeInv

\* The content that the proxy takes.
LEMMA HeadType ==
    ASSUME TypeInv, NEW n \in Nodes, inbox[n] # <<>>
    PROVE  LET c == Head(inbox[n])
           IN  /\ Tail(inbox[n]) \in Seq(Contents)
               /\ c.type \in {"File", "Files", "Text"}
               /\ c.type = "Text" => c.text \in Texts
               /\ c.type # "Text" => c.entries \in Seq(Entries)
<1>1. inbox[n] \in Seq(Contents)
  BY DEF TypeInv
<1>2. PICK c \in Contents : c = Head(inbox[n])
  BY <1>1, HeadTailProperties
<1>3. Tail(inbox[n]) \in Seq(Contents)
  BY <1>1, HeadTailProperties
<1>4. CASE c \in [type : {"File", "Files"}, entries : Seq(Entries)]
  BY <1>2, <1>3, <1>4
<1>5. CASE c \in [type : {"Text"}, text : Texts]
  BY <1>2, <1>3, <1>5
<1> QED BY <1>2, <1>4, <1>5 DEF Contents

LEMMA OutcomesType ==
    ASSUME NEW n, NEW entries, NEW outcomes \in Outcomes(n, entries)
    PROVE  /\ outcomes \in [DOMAIN entries -> OutcomeKinds]
           /\ ~machine[n].fails => \A k \in DOMAIN entries : outcomes[k] = "written"
  BY DEF Outcomes, OutcomeKinds

\* What the proxy does with a content, in the terms of save_received_files.
TakesText(n, c) ==
    /\ c.type = "Text"
    /\ Write(n, "text", c.text)
    /\ got' = [got EXCEPT ![n] = {}]
    /\ UNCHANGED fs
TakesFiles(n, c, r) ==
    /\ c.type # "Text"
    /\ fs' = [fs EXCEPT ![n] = r.fs]
    /\ got' = [got EXCEPT ![n] = {e \in ToSet(c.entries) : Dest(e.name) \in ToSet(r.saved)}]
    /\ \/ r.saved = <<>> /\ UNCHANGED <<dedup, proxy>>
       \/ r.saved # <<>> /\ \E paths \in ClipboardPaths(c.type, r.saved) : Write(n, "files", paths)

LEMMA TakeCases ==
    ASSUME NEW n, ProxyTake(n)
    PROVE  LET c == Head(inbox[n])
           IN  /\ proxy[n] = Idle /\ inbox[n] # <<>>
               /\ inbox' = [inbox EXCEPT ![n] = Tail(@)]
               /\ UNCHANGED <<machine, clip, notified, monitor, last, sent, copies, edits>>
               /\ \/ TakesText(n, c)
                  \/ \E outcomes \in Outcomes(n, c.entries) :
                        TakesFiles(n, c, save_received_files(fs[n], c.entries, outcomes))
<1> DEFINE c == Head(inbox[n])
<1>1. /\ proxy[n] = Idle /\ inbox[n] # <<>>
      /\ inbox' = [inbox EXCEPT ![n] = Tail(@)]
      /\ UNCHANGED <<machine, clip, notified, monitor, last, sent, copies, edits>>
  BY DEF ProxyTake
<1>2. \/ TakesText(n, c)
      \/ /\ c.type # "Text"
         /\ \E outcomes \in Outcomes(n, c.entries) :
                TakesFiles(n, c, save_received_files(fs[n], c.entries, outcomes))
  BY DEF ProxyTake, TakesText, TakesFiles, Dest
<1> QED BY <1>1, <1>2

LEMMA WriteType ==
    ASSUME TypeInv, NEW n \in Nodes, NEW kind \in {"files", "text"}, NEW key, Write(n, kind, key),
           [pc |-> kind, key |-> key] \in ProxyStates
    PROVE  /\ DOMAIN dedup' = Nodes /\ \A k \in Nodes : DOMAIN dedup'[k] = {"files", "text"}
           /\ proxy' \in [Nodes -> ProxyStates]
           /\ dedup'[n][kind] = key /\ proxy'[n] = [pc |-> kind, key |-> key]
           /\ \A k \in Nodes : k # n => dedup'[k] = dedup[k] /\ proxy'[k] = proxy[k]
<1>1. DOMAIN dedup = Nodes /\ (\A k \in Nodes : DOMAIN dedup[k] = {"files", "text"}) /\ proxy \in [Nodes -> ProxyStates]
  BY DEF TypeInv
<1>2. dedup' = [dedup EXCEPT ![n] = [DedupNew EXCEPT ![kind] = key]]
  BY DEF Write
<1>3. proxy' = [proxy EXCEPT ![n] = [pc |-> kind, key |-> key]]
  BY DEF Write
<1>4. DOMAIN [DedupNew EXCEPT ![kind] = key] = {"files", "text"} /\ [DedupNew EXCEPT ![kind] = key][kind] = key
  BY DedupFacts
<1>5. /\ DOMAIN dedup' = Nodes /\ dedup'[n] = [DedupNew EXCEPT ![kind] = key]
      /\ \A k \in Nodes : k # n => dedup'[k] = dedup[k]
  BY <1>1, <1>2
<1>6. /\ proxy' \in [Nodes -> ProxyStates] /\ proxy'[n] = [pc |-> kind, key |-> key]
      /\ \A k \in Nodes : k # n => proxy'[k] = proxy[k]
  BY <1>1, <1>3
<1>7. \A k \in Nodes : DOMAIN dedup'[k] = {"files", "text"}
  BY <1>1, <1>4, <1>5
<1> QED BY <1>4, <1>5, <1>6, <1>7

LEMMA ProxyTakeType ==
    ASSUME TypeInv, NEW n \in Nodes, ProxyTake(n)
    PROVE  TypeInv'
<1> DEFINE c == Head(inbox[n])
<1>1. /\ inbox[n] # <<>> /\ inbox' = [inbox EXCEPT ![n] = Tail(@)]
      /\ UNCHANGED <<machine, clip, notified, monitor, last, sent, copies, edits>>
      /\ \/ TakesText(n, c)
         \/ \E outcomes \in Outcomes(n, c.entries) :
                TakesFiles(n, c, save_received_files(fs[n], c.entries, outcomes))
  BY TakeCases
<1>2. /\ Tail(inbox[n]) \in Seq(Contents)
      /\ c.type = "Text" => c.text \in Texts
      /\ c.type # "Text" => c.entries \in Seq(Entries)
  BY <1>1, HeadType
<1> HIDE DEF c
<1>3. inbox' \in [Nodes -> Seq(Contents)]
  BY <1>1, <1>2 DEF TypeInv
<1>4. SUFFICES /\ DOMAIN fs' = Nodes /\ \A k \in Nodes : DiskOK(fs'[k])
               /\ DOMAIN dedup' = Nodes /\ \A k \in Nodes : DOMAIN dedup'[k] = {"files", "text"}
               /\ proxy' \in [Nodes -> ProxyStates]
               /\ got' \in [Nodes -> SUBSET Entries]
  BY <1>1, <1>3, <1>4 DEF TypeInv
<1>5. /\ DOMAIN fs = Nodes /\ \A k \in Nodes : DiskOK(fs[k])
      /\ got \in [Nodes -> SUBSET Entries]
      /\ DOMAIN dedup = Nodes /\ \A k \in Nodes : DOMAIN dedup[k] = {"files", "text"}
      /\ proxy \in [Nodes -> ProxyStates]
  BY DEF TypeInv
<1>6. CASE TakesText(n, c)
  <2>1. c.text \in Texts /\ Write(n, "text", c.text) /\ fs' = fs /\ got' = [got EXCEPT ![n] = {}]
    BY <1>2, <1>6 DEF TakesText
  <2>2. [pc |-> "text", key |-> c.text] \in ProxyStates
    BY <2>1 DEF ProxyStates
  <2>3. /\ DOMAIN dedup' = Nodes /\ \A k \in Nodes : DOMAIN dedup'[k] = {"files", "text"}
        /\ proxy' \in [Nodes -> ProxyStates]
    BY <2>1, <2>2, WriteType
  <2>4. got' \in [Nodes -> SUBSET Entries]
    BY <1>5, <2>1
  <2> QED BY <1>5, <2>1, <2>3, <2>4
<1>7. ASSUME NEW outcomes \in Outcomes(n, c.entries),
             TakesFiles(n, c, save_received_files(fs[n], c.entries, outcomes))
      PROVE  /\ DOMAIN fs' = Nodes /\ \A k \in Nodes : DiskOK(fs'[k])
             /\ DOMAIN dedup' = Nodes /\ \A k \in Nodes : DOMAIN dedup'[k] = {"files", "text"}
             /\ proxy' \in [Nodes -> ProxyStates]
             /\ got' \in [Nodes -> SUBSET Entries]
  <2> DEFINE r == save_received_files(fs[n], c.entries, outcomes)
             names == {e.name : e \in ToSet(c.entries)}
  <2>1. c.entries \in Seq(Entries) /\ DiskOK(fs[n]) /\ outcomes \in [DOMAIN c.entries -> OutcomeKinds]
    BY <1>2, <1>5, <1>7, OutcomesType DEF TakesFiles
  <2>2. /\ DiskOK(r.fs) /\ r.saved \in Seq(Paths)
        /\ ToSet(r.saved) \subseteq {Dest(e.name) : e \in ToSet(c.entries)}
    BY <2>1, SaveFacts
  <2>3. TakesFiles(n, c, r)
    BY <1>7
  <2>4. ToSet(c.entries) \subseteq Entries /\ names \subseteq Paths /\ ReceiveDir \in Paths
    <3>1. ToSet(c.entries) \subseteq Entries
      BY <2>1, SeqValues
    <3>2. \A e \in Entries : e.name \in Paths
      BY DEF Entries
    <3>3. ReceiveDir \in Paths
      BY <2>1 DEF DiskOK
    <3> QED BY <3>1, <3>2, <3>3
  <2> HIDE DEF r
  <2>5. fs' = [fs EXCEPT ![n] = r.fs] /\ got' = [got EXCEPT ![n] = {e \in ToSet(c.entries) : Dest(e.name) \in ToSet(r.saved)}]
    BY <2>3 DEF TakesFiles
  <2>6. DOMAIN fs' = Nodes /\ \A k \in Nodes : DiskOK(fs'[k])
    BY <1>5, <2>2, <2>5
  <2>7. got' \in [Nodes -> SUBSET Entries]
    BY <1>5, <2>4, <2>5
  <2>8. CASE UNCHANGED <<dedup, proxy>>
    BY <1>5, <2>6, <2>7, <2>8
  <2>9. ASSUME r.saved # <<>>, NEW paths \in ClipboardPaths(c.type, r.saved), Write(n, "files", paths)
        PROVE  /\ DOMAIN dedup' = Nodes /\ \A k \in Nodes : DOMAIN dedup'[k] = {"files", "text"}
               /\ proxy' \in [Nodes -> ProxyStates]
    <3>1. ToSet(r.saved) \subseteq {Dest(name) : name \in names}
      BY <2>2
    <3> HIDE DEF names
    <3>2. paths \in Seq(Paths)
      BY <2>2, <2>4, <2>9, <3>1, ClipboardPathsFacts
    <3>3. [pc |-> "files", key |-> paths] \in ProxyStates
      BY <3>2 DEF ProxyStates
    <3> QED BY <2>9, <3>3, WriteType
  <2> QED BY <2>3, <2>6, <2>7, <2>8, <2>9 DEF TakesFiles
<1> QED BY <1>1, <1>6, <1>7

LEMMA ProxyWriteFilesType ==
    ASSUME TypeInv, NEW n \in Nodes, ProxyWriteFiles(n)
    PROVE  TypeInv'
<1>1. PICK t \in NativeTypes(machine[n]) : SetClip(n, NativeOffer(t, proxy[n].key), TRUE)
  BY DEF ProxyWriteFiles
<1>2. proxy[n].key \in Seq(Paths) /\ machine[n] \in AllMachines
  BY ProxyCases, MachineType DEF ProxyWriteFiles
<1>3. OfferOK(NativeOffer(t, proxy[n].key))
  BY <1>2, NativeOfferType
<1>4. /\ DOMAIN clip' = Nodes /\ \A k \in Nodes : OfferOK(clip'[k].offers) /\ clip'[k].remote \in BOOLEAN
      /\ notified' \in [Nodes -> BOOLEAN]
  BY <1>1, <1>3, SetClipType DEF TypeInv
<1>5. proxy' \in [Nodes -> ProxyStates]
  <2>1. Idle \in ProxyStates
    BY DEF ProxyStates
  <2> QED BY <2>1 DEF ProxyWriteFiles, TypeInv
<1> QED BY <1>4, <1>5 DEF ProxyWriteFiles, TypeInv

LEMMA ProxyFallbackType ==
    ASSUME TypeInv, NEW n \in Nodes, ProxyFallback(n)
    PROVE  TypeInv'
<1> DEFINE text == <<"paths", proxy[n].key>>
<1>1. proxy[n].key \in Seq(Paths)
  BY ProxyCases DEF ProxyFallback
<1>2. text \in Texts
  BY <1>1 DEF Texts, Data, TextTypes
<1>3. proxy' = [proxy EXCEPT ![n] = [pc |-> "text", key |-> text]]
  BY DEF ProxyFallback
<1>4. dedup' = [dedup EXCEPT ![n] = [dedup[n] EXCEPT !.text = text]]
  BY DEF ProxyFallback, FallbackDedup
<1>5. UNCHANGED <<clip, notified>> \/ SetClip(n, NoOffer, TRUE)
  BY DEF ProxyFallback
<1> HIDE DEF text
<1>6. proxy' \in [Nodes -> ProxyStates]
  <2>1. [pc |-> "text", key |-> text] \in ProxyStates
    BY <1>2 DEF ProxyStates
  <2> QED BY <1>3, <2>1 DEF TypeInv
<1>7. DOMAIN dedup' = Nodes /\ \A k \in Nodes : DOMAIN dedup'[k] = {"files", "text"}
  <2>1. DOMAIN [dedup[n] EXCEPT !.text = text] = {"files", "text"}
    BY DEF TypeInv
  <2> QED BY <1>4, <2>1 DEF TypeInv
<1>8. /\ DOMAIN clip' = Nodes /\ \A k \in Nodes : OfferOK(clip'[k].offers) /\ clip'[k].remote \in BOOLEAN
      /\ notified' \in [Nodes -> BOOLEAN]
  <2>1. OfferOK(NoOffer)
    BY DEF OfferOK, NoOffer
  <2>2. CASE SetClip(n, NoOffer, TRUE)
    BY <2>1, <2>2, SetClipType DEF TypeInv
  <2>3. CASE UNCHANGED <<clip, notified>>
    BY <2>3 DEF TypeInv
  <2> QED BY <1>5, <2>2, <2>3
<1> QED BY <1>6, <1>7, <1>8 DEF ProxyFallback, TypeInv

\* Text in the clipboard.
TextOffer(text) == [t \in {text[1]} |-> text[2]]

LEMMA TextOfferType ==
    ASSUME NEW text \in Texts
    PROVE  /\ OfferOK(TextOffer(text))
           /\ DOMAIN TextOffer(text) = {text[1]} /\ TextOffer(text)[text[1]] = text[2]
           /\ text = <<text[1], text[2]>> /\ text[1] \in TextTypes
<1>1. text = <<text[1], text[2]>> /\ text[1] \in TextTypes /\ text[2] \in Data
  BY DEF Texts
<1>2. DOMAIN TextOffer(text) = {text[1]} /\ TextOffer(text)[text[1]] = text[2]
  BY DEF TextOffer
<1>3. text[1] \in Types /\ text[1] # "hdrop"
  BY <1>1 DEF TextTypes, Types
<1> QED BY <1>1, <1>2, <1>3 DEF OfferOK

LEMMA ProxyWriteTextType ==
    ASSUME TypeInv, NEW n \in Nodes, ProxyWriteText(n)
    PROVE  TypeInv'
<1> DEFINE text == proxy[n].key
<1>1. text \in Texts
  BY ProxyCases DEF ProxyWriteText
<1>2. \/ SetClip(n, TextOffer(text), TRUE) /\ got' = got
      \/ got' = [got EXCEPT ![n] = {}] /\ UNCHANGED <<clip, notified>>
  BY DEF ProxyWriteText, TextOffer
<1> HIDE DEF text
<1>3. OfferOK(TextOffer(text))
  BY <1>1, TextOfferType
<1>4. /\ DOMAIN clip' = Nodes /\ \A k \in Nodes : OfferOK(clip'[k].offers) /\ clip'[k].remote \in BOOLEAN
      /\ notified' \in [Nodes -> BOOLEAN]
  <2>1. CASE SetClip(n, TextOffer(text), TRUE)
    BY <1>3, <2>1, SetClipType DEF TypeInv
  <2>2. CASE UNCHANGED <<clip, notified>>
    BY <2>2 DEF TypeInv
  <2> QED BY <1>2, <2>1, <2>2
<1>5. got' \in [Nodes -> SUBSET Entries]
  BY <1>2 DEF TypeInv
<1>6. proxy' \in [Nodes -> ProxyStates]
  <2>1. Idle \in ProxyStates
    BY DEF ProxyStates
  <2> QED BY <2>1 DEF ProxyWriteText, TypeInv
<1> QED BY <1>4, <1>5, <1>6 DEF ProxyWriteText, TypeInv

LEMMA NextType == TypeInv /\ [Next]_vars => TypeInv'
<1> SUFFICES ASSUME TypeInv, [Next]_vars PROVE TypeInv'
  OBVIOUS
<1>1. CASE UNCHANGED vars
  BY <1>1 DEF TypeInv, vars
<1>2. ASSUME NEW n \in Nodes, NEW paths \in Selections[n], UserCopy(n, paths) PROVE TypeInv'
  BY <1>2, UserCopyType
<1>3. ASSUME NEW n \in Nodes, NEW p \in DOMAIN Home[n], NEW v \in Versions, UserEdit(n, p, v) PROVE TypeInv'
  BY <1>3, UserEditType
<1>4. ASSUME NEW n \in Nodes, MonitorRead(n) \/ MonitorMark(n) \/ MonitorSend(n) PROVE TypeInv'
  BY <1>4, MonitorReadType, MonitorMarkType, MonitorSendType
<1>5. ASSUME NEW n \in Nodes,
             ProxyTake(n) \/ ProxyWriteFiles(n) \/ ProxyFallback(n) \/ ProxyWriteText(n)
      PROVE  TypeInv'
  BY <1>5, ProxyTakeType, ProxyWriteFilesType, ProxyFallbackType, ProxyWriteTextType
<1>6. ASSUME NEW n \in Nodes, NEW p \in DOMAIN Home[n], UserRemove(n, p) PROVE TypeInv'
  BY <1>6, UserRemoveType
<1> QED BY <1>1, <1>2, <1>3, <1>4, <1>5, <1>6 DEF Next

LEMMA TypeInvHolds == Spec => []TypeInv
<1>1. Init => TypeInv
  BY InitType
<1>2. TypeInv /\ [Next]_vars => TypeInv'
  BY NextType
<1> QED BY <1>1, <1>2, PTL DEF Spec

LEMMA TypeInvIsTypeOK == TypeInv => TypeOK
<1> SUFFICES ASSUME TypeInv PROVE TypeOK
  OBVIOUS
<1>1. machine \in [Nodes -> Machines] /\ copies \in 0 .. MaxCopies /\ edits \in 0 .. MaxEdits
  BY DEF TypeInv
<1>2. ASSUME NEW n \in Nodes
      PROVE  /\ \A p \in DOMAIN fs[n] : fs[n][p] \in Versions \cup {Dir, Torn}
             /\ \A p \in DOMAIN fs[n] : \A q \in Ancestors(p) : IsDirectory(fs[n], q)
             /\ DOMAIN clip[n].offers \subseteq Types /\ clip[n].remote \in BOOLEAN
             /\ notified[n] \in BOOLEAN
             /\ DOMAIN dedup[n] = {"files", "text"}
             /\ monitor[n].pc \in {"idle", "files", "text", "send"}
             /\ proxy[n].pc \in {"idle", "files", "text"}
             /\ \A c \in ToSet(inbox[n]) : c.type \in {"File", "Files", "Text"}
             /\ \A e \in got[n] : Entry(e)
  <2>1. /\ \A p \in DOMAIN fs[n] : fs[n][p] \in Versions \cup {Dir, Torn}
        /\ \A p \in DOMAIN fs[n] : \A q \in Ancestors(p) : IsDirectory(fs[n], q)
    BY DEF TypeInv, DiskOK, Values
  <2>2. /\ DOMAIN clip[n].offers \subseteq Types /\ clip[n].remote \in BOOLEAN
        /\ notified[n] \in BOOLEAN
        /\ DOMAIN dedup[n] = {"files", "text"}
    BY DEF TypeInv, OfferOK
  <2>3. monitor[n].pc \in {"idle", "files", "text", "send"} /\ proxy[n].pc \in {"idle", "files", "text"}
    BY MonitorCases, ProxyCases
  <2>4. \A c \in Contents : c.type \in {"File", "Files", "Text"}
    BY DEF Contents
  <2>5. ToSet(inbox[n]) \subseteq Contents
    BY SeqValues DEF TypeInv
  <2>6. ASSUME NEW e \in got[n] PROVE Entry(e)
    <3>1. e.name \in Paths /\ e.bytes \in Versions \cup {Torn}
      BY DEF TypeInv, Entries, Values
    <3>2. Len(e.name) \in Nat /\ Len(e.name) # 0
      BY <3>1, PathIsNames, SeqValues, EmptySeq
    <3> QED BY <3>1, <3>2 DEF Entry
  <2> QED BY <2>1, <2>2, <2>3, <2>4, <2>5, <2>6
<1> QED BY <1>1, <1>2 DEF TypeOK

\* Every variable has its type; the paths of every machine are a tree, whatever
\* save_received_files has written, failed to write or written in part.
THEOREM TypeOKHolds == Spec => []TypeOK
  BY TypeInvHolds, TypeInvIsTypeOK, PTL

LEMMA PlainConcat ==
    ASSUME NEW p \in Paths, NEW q \in Paths, IsPlain(p), IsPlain(q)
    PROVE  IsPlain(p \o q)
<1>1. /\ p \in Seq(FileNames) /\ q \in Seq(FileNames) /\ Len(p) \in Nat /\ Len(q) \in Nat
      /\ DOMAIN p = 1 .. Len(p) /\ DOMAIN q = 1 .. Len(q)
  BY PathIsNames, SeqValues
<1>2. /\ p \o q \in Seq(FileNames) /\ Len(p \o q) = Len(p) + Len(q)
      /\ \A i \in 1 .. Len(p) : (p \o q)[i] = p[i]
      /\ \A i \in 1 .. Len(q) : (p \o q)[Len(p) + i] = q[i]
  BY <1>1, ConcatFacts
<1>3. DOMAIN (p \o q) = 1 .. Len(p) + Len(q)
  BY <1>2, SeqValues
<1>4. ASSUME NEW i \in 1 .. Len(p) + Len(q) PROVE (p \o q)[i] \in ToSet(p) \cup ToSet(q)
  <2>1. CASE i <= Len(p)
    <3>1. i \in 1 .. Len(p)
      BY <1>1, <2>1
    <3> QED BY <1>1, <1>2, <3>1 DEF ToSet
  <2>2. CASE i > Len(p)
    <3>1. i - Len(p) \in 1 .. Len(q) /\ Len(p) + (i - Len(p)) = i
      BY <1>1, <2>2
    <3>2. (p \o q)[i] = q[i - Len(p)]
      BY <1>2, <3>1
    <3> QED BY <1>1, <3>1, <3>2 DEF ToSet
  <2> QED BY <1>1, <2>1, <2>2
<1>5. ToSet(p \o q) \subseteq ToSet(p) \cup ToSet(q)
  BY <1>3, <1>4 DEF ToSet
<1> QED BY <1>5 DEF IsPlain

LEMMA PlainAncestor ==
    ASSUME NEW p \in Paths, IsPlain(p), NEW q \in Ancestors(p)
    PROVE  IsPlain(q)
<1>1. /\ q \in Paths /\ Len(q) \in 1 .. Len(p) - 1 /\ Len(p) \in Nat
      /\ \A i \in 1 .. Len(q) : q[i] = p[i]
  BY AncestorFacts
<1>2. DOMAIN q = 1 .. Len(q) /\ DOMAIN p = 1 .. Len(p)
  BY <1>1, PathIsNames, SeqValues
<1>3. \A i \in 1 .. Len(q) : i \in 1 .. Len(p)
  BY <1>1
<1>4. ToSet(q) \subseteq ToSet(p)
  BY <1>1, <1>2, <1>3 DEF ToSet
<1> QED BY <1>4 DEF IsPlain

\* A suffix of a path, element by element.
LEMMA SuffixFacts ==
    ASSUME NEW q \in Paths, NEW k \in 1 .. Len(q)
    PROVE  LET s == SubSeq(q, k, Len(q))
           IN  /\ s \in Paths /\ Len(s) = Len(q) - k + 1 /\ Len(q) \in Nat
               /\ \A i \in 1 .. Len(s) : s[i] = q[k + i - 1]
               /\ ToSet(s) \subseteq ToSet(q)
<1> DEFINE s == SubSeq(q, k, Len(q))
<1>1. q \in Seq(FileNames) /\ Len(q) \in Nat /\ DOMAIN q = 1 .. Len(q) /\ \A i \in 1 .. Len(q) : q[i] \in FileNames
  BY PathIsNames, SeqValues
<1>2. k \in Int /\ Len(q) \in Int /\ k <= Len(q) /\ \A i \in k .. Len(q) : q[i] \in FileNames
  BY <1>1
<1>3. /\ s \in Seq(FileNames)
      /\ Len(s) = IF k <= Len(q) THEN Len(q) - k + 1 ELSE 0
      /\ \A i \in 1 .. Len(q) - k + 1 : s[i] = q[k + i - 1]
  BY <1>2, SubSeqProperties
<1>4. Len(s) = Len(q) - k + 1
  BY <1>2, <1>3
<1> HIDE DEF s
<1>5. Len(<<>>) = 0
  OBVIOUS
<1>6. Len(s) # 0
  BY <1>1, <1>4
<1>7. s \in Paths
  BY <1>3, <1>5, <1>6 DEF Paths
<1>8. DOMAIN s = 1 .. Len(s)
  BY <1>3, SeqValues
<1>9. \A i \in 1 .. Len(s) : k + i - 1 \in 1 .. Len(q)
  BY <1>1, <1>4
<1>10. ToSet(s) \subseteq ToSet(q)
  BY <1>1, <1>3, <1>4, <1>8, <1>9 DEF ToSet
<1> QED BY <1>1, <1>3, <1>4, <1>7, <1>10 DEF s

\* The names of the entries of paths that are plain are plain.
LEMMA PlainEntries ==
    ASSUME NEW f, FilesOK(f), \A p \in DOMAIN f : IsPlain(p), NEW paths \in Seq(Paths),
           NEW e \in ToSet(CollectFiles(f, paths))
    PROVE  IsPlain(e.name)
<1>1. PICK p \in ToSet(paths) : e \in ToSet(EntriesOf(f, p))
  BY CollectFilesFacts
<1>2. p \in Paths
  BY SeqValues
<1>3. PICK q \in DOMAIN f : IsPrefix(p, q) /\ e = [name |-> SubSeq(q, Len(p), Len(q)), bytes |-> f[q]]
  BY <1>1, <1>2, EntriesOfFacts
<1>4. q \in Paths /\ Len(p) \in Nat /\ Len(q) \in Nat /\ Len(p) # 0
  BY <1>2, PathIsNames, SeqValues, EmptySeq DEF FilesOK
<1>5. Len(p) \in 1 .. Len(q)
  BY <1>3, <1>4 DEF IsPrefix
<1>6. ToSet(SubSeq(q, Len(p), Len(q))) \subseteq ToSet(q)
  BY <1>4, <1>5, SuffixFacts
<1>7. e.name = SubSeq(q, Len(p), Len(q)) /\ IsPlain(q)
  BY <1>3
<1> QED BY <1>6, <1>7 DEF IsPlain

\* Sequences without common elements, none of which has an element twice.
Injective(s) == \A i, j \in DOMAIN s : s[i] = s[j] => i = j

LEMMA ConcatInjective ==
    ASSUME NEW D, NEW s \in Seq(D), NEW t \in Seq(D), Injective(s), Injective(t), ToSet(s) \cap ToSet(t) = {}
    PROVE  Injective(s \o t) /\ ToSet(s \o t) = ToSet(s) \cup ToSet(t)
<1>1. /\ Len(s) \in Nat /\ DOMAIN s = 1 .. Len(s) /\ Len(t) \in Nat /\ DOMAIN t = 1 .. Len(t)
      /\ s \o t \in Seq(D) /\ Len(s \o t) = Len(s) + Len(t)
      /\ \A i \in 1 .. Len(s) : (s \o t)[i] = s[i]
      /\ \A i \in 1 .. Len(t) : (s \o t)[Len(s) + i] = t[i]
  BY SeqValues, ConcatFacts
<1>2. DOMAIN (s \o t) = 1 .. Len(s) + Len(t)
  BY <1>1, SeqValues
<1> DEFINE w == s \o t
<1>3. w = s \o t
  OBVIOUS
<1> HIDE DEF w
<1>4. ASSUME NEW i \in 1 .. Len(s) + Len(t)
      PROVE  \/ i \in 1 .. Len(s) /\ w[i] = s[i] /\ w[i] \in ToSet(s)
             \/ i - Len(s) \in 1 .. Len(t) /\ w[i] = t[i - Len(s)] /\ w[i] \in ToSet(t)
  <2>1. CASE i <= Len(s)
    <3>1. i \in 1 .. Len(s)
      BY <1>1, <2>1
    <3> QED BY <1>1, <1>3, <3>1 DEF ToSet
  <2>2. CASE i > Len(s)
    <3>1. i - Len(s) \in 1 .. Len(t) /\ Len(s) + (i - Len(s)) = i
      BY <1>1, <2>2
    <3>2. w[i] = t[i - Len(s)]
      BY <1>1, <1>3, <3>1
    <3> QED BY <1>1, <3>1, <3>2 DEF ToSet
  <2> QED BY <1>1, <2>1, <2>2
<1>5. ASSUME NEW i \in 1 .. Len(s) + Len(t), NEW j \in 1 .. Len(s) + Len(t), w[i] = w[j] PROVE i = j
  <2>1. CASE i \in 1 .. Len(s)
    <3>1. w[i] = s[i] /\ w[i] \in ToSet(s)
      BY <1>1, <1>3, <2>1 DEF ToSet
    <3>2. j \in 1 .. Len(s) /\ w[j] = s[j]
      BY <1>4, <1>5, <3>1
    <3> QED BY <1>1, <1>5, <2>1, <3>1, <3>2 DEF Injective
  <2>2. CASE i \notin 1 .. Len(s)
    <3>1. i - Len(s) \in 1 .. Len(t) /\ w[i] = t[i - Len(s)] /\ w[i] \in ToSet(t)
      BY <1>4, <2>2
    <3>2. j - Len(s) \in 1 .. Len(t) /\ w[j] = t[j - Len(s)]
      BY <1>4, <1>5, <3>1
    <3>3. i - Len(s) = j - Len(s)
      BY <1>1, <1>5, <3>1, <3>2 DEF Injective
    <3> QED BY <1>1, <3>3
  <2> QED BY <2>1, <2>2
<1>6. Injective(w)
  BY <1>2, <1>3, <1>5 DEF Injective
<1>7. ToSet(w) \subseteq ToSet(s) \cup ToSet(t)
  BY <1>2, <1>3, <1>4 DEF ToSet
<1>8. ToSet(s) \subseteq ToSet(w)
  <2>1. \A i \in 1 .. Len(s) : i \in DOMAIN w
    BY <1>1, <1>2, <1>3
  <2> QED BY <1>1, <1>3, <2>1 DEF ToSet
<1>9. ToSet(t) \subseteq ToSet(w)
  <2>1. \A i \in 1 .. Len(t) : Len(s) + i \in DOMAIN w
    BY <1>1, <1>2, <1>3
  <2> QED BY <1>1, <1>3, <2>1 DEF ToSet
<1> QED BY <1>3, <1>6, <1>7, <1>8, <1>9

LEMMA FlattenInjective ==
    ASSUME NEW D, NEW ss \in Seq(Seq(D)), \A i \in DOMAIN ss : Injective(ss[i]),
           \A i, j \in DOMAIN ss : i # j => ToSet(ss[i]) \cap ToSet(ss[j]) = {}
    PROVE  Injective(FlattenSeq(ss))
<1> DEFINE n == Len(ss)
<1>1. PICK flat \in [0 .. n -> Seq(D)] :
        /\ flat[0] = <<>>
        /\ \A i \in 1 .. n : flat[i] = flat[i - 1] \o ss[i]
        /\ FlattenSeq(ss) = flat[n]
  BY FlattenSteps
<1>2. n \in Nat /\ DOMAIN ss = 1 .. n /\ \A i \in 1 .. n : ss[i] \in Seq(D)
  BY SeqValues
<1> DEFINE S == {k \in 0 .. n : Injective(flat[k]) /\ \A x \in ToSet(flat[k]) : \E i \in 1 .. k : x \in ToSet(ss[i])}
<1>3. 0 \in S
  <2>1. Injective(<<>>) /\ ToSet(<<>>) = {}
    BY DEF Injective, ToSet
  <2> QED BY <1>1, <1>2, <2>1
<1>4. ASSUME NEW k \in 0 .. n - 1, k \in S PROVE k + 1 \in S
  <2>1. k \in 0 .. n /\ k + 1 \in 1 .. n /\ k + 1 \in 0 .. n /\ k + 1 - 1 = k /\ k + 1 \in 1 .. k + 1
        /\ \A i \in 1 .. k : i \in 1 .. n /\ i # k + 1 /\ i \in 1 .. k + 1
    BY <1>2
  <2>2. flat[k + 1] = flat[k] \o ss[k + 1] /\ flat[k] \in Seq(D) /\ ss[k + 1] \in Seq(D) /\ Injective(ss[k + 1])
    <3>1. \A i \in 1 .. n : flat[i] = flat[i - 1] \o ss[i]
      BY <1>1
    <3> HIDE DEF n, S
    <3>2. flat[k + 1] = flat[k] \o ss[k + 1]
      <4>1. PICK j : j = k + 1 /\ j \in 1 .. n /\ j - 1 = k
        BY <2>1
      <4>2. flat[j] = flat[j - 1] \o ss[j]
        BY ONLY <3>1, <4>1
      <4>3. flat[j - 1] = flat[k]
        BY ONLY <4>1
      <4>4. flat[j] = flat[k] \o ss[j]
        BY ONLY <4>2, <4>3
      <4> QED BY ONLY <4>1, <4>4
    <3>3. flat[k] \in Seq(D) /\ ss[k + 1] \in Seq(D) /\ Injective(ss[k + 1])
      BY <1>1, <1>2, <2>1
    <3> QED BY <3>2, <3>3
  <2>3. Injective(flat[k]) /\ \A x \in ToSet(flat[k]) : \E i \in 1 .. k : x \in ToSet(ss[i])
    BY <1>4
  <2>4. ToSet(flat[k]) \cap ToSet(ss[k + 1]) = {}
    BY <1>2, <2>1, <2>3
  <2>5. Injective(flat[k + 1]) /\ ToSet(flat[k + 1]) = ToSet(flat[k]) \cup ToSet(ss[k + 1])
    BY <2>2, <2>3, <2>4, ConcatInjective
  <2>6. \A x \in ToSet(flat[k + 1]) : \E i \in 1 .. k + 1 : x \in ToSet(ss[i])
    BY <2>1, <2>3, <2>5
  <2> QED BY <2>1, <2>5, <2>6
<1>5. n \in S
  <2> HIDE DEF S, n
  <2>1. \A k \in 0 .. n : k \in S
    BY <1>2, <1>3, <1>4, InductionUpTo
  <2>2. n \in 0 .. n
    BY <1>2
  <2> QED BY <2>1, <2>2
<1> QED BY <1>1, <1>5

LEMMA SiblingFacts ==
    ASSUME NEW p \in Paths, NEW q \in Paths, Front(p) = Front(q), p[Len(p)] = q[Len(q)]
    PROVE  p = q
<1>1. /\ p \in Seq(FileNames) /\ q \in Seq(FileNames) /\ Len(p) \in Nat /\ Len(q) \in Nat
      /\ Len(p) # 0 /\ Len(q) # 0
  BY PathIsNames, SeqValues, EmptySeq
<1> DEFINE a == Len(p) - 1
           b == Len(q) - 1
<1>2. a \in 0 .. Len(p) /\ b \in 0 .. Len(q) /\ Len(p) = a + 1 /\ Len(q) = b + 1
  BY <1>1
<1>3. SubSeq(p, 1, a) = SubSeq(q, 1, b)
  BY DEF Front
<1> HIDE DEF a, b
<1>4. Len(SubSeq(p, 1, a)) = a /\ \A i \in 1 .. a : SubSeq(p, 1, a)[i] = p[i]
  BY <1>1, <1>2, FrontFacts
<1>5. Len(SubSeq(q, 1, b)) = b /\ \A i \in 1 .. b : SubSeq(q, 1, b)[i] = q[i]
  BY <1>1, <1>2, FrontFacts
<1>6. a = b
  BY <1>3, <1>4, <1>5
<1>7. \A i \in 1 .. a : p[i] = q[i]
  BY <1>3, <1>4, <1>5, <1>6
<1>8. Len(p) = Len(q) /\ \A i \in 1 .. Len(p) : i \in 1 .. a \/ i = Len(p)
  BY <1>1, <1>2, <1>6
<1>9. \A i \in 1 .. Len(p) : p[i] = q[i]
  BY <1>7, <1>8
<1> QED BY <1>1, <1>8, <1>9, SameSequence

\* Entries of siblings have the same name only if they are the same.
LEMMA EntryOrigin ==
    ASSUME NEW f, FilesOK(f), NEW p1 \in Paths, NEW p2 \in Paths, Front(p1) = Front(p2),
           NEW e1 \in ToSet(EntriesOf(f, p1)), NEW e2 \in ToSet(EntriesOf(f, p2)), e1.name = e2.name
    PROVE  p1 = p2 /\ e1 = e2
<1>1. PICK q1 \in DOMAIN f : IsPrefix(p1, q1) /\ e1 = [name |-> SubSeq(q1, Len(p1), Len(q1)), bytes |-> f[q1]]
  BY EntriesOfFacts
<1>2. PICK q2 \in DOMAIN f : IsPrefix(p2, q2) /\ e2 = [name |-> SubSeq(q2, Len(p2), Len(q2)), bytes |-> f[q2]]
  BY EntriesOfFacts
<1>3. q1 \in Paths /\ q2 \in Paths
  BY DEF FilesOK
<1> DEFINE s1 == SubSeq(q1, Len(p1), Len(q1))
           s2 == SubSeq(q2, Len(p2), Len(q2))
<1>4. Len(p1) \in 1 .. Len(q1) /\ Len(q1) \in Nat /\ \A i \in 1 .. Len(p1) : q1[i] = p1[i]
  BY <1>1, <1>3, PrefixFacts
<1>5. Len(p2) \in 1 .. Len(q2) /\ Len(q2) \in Nat /\ \A i \in 1 .. Len(p2) : q2[i] = p2[i]
  BY <1>2, <1>3, PrefixFacts
<1>6. Len(s1) = Len(q1) - Len(p1) + 1 /\ \A i \in 1 .. Len(s1) : s1[i] = q1[Len(p1) + i - 1]
  BY <1>3, <1>4, SuffixFacts
<1>7. Len(s2) = Len(q2) - Len(p2) + 1 /\ \A i \in 1 .. Len(s2) : s2[i] = q2[Len(p2) + i - 1]
  BY <1>3, <1>5, SuffixFacts
<1>8. s1 = s2
  BY <1>1, <1>2
<1> HIDE DEF s1, s2
<1>9. 1 \in 1 .. Len(s1) /\ 1 \in 1 .. Len(s2) /\ Len(p1) + 1 - 1 = Len(p1) /\ Len(p2) + 1 - 1 = Len(p2)
  BY <1>4, <1>5, <1>6, <1>7
<1>10. s1[1] = q1[Len(p1)] /\ s2[1] = q2[Len(p2)]
  BY <1>6, <1>7, <1>9
<1>11. q1[Len(p1)] = p1[Len(p1)] /\ q2[Len(p2)] = p2[Len(p2)]
  BY <1>4, <1>5
<1>12. p1 = p2
  BY <1>8, <1>10, <1>11, SiblingFacts
<1>13. Len(q1) = Len(q2)
  BY <1>4, <1>5, <1>6, <1>7, <1>8, <1>12
<1>14. ASSUME NEW i \in 1 .. Len(q1) PROVE q1[i] = q2[i]
  <2>1. CASE i <= Len(p1)
    <3>1. i \in 1 .. Len(p1)
      BY <1>4, <2>1
    <3> QED BY <1>4, <1>5, <1>12, <3>1
  <2>2. CASE i > Len(p1)
    <3>1. PICK j : j = i - Len(p1) + 1 /\ j \in 1 .. Len(s1) /\ Len(p1) + j - 1 = i
      BY <1>4, <1>6, <2>2
    <3>2. s1[j] = q1[i]
      BY <1>6, <3>1
    <3>3. s2[j] = q2[i]
      BY <1>7, <1>8, <1>12, <3>1
    <3> QED BY <1>8, <3>2, <3>3
  <2> QED BY <1>4, <2>1, <2>2
<1>15. q1 = q2
  BY <1>3, <1>13, <1>14, PathIsNames, SameSequence
<1> QED BY <1>1, <1>2, <1>12, <1>15

\* What a user selects has no two entries of the same name.
LEMMA CollectDistinct ==
    ASSUME NEW f, FilesOK(f), NEW paths \in Seq(Paths),
           \A i, j \in DOMAIN paths : Front(paths[i]) = Front(paths[j]) /\ (paths[i] = paths[j] => i = j)
    PROVE  DistinctNames(CollectFiles(f, paths))
<1> DEFINE ss == [i \in DOMAIN paths |-> EntriesOf(f, paths[i])]
           all == CollectFiles(f, paths)
<1>1. Len(paths) \in Nat /\ DOMAIN paths = 1 .. Len(paths) /\ \A i \in 1 .. Len(paths) : paths[i] \in Paths
  BY SeqValues
<1>2. \A i \in 1 .. Len(paths) : EntriesOf(f, paths[i]) \in Seq(Entries) /\ Injective(EntriesOf(f, paths[i]))
  BY <1>1, EntriesOfFacts DEF Injective
<1>3. ss \in Seq(Seq(Entries)) /\ DOMAIN ss = DOMAIN paths
  BY <1>1, <1>2
<1>4. all = FlattenSeq(ss)
  BY DEF CollectFiles
<1>5. \A i \in DOMAIN ss : Injective(ss[i]) /\ ss[i] = EntriesOf(f, paths[i])
  BY <1>1, <1>2
<1> HIDE DEF ss
<1>6. ASSUME NEW i \in DOMAIN ss, NEW j \in DOMAIN ss, NEW e1 \in ToSet(ss[i]), NEW e2 \in ToSet(ss[j]), e1.name = e2.name
      PROVE  i = j /\ e1 = e2
  <2>1. paths[i] \in Paths /\ paths[j] \in Paths /\ Front(paths[i]) = Front(paths[j])
    BY <1>1, <1>3
  <2>2. e1 \in ToSet(EntriesOf(f, paths[i])) /\ e2 \in ToSet(EntriesOf(f, paths[j]))
    BY <1>5
  <2>3. paths[i] = paths[j] /\ e1 = e2
    BY <1>6, <2>1, <2>2, EntryOrigin
  <2> QED BY <1>3, <2>3
<1>7. \A i, j \in DOMAIN ss : i # j => ToSet(ss[i]) \cap ToSet(ss[j]) = {}
  BY <1>6
<1>8. Injective(FlattenSeq(ss))
  BY <1>3, <1>5, <1>7, FlattenInjective
<1>9. FlattenSeq(ss) \in Seq(Entries) /\ ToSet(FlattenSeq(ss)) = UNION {ToSet(ss[i]) : i \in DOMAIN ss}
  BY <1>3, FlattenElements
<1>10. ASSUME NEW i \in DOMAIN all, NEW j \in DOMAIN all, all[i].name = all[j].name PROVE i = j
  <2>1. all[i] \in ToSet(all) /\ all[j] \in ToSet(all)
    BY DEF ToSet
  <2> HIDE DEF all
  <2>2. PICK k \in DOMAIN ss : all[i] \in ToSet(ss[k])
    BY <1>4, <1>9, <2>1
  <2>3. PICK l \in DOMAIN ss : all[j] \in ToSet(ss[l])
    BY <1>4, <1>9, <2>1
  <2>4. all[i] = all[j]
    BY <1>6, <1>10, <2>2, <2>3
  <2> QED BY <1>4, <1>8, <2>4 DEF Injective
<1> HIDE DEF all
<1> QED BY <1>10 DEF DistinctNames, all

-------------------------------------------------------------------------------
(* One copy at a time: what users copy goes to the other machines once.      *)

\* All names are printable ASCII without "%" and without a blank at the end.
PlainNames == \A n \in Nodes : \A p \in DOMAIN Home[n] : IsPlain(p)

\* No machine sends URIs as text: where a file manager offers them, they are read as
\* a list of files.
ListsAreRead == \A m \in Machines : m.text = "uris" => ReadsLists(m)

NativeKinds == {"uri-list", "gnome", "hdrop"}
\* Paths to received files, below the receive directory, and lists of those that exist.
Received(q) == \E name \in Paths : q \in Outer(Dest(name))
ExistingList(n, paths) ==
    paths \in Seq(DOMAIN fs[n]) /\ paths # <<>> /\ \A q \in ToSet(paths) : Received(q)
LastOK ==
    /\ DOMAIN last = {"node", "paths", "entries", "seen", "again"}
    /\ last.node \in Nodes /\ last.paths \in Selections[last.node]

\* The machine where the user copied, with the only content there is to send.
OriginOK(o) ==
    /\ proxy[o] = Idle /\ inbox[o] = <<>>
    /\ notified[o] => /\ monitor[o] = Idle
                      /\ clip[o].offers = ManagerOffer(machine[o], last.paths) /\ clip[o].remote = FALSE
                      /\ last.paths \in Seq(DOMAIN fs[o])
    /\ monitor[o].pc # "idle" => monitor[o].remote = FALSE /\ ~notified[o]
    /\ monitor[o].pc = "files" => monitor[o].paths = last.paths
    /\ monitor[o].pc = "text" => monitor[o].text[1] = "paths"
    /\ monitor[o].pc = "send" =>
            \/ monitor[o].key[1] = "files" /\ monitor[o].key[2] = last.paths
            \/ monitor[o].key[1] = "text" /\ monitor[o].key[2][1] = "paths"
    /\ sent = 1 => ~notified[o] /\ monitor[o] = Idle

\* What a machine offers after a content has been received is what its dedup state has.
ReceivedOffer(n) ==
    \/ clip[n].offers = NoOffer
    \/ /\ ExistingList(n, dedup[n].files)
       /\ \E t \in NativeTypes(machine[n]) : clip[n].offers = NativeOffer(t, dedup[n].files)
    \/ /\ dedup[n].text \in Texts /\ dedup[n].text[1] = "paths"
       /\ clip[n].offers = TextOffer(dedup[n].text)

\* The content that is on its way.
ArrivingOK(c) ==
    /\ c.type = "Text" => c.text[1] = "paths"
    /\ c.type # "Text" => DistinctNames(c.entries) /\ \A e \in ToSet(c.entries) : IsPlain(e.name)

ReceiverOK(n) ==
    /\ monitor[n].pc # "send"
    /\ monitor[n].pc = "files" => monitor[n].paths = dedup[n].files
    /\ monitor[n].pc = "text" => monitor[n].text = dedup[n].text
    /\ proxy[n].pc # "idle" => monitor[n] = Idle
    /\ proxy[n].pc = "files" => /\ ~notified[n] /\ proxy[n].key = dedup[n].files
                                /\ ExistingList(n, proxy[n].key)
    /\ proxy[n].pc = "text" => /\ notified[n] => clip[n].offers = NoOffer
                               /\ proxy[n].key = dedup[n].text /\ proxy[n].key[1] = "paths"
    /\ notified[n] => clip[n].remote = TRUE /\ ReceivedOffer(n)
    /\ inbox[n] # <<>> => /\ Len(inbox[n]) = 1 /\ ArrivingOK(Head(inbox[n]))
                          /\ ~notified[n] /\ monitor[n] = Idle /\ proxy[n] = Idle

WaveInv ==
    /\ \A n \in Nodes : \A p \in DOMAIN fs[n] : IsPlain(p)
    /\ sent \in {0, 1}
    /\ copies = 0 => Quiet /\ sent = 0
    /\ copies # 0 =>
        /\ LastOK /\ OriginOK(last.node)
        /\ \A n \in Nodes \ {last.node} :
                ReceiverOK(n) /\ (sent = 0 => LocallyQuiet(n))

-------------------------------------------------------------------------------
(* The wave is an invariant.                                                 *)

\* A step of another machine.
SameNode(k) ==
    /\ machine'[k] = machine[k] /\ fs'[k] = fs[k] /\ clip'[k] = clip[k] /\ notified'[k] = notified[k]
    /\ dedup'[k] = dedup[k] /\ monitor'[k] = monitor[k] /\ proxy'[k] = proxy[k] /\ inbox'[k] = inbox[k]

LEMMA SameReceiver ==
    ASSUME NEW k, SameNode(k)
    PROVE  /\ ReceiverOK(k) => ReceiverOK(k)'
           /\ LocallyQuiet(k) => LocallyQuiet(k)'
<1>1. ExistingList(k, proxy[k].key)' <=> ExistingList(k, proxy[k].key)
  BY DEF SameNode, ExistingList
<1>2. ReceivedOffer(k)' <=> ReceivedOffer(k)
  BY DEF SameNode, ReceivedOffer, ExistingList
<1>3. ReceiverOK(k) => ReceiverOK(k)'
  BY <1>1, <1>2 DEF SameNode, ReceiverOK
<1>4. LocallyQuiet(k) => LocallyQuiet(k)'
  BY DEF SameNode, LocallyQuiet
<1> QED BY <1>3, <1>4

LEMMA QuietReceiver ==
    ASSUME NEW k, LocallyQuiet(k)
    PROVE  ReceiverOK(k)
  BY DEF LocallyQuiet, ReceiverOK, Idle

\* A step of machine n preserves the invariant if it does so at n.
LEMMA WaveStep ==
    ASSUME WaveInv, NEW n \in Nodes, copies # 0, UNCHANGED <<last, sent, copies>>,
           \A k \in Nodes : k # n => SameNode(k), machine' = machine,
           \A p \in DOMAIN fs'[n] : IsPlain(p),
           n = last.node => OriginOK(n)',
           n # last.node => ReceiverOK(n)' /\ (sent = 0 => LocallyQuiet(n)')
    PROVE  WaveInv'
<1>1. LastOK' /\ last'.node = last.node
  BY DEF WaveInv, LastOK
<1>2. last.node \in Nodes
  BY DEF WaveInv, LastOK
<1>3. OriginOK(last.node)'
  <2>1. CASE n = last.node
    BY <2>1
  <2>2. CASE n # last.node
    <3>1. SameNode(last.node)
      BY <1>2, <2>2
    <3>2. OriginOK(last.node)
      BY DEF WaveInv
    <3> QED BY <3>1, <3>2 DEF SameNode, OriginOK
  <2> QED BY <2>1, <2>2
<1>4. ASSUME NEW k \in Nodes \ {last.node} PROVE ReceiverOK(k)' /\ (sent' = 0 => LocallyQuiet(k)')
  <2>1. CASE k = n
    BY <2>1
  <2>2. CASE k # n
    BY <2>2, SameReceiver DEF WaveInv
  <2> QED BY <2>1, <2>2
<1>5. ASSUME NEW k \in Nodes PROVE \A p \in DOMAIN fs'[k] : IsPlain(p)
  <2>1. CASE k = n
    BY <2>1
  <2>2. CASE k # n
    BY <2>2 DEF WaveInv, SameNode
  <2> QED BY <2>1, <2>2
<1>6. sent' \in {0, 1} /\ copies' # 0
  BY DEF WaveInv
<1> QED BY <1>1, <1>3, <1>4, <1>5, <1>6 DEF WaveInv

LEMMA InitWave ==
    ASSUME PlainNames
    PROVE  Init => WaveInv
<1> SUFFICES ASSUME Init PROVE WaveInv
  OBVIOUS
<1>1. \A n \in Nodes : \A p \in DOMAIN fs[n] : IsPlain(p)
  BY DEF Init, PlainNames
<1>2. Quiet /\ sent = 0 /\ copies = 0
  BY DEF Init, Quiet, LocallyQuiet
<1> QED BY <1>1, <1>2 DEF WaveInv

\* The paths that the user copied.
LEMMA LastExists ==
    ASSUME WaveInv, copies # 0
    PROVE  LET o == last.node
               list == last.paths
           IN  o \in Nodes /\ list \in Selections[o] /\ list # <<>> /\ list \in Seq(Paths)
<1>1. last.node \in Nodes /\ last.paths \in Selections[last.node]
  BY DEF WaveInv, LastOK
<1> QED BY <1>1, SelectionType

\* A machine that has something to do is not the only thing that is not at rest.
LEMMA NotQuiet ==
    ASSUME WaveInv, NEW n \in Nodes, ~LocallyQuiet(n)
    PROVE  copies # 0 /\ (n # last.node => sent = 1)
  BY DEF WaveInv, Quiet

LEMMA UserCopyWave ==
    ASSUME TypeInv, WaveInv, NEW n \in Nodes, NEW paths \in Selections[n], UserCopy(n, paths)
    PROVE  WaveInv'
<1>1. \A k \in Nodes : LocallyQuiet(k)
  BY DEF UserCopy, Quiet
<1>2. copies' # 0 /\ sent' = 0
  BY DEF UserCopy, TypeInv
<1>3. LastOK' /\ last'.node = n /\ last'.paths = paths
  BY DEF UserCopy, LastOK
<1>4. DOMAIN clip = Nodes /\ notified \in [Nodes -> BOOLEAN]
  BY DEF TypeInv
<1>5. /\ clip'[n] = [offers |-> ManagerOffer(machine[n], paths), remote |-> FALSE]
      /\ \A k \in Nodes : k # n => clip'[k] = clip[k] /\ notified'[k] = notified[k]
  BY <1>4 DEF UserCopy, SetClip
<1>6. OriginOK(n)'
  <2>1. /\ proxy'[n] = Idle /\ inbox'[n] = <<>> /\ monitor'[n] = Idle /\ monitor'[n].pc = "idle"
    BY <1>1 DEF UserCopy, LocallyQuiet, Idle
  <2>2. clip'[n].offers = ManagerOffer(machine'[n], last'.paths) /\ clip'[n].remote = FALSE
    BY <1>3, <1>5 DEF UserCopy
  <2>3. last'.paths \in Seq(DOMAIN fs'[n])
    <3>1. paths \in Seq(Paths) /\ ToSet(paths) \subseteq DOMAIN fs'[n]
      BY SelectionType DEF UserCopy
    <3>2. Len(paths) \in Nat /\ DOMAIN paths = 1 .. Len(paths) /\ paths \in [1 .. Len(paths) -> Paths]
      BY <3>1, SeqValues
    <3>3. \A i \in 1 .. Len(paths) : paths[i] \in DOMAIN fs'[n]
      BY <3>1, <3>2 DEF ToSet
    <3>4. paths \in [1 .. Len(paths) -> DOMAIN fs'[n]]
      BY <3>2, <3>3
    <3>5. paths \in Seq(DOMAIN fs'[n])
      BY <3>2, <3>4
    <3> QED BY <1>3, <3>5
  <2> QED BY <1>2, <2>1, <2>2, <2>3 DEF OriginOK
<1>7. ASSUME NEW k \in Nodes \ {n} PROVE ReceiverOK(k)' /\ LocallyQuiet(k)'
  <2>1. SameNode(k)
    BY <1>5 DEF UserCopy, SameNode
  <2> QED BY <1>1, <2>1, SameReceiver, QuietReceiver
<1>8. \A k \in Nodes : \A p \in DOMAIN fs'[k] : IsPlain(p)
  BY DEF WaveInv, UserCopy
<1> QED BY <1>2, <1>3, <1>6, <1>7, <1>8 DEF WaveInv

LEMMA UserEditWave ==
    ASSUME TypeInv, WaveInv, NEW n \in Nodes, NEW p \in DOMAIN Home[n], NEW v \in Versions, UserEdit(n, p, v)
    PROVE  WaveInv'
<1>1. DOMAIN fs'[n] = DOMAIN fs[n] /\ Keeps(fs[n], fs'[n]) /\ \A k \in Nodes : k # n => fs'[k] = fs[k]
  BY EditFacts
<1>2. UNCHANGED <<machine, clip, notified, dedup, monitor, proxy, inbox, got, sent, copies>>
  BY DEF UserEdit
<1>3. \A k \in Nodes : DOMAIN fs'[k] = DOMAIN fs[k] /\ Keeps(fs[k], fs'[k])
  BY <1>1 DEF Keeps
<1>4. \A k \in Nodes : \A q \in DOMAIN fs'[k] : IsPlain(q)
  BY <1>3 DEF WaveInv
<1>5. \A k \in Nodes : ReceiverOK(k) => ReceiverOK(k)'
  <2>1. SUFFICES ASSUME NEW k \in Nodes PROVE ReceiverOK(k) => ReceiverOK(k)'
    OBVIOUS
  <2>2. ExistingList(k, proxy[k].key)' <=> ExistingList(k, proxy[k].key)
    BY <1>2, <1>3 DEF ExistingList
  <2>3. ReceivedOffer(k)' <=> ReceivedOffer(k)
    BY <1>2, <1>3 DEF ReceivedOffer, ExistingList
  <2> QED BY <1>2, <2>2, <2>3 DEF ReceiverOK
<1>6. \A k \in Nodes : LocallyQuiet(k) <=> LocallyQuiet(k)'
  BY <1>2 DEF LocallyQuiet
<1>7. ASSUME copies = 0 PROVE Quiet' /\ sent' = 0
  <2>1. Quiet /\ sent = 0
    BY <1>7 DEF WaveInv
  <2> QED BY <1>2, <1>6, <2>1 DEF Quiet
<1>8. ASSUME copies # 0 PROVE LastOK' /\ last'.node = last.node /\ last'.paths = last.paths
  <2>1. LastOK
    BY <1>8 DEF WaveInv
  <2>2. last' = last \/ last' = [last EXCEPT !.seen = last.seen \cup ToSet(CollectFiles(fs'[n], last.paths))]
    BY DEF UserEdit
  <2> QED BY <2>1, <2>2 DEF LastOK
<1>9. ASSUME copies # 0 PROVE OriginOK(last.node)'
  <2>1. OriginOK(last.node)
    BY <1>9 DEF WaveInv
  <2>2. last'.paths = last.paths /\ last'.node = last.node
    BY <1>8, <1>9
  <2>3. DOMAIN fs'[last.node] = DOMAIN fs[last.node]
    BY <1>3, <1>9 DEF WaveInv, LastOK
  <2> QED BY <1>2, <2>1, <2>2, <2>3 DEF OriginOK
<1>10. ASSUME copies # 0, NEW k \in Nodes \ {last.node} PROVE ReceiverOK(k)' /\ (sent' = 0 => LocallyQuiet(k)')
  BY <1>2, <1>5, <1>6, <1>10 DEF WaveInv
<1>11. sent' \in {0, 1} /\ copies' = copies
  BY <1>2 DEF WaveInv
<1> QED BY <1>4, <1>7, <1>8, <1>9, <1>10, <1>11 DEF WaveInv

\* What leads to received files is not removed.
LEMMA NotRemoved ==
    ASSUME NEW p, Apart(p), ReceiveDir \in Paths, NEW name \in Paths,
           NEW q \in Ancestors(Dest(name)) \cup {Dest(name)}
    PROVE  ~IsPrefix(p, q)
<1> DEFINE d == Dest(name)
<1>1. p \in Paths /\ ~IsPrefix(p, ReceiveDir) /\ ~IsPrefix(ReceiveDir, p)
  BY DEF Apart
<1>2. /\ d \in Paths /\ Len(ReceiveDir) \in Nat
      /\ \A i \in 1 .. Len(ReceiveDir) : d[i] = ReceiveDir[i]
  BY DestFacts
<1> HIDE DEF d
<1>3. ASSUME IsPrefix(p, d) PROVE FALSE
  <2>1. Len(p) \in 1 .. Len(d) /\ Len(d) \in Nat /\ \A i \in 1 .. Len(p) : d[i] = p[i]
    BY <1>1, <1>2, <1>3, PrefixFacts
  <2>2. CASE Len(p) <= Len(ReceiveDir)
    <3>1. \A i \in 1 .. Len(p) : ReceiveDir[i] = p[i]
      BY <1>2, <2>1, <2>2
    <3> QED BY <1>1, <2>2, <3>1, PrefixOf
  <2>3. CASE Len(ReceiveDir) <= Len(p)
    <3>1. \A i \in 1 .. Len(ReceiveDir) : p[i] = ReceiveDir[i]
      BY <1>2, <2>1, <2>3
    <3> QED BY <1>1, <2>3, <3>1, PrefixOf
  <2> QED BY <1>2, <2>1, <2>2, <2>3
<1>4. IsPrefix(p, q) => IsPrefix(p, d)
  BY <1>1, <1>2, PrefixOfAncestor DEF d
<1> QED BY <1>3, <1>4

LEMMA StillThereFacts ==
    ASSUME LastOK, NEW entries
    PROVE  LET l == StillThere(entries)
           IN  /\ DOMAIN l = DOMAIN last /\ l.node = last.node /\ l.paths = last.paths
               /\ l.seen = last.seen /\ l.again = last.again
               /\ l.entries = {e \in last.entries : e.name \in Names(entries)}
  BY DEF LastOK, StillThere

LEMMA UserRemoveWave ==
    ASSUME TypeInv, WaveInv, NEW n \in Nodes, NEW p \in DOMAIN Home[n], UserRemove(n, p)
    PROVE  WaveInv'
<1>1. /\ DOMAIN fs'[n] = {q \in DOMAIN fs[n] : ~IsPrefix(p, q)} /\ Apart(p)
      /\ \A k \in Nodes : k # n => fs'[k] = fs[k]
  BY RemoveFacts
<1>2. UNCHANGED <<machine, clip, notified, dedup, monitor, proxy, inbox, got, sent, copies>>
  BY DEF UserRemove
<1>3. \A k \in Nodes : DOMAIN fs'[k] \subseteq DOMAIN fs[k]
  BY <1>1
<1>4. \A k \in Nodes : \A q \in DOMAIN fs'[k] : IsPlain(q)
  BY <1>3 DEF WaveInv
<1>5. ASSUME NEW k \in Nodes, NEW paths, ExistingList(k, paths) PROVE paths \in Seq(DOMAIN fs'[k]) /\ paths # <<>> /\ \A q \in ToSet(paths) : Received(q)
  <2>1. paths \in Seq(DOMAIN fs[k]) /\ paths # <<>> /\ \A q \in ToSet(paths) : Received(q)
    BY <1>5 DEF ExistingList
  <2>2. ASSUME NEW q \in ToSet(paths) PROVE q \in DOMAIN fs'[k]
    <3>1. q \in DOMAIN fs[k] /\ Received(q) /\ ReceiveDir \in Paths
      BY <2>1, SeqValues DEF TypeInv, DiskOK
    <3>2. ~IsPrefix(p, q)
      BY <1>1, <3>1, NotRemoved DEF Received, Outer
    <3> QED BY <1>1, <3>1, <3>2
  <2>3. Len(paths) \in Nat /\ DOMAIN paths = 1 .. Len(paths) /\ paths \in [1 .. Len(paths) -> DOMAIN fs[k]]
    BY <2>1, SeqValues
  <2>4. \A i \in 1 .. Len(paths) : paths[i] \in DOMAIN fs'[k]
    BY <2>2, <2>3 DEF ToSet
  <2>5. paths \in [1 .. Len(paths) -> DOMAIN fs'[k]]
    BY <2>3, <2>4
  <2> QED BY <2>1, <2>3, <2>5
<1>6. \A k \in Nodes : ReceiverOK(k) => ReceiverOK(k)'
  <2>1. SUFFICES ASSUME NEW k \in Nodes PROVE ReceiverOK(k) => ReceiverOK(k)'
    OBVIOUS
  <2>2. ExistingList(k, proxy[k].key) => ExistingList(k, proxy[k].key)'
    BY <1>2, <1>5 DEF ExistingList
  <2>3. ReceivedOffer(k) => ReceivedOffer(k)'
    <3>1. ExistingList(k, dedup[k].files) => ExistingList(k, dedup[k].files)'
      BY <1>2, <1>5 DEF ExistingList
    <3> QED BY <1>2, <3>1 DEF ReceivedOffer
  <2> QED BY <1>2, <2>2, <2>3 DEF ReceiverOK
<1>7. \A k \in Nodes : LocallyQuiet(k) <=> LocallyQuiet(k)'
  BY <1>2 DEF LocallyQuiet
<1>8. ASSUME copies = 0 PROVE Quiet' /\ sent' = 0
  <2>1. Quiet /\ sent = 0
    BY <1>8 DEF WaveInv
  <2> QED BY <1>2, <1>7, <2>1 DEF Quiet
<1>9. ASSUME copies # 0 PROVE LastOK' /\ last'.node = last.node /\ last'.paths = last.paths
  <2>1. LastOK
    BY <1>9 DEF WaveInv
  <2>2. last' = last \/ last' = StillThere(ToSet(CollectFiles(fs'[n], last.paths)))
    BY DEF UserRemove
  <2>3. DOMAIN last' = DOMAIN last /\ last'.node = last.node /\ last'.paths = last.paths
    BY <2>1, <2>2, StillThereFacts
  <2> QED BY <2>1, <2>3 DEF LastOK
<1>10. ASSUME copies # 0 PROVE OriginOK(last.node)'
  <2> DEFINE o == last.node
             list == last.paths
  <2>1. OriginOK(o) /\ o \in Nodes /\ list \in Seq(Paths)
    BY <1>10, LastExists DEF WaveInv
  <2>2. last'.paths = list /\ last'.node = o
    BY <1>9, <1>10
  <2>3. ASSUME notified[o] PROVE list \in Seq(DOMAIN fs'[o])
    <3>1. list \in Seq(DOMAIN fs[o])
      BY <2>1, <2>3 DEF OriginOK
    <3>2. CASE o # n
      BY <1>1, <2>1, <3>1, <3>2
    <3>3. CASE o = n
      <4>1. \A q \in ToSet(list) : ~IsPrefix(p, q)
        BY <2>3, <3>3 DEF UserRemove
      <4> HIDE DEF list
      <4>2. ToSet(list) \subseteq DOMAIN fs[o]
        BY <3>1, SeqValues
      <4>3. Len(list) \in Nat /\ DOMAIN list = 1 .. Len(list) /\ list \in [1 .. Len(list) -> DOMAIN fs[o]]
        BY <3>1, SeqValues
      <4>4. \A i \in 1 .. Len(list) : list[i] \in DOMAIN fs'[o]
        BY <1>1, <3>3, <4>1, <4>2, <4>3 DEF ToSet
      <4>5. list \in [1 .. Len(list) -> DOMAIN fs'[o]]
        BY <4>3, <4>4
      <4> QED BY <4>3, <4>5
    <3> QED BY <3>2, <3>3
  <2> QED BY <1>2, <2>1, <2>2, <2>3 DEF OriginOK
<1>11. ASSUME copies # 0, NEW k \in Nodes \ {last.node} PROVE ReceiverOK(k)' /\ (sent' = 0 => LocallyQuiet(k)')
  BY <1>2, <1>6, <1>7, <1>11 DEF WaveInv
<1>12. sent' \in {0, 1} /\ copies' = copies
  BY <1>2 DEF WaveInv
<1> QED BY <1>4, <1>8, <1>9, <1>10, <1>11, <1>12 DEF WaveInv

\* What the monitor reads of what the user copied.
LEMMA OriginReads ==
    ASSUME TypeInv, WaveInv, copies # 0, notified[last.node]
    PROVE  LET o == last.node
           IN  get_clipboard_file_list(machine[o], ManagerOffer(machine[o], last.paths), DOMAIN fs[o])
                    = IF ReadsLists(machine[o]) THEN last.paths ELSE <<>>
<1> DEFINE o == last.node
           list == last.paths
<1>1. o \in Nodes /\ list # <<>> /\ list \in Seq(DOMAIN fs[o]) /\ \A p \in ToSet(list) : IsPlain(p)
  <2>1. o \in Nodes /\ list # <<>>
    BY LastExists
  <2>2. list \in Seq(DOMAIN fs[o]) /\ \A p \in DOMAIN fs[o] : IsPlain(p)
    BY <2>1 DEF WaveInv, OriginOK
  <2> HIDE DEF o, list
  <2>3. ToSet(list) \subseteq DOMAIN fs[o]
    BY <2>2, SeqValues
  <2> QED BY <2>1, <2>2, <2>3
<1>2. machine[o] \in AllMachines
  BY <1>1, MachineType
<1>3. DOMAIN fs[o] \subseteq Paths
  BY <1>1 DEF TypeInv, DiskOK
<1>4. \A p \in ToSet(list) : IsAscii(p)
  BY <1>1, PlainIsAscii
<1> HIDE DEF o, list
<1>5. get_clipboard_file_list(machine[o], ManagerOffer(machine[o], list), DOMAIN fs[o])
        = IF ReadsLists(machine[o]) THEN list ELSE <<>>
  BY <1>1, <1>2, <1>3, <1>4, ReadsCopy
<1> QED BY <1>5 DEF o, list

\* What is the same at the machines other than n.
LEMMA ReadOthers ==
    ASSUME TypeInv, NEW n \in Nodes, MonitorRead(n)
    PROVE  /\ \A k \in Nodes : k # n => SameNode(k)
           /\ UNCHANGED <<last, sent, copies, machine, fs, clip, dedup, proxy, inbox>>
           /\ notified'[n] = FALSE
<1>1. notified' = [notified EXCEPT ![n] = FALSE] /\ notified \in [Nodes -> BOOLEAN] /\ monitor \in [Nodes -> MonitorStates]
  BY DEF MonitorRead, TypeInv
<1>2. UNCHANGED <<last, sent, copies, machine, fs, clip, dedup, proxy, inbox>>
  BY DEF MonitorRead
<1>3. \A k \in Nodes : k # n => monitor'[k] = monitor[k]
  <2>1. (\E x : monitor' = [monitor EXCEPT ![n] = x]) \/ monitor' = monitor
    BY DEF MonitorRead
  <2> QED BY <1>1, <2>1
<1> QED BY <1>1, <1>2, <1>3 DEF SameNode

LEMMA MonitorReadCases ==
    ASSUME TypeInv, NEW n \in Nodes, MonitorRead(n)
    PROVE  LET offers == clip[n].offers
               paths == get_clipboard_file_list(machine[n], offers, DOMAIN fs[n])
               texts == DOMAIN offers \cap TextTypes
           IN  /\ notified[n] /\ monitor[n] = Idle
               /\ \/ paths # <<>> /\ monitor'[n] = [pc |-> "files", paths |-> paths, remote |-> clip[n].remote]
                  \/ /\ paths = <<>>
                     /\ \E t \in texts : monitor'[n] = [pc |-> "text", text |-> <<t, offers[t]>>, remote |-> clip[n].remote]
                  \/ paths = <<>> /\ texts = {} /\ monitor'[n] = Idle
<1>1. notified[n] /\ monitor[n] = Idle /\ monitor \in [Nodes -> MonitorStates]
  BY DEF MonitorRead, TypeInv
<1>2. \A x : [monitor EXCEPT ![n] = x][n] = x
  BY <1>1
<1> QED BY <1>1, <1>2 DEF MonitorRead

LEMMA MonitorReadWave ==
    ASSUME TypeInv, WaveInv, PlainNames, ListsAreRead, NEW n \in Nodes, MonitorRead(n)
    PROVE  WaveInv'
<1> DEFINE offers == clip[n].offers
           paths == get_clipboard_file_list(machine[n], offers, DOMAIN fs[n])
           texts == DOMAIN offers \cap TextTypes
           Files == monitor'[n] = [pc |-> "files", paths |-> paths, remote |-> clip[n].remote]
           Text(t) == monitor'[n] = [pc |-> "text", text |-> <<t, offers[t]>>, remote |-> clip[n].remote]
<1>1. /\ notified[n] /\ monitor[n] = Idle
      /\ \/ paths # <<>> /\ Files
         \/ paths = <<>> /\ \E t \in texts : Text(t)
         \/ paths = <<>> /\ texts = {} /\ monitor'[n] = Idle
  BY MonitorReadCases
<1>2. /\ \A k \in Nodes : k # n => SameNode(k)
      /\ UNCHANGED <<last, sent, copies, machine, fs, clip, dedup, proxy, inbox>>
      /\ notified'[n] = FALSE
  BY ReadOthers
<1>3. copies # 0 /\ (n # last.node => sent = 1)
  <2>1. ~LocallyQuiet(n)
    BY <1>1 DEF LocallyQuiet
  <2> QED BY <2>1, NotQuiet
<1>4. \A p \in DOMAIN fs'[n] : IsPlain(p)
  BY <1>2 DEF WaveInv
<1>5. machine[n] \in AllMachines /\ machine[n] \in Machines
  BY MachineType DEF TypeInv
<1>6. Idle.pc = "idle"
  BY DEF Idle
<1>7. ASSUME n = last.node PROVE OriginOK(n)'
  <2>1. OriginOK(n)
    BY <1>3, <1>7 DEF WaveInv
  <2>2. /\ offers = ManagerOffer(machine[n], last.paths) /\ clip[n].remote = FALSE
        /\ proxy[n] = Idle /\ inbox[n] = <<>> /\ sent # 1
    BY <1>1, <2>1 DEF OriginOK
  <2>3. paths = IF ReadsLists(machine[n]) THEN last.paths ELSE <<>>
    BY <1>1, <1>3, <1>7, <2>2, OriginReads
  <2>4. last.paths # <<>>
    BY <1>3, LastExists
  <2>5. CASE paths # <<>> /\ Files
    <3>1. monitor'[n].pc = "files" /\ monitor'[n].paths = last'.paths /\ monitor'[n].remote = FALSE
      BY <1>2, <2>2, <2>3, <2>5
    <3> QED BY <1>2, <2>2, <3>1 DEF OriginOK
  <2>6. ASSUME paths = <<>>, NEW t \in texts, Text(t) PROVE OriginOK(n)'
    <3>1. texts \subseteq {machine[n].text}
      BY <1>5, <2>2, ManagerOfferFacts
    <3>2. ~ReadsLists(machine[n])
      BY <2>3, <2>4, <2>6
    <3>3. machine[n].text # "uris"
      BY <1>5, <3>2 DEF ListsAreRead
    <3>4. t = "paths"
      BY <2>6, <3>1, <3>3 DEF TextTypes
    <3> HIDE DEF offers, paths
    <3>5. monitor'[n].pc = "text" /\ monitor'[n].text = <<t, offers[t]>> /\ monitor'[n].remote = FALSE
      BY <2>2, <2>6
    <3>6. monitor'[n].text[1] = "paths"
      BY <3>4, <3>5
    <3> QED BY <1>2, <2>2, <3>5, <3>6 DEF OriginOK
  <2>7. CASE monitor'[n] = Idle
    BY <1>2, <1>6, <2>2, <2>7 DEF OriginOK
  <2> QED BY <1>1, <2>5, <2>6, <2>7
<1>8. ASSUME n # last.node PROVE ReceiverOK(n)'
  <2>1. ReceiverOK(n)
    BY <1>3, <1>8 DEF WaveInv
  <2>2. ReceivedOffer(n) /\ inbox[n] = <<>> /\ proxy[n].pc # "files" /\ (proxy[n].pc = "text" => offers = NoOffer)
    BY <1>1, <2>1 DEF ReceiverOK
  <2>3. /\ proxy[n].pc = "text" => proxy[n].key = dedup[n].text /\ proxy[n].key[1] = "paths"
        /\ proxy[n].pc \in {"idle", "text"}
    BY <2>1, <2>2, ProxyCases DEF ReceiverOK
  <2>4. ASSUME monitor'[n].pc # "send",
               monitor'[n].pc = "files" => monitor'[n].paths = dedup[n].files,
               monitor'[n].pc = "text" => monitor'[n].text = dedup[n].text,
               offers = NoOffer => monitor'[n] = Idle
        PROVE  ReceiverOK(n)'
    <3> HIDE DEF offers, paths, texts
    <3>1. proxy'[n] = proxy[n] /\ dedup'[n] = dedup[n] /\ inbox'[n] = <<>> /\ notified'[n] = FALSE
      BY <1>2, <2>2
    <3>2. proxy[n].pc # "idle" => monitor'[n] = Idle
      BY <2>2, <2>3, <2>4
    <3> QED BY <2>2, <2>3, <2>4, <3>1, <3>2 DEF ReceiverOK
  <2>5. CASE offers = NoOffer
    <3>1. DOMAIN offers = {}
      BY <2>5 DEF NoOffer
    <3>2. paths = <<>>
      BY <1>5, <3>1, ReadsNoList
    <3>3. monitor'[n] = Idle
      BY <1>1, <3>1, <3>2
    <3> HIDE DEF offers, paths
    <3> QED BY <1>6, <2>4, <3>3
  <2>6. ASSUME NEW t \in NativeTypes(machine[n]), ExistingList(n, dedup[n].files), offers = NativeOffer(t, dedup[n].files)
        PROVE  ReceiverOK(n)'
    <3> DEFINE list == dedup[n].files
    <3>1. list \in Seq(DOMAIN fs[n]) /\ list # <<>> /\ DOMAIN fs[n] \subseteq Paths
      BY <2>6 DEF ExistingList, TypeInv, DiskOK
    <3>2. \A p \in ToSet(list) : IsPlain(p)
      <4>1. ToSet(list) \subseteq DOMAIN fs[n]
        BY <3>1, SeqValues
      <4> QED BY <4>1 DEF WaveInv
    <3> HIDE DEF list
    <3>3. /\ get_clipboard_file_list(machine[n], NativeOffer(t, list), DOMAIN fs[n]) \in {<<>>, list}
          /\ DOMAIN NativeOffer(t, list) \cap TextTypes = {}
      BY <1>5, <3>1, <3>2, ReadsOwnList
    <3>4. DOMAIN NativeOffer(t, list) = {t} /\ DOMAIN NoOffer = {}
      BY <1>5, NativeFacts DEF NoOffer
    <3>5. paths \in {<<>>, list} /\ texts = {} /\ offers # NoOffer
      BY <2>6, <3>3, <3>4 DEF list
    <3>6. monitor'[n] = Idle \/ (Files /\ paths = list)
      BY <1>1, <3>5
    <3> HIDE DEF offers, paths
    <3>7. CASE monitor'[n] = Idle
      BY <1>6, <2>4, <3>7
    <3>8. CASE Files /\ paths = list
      <4>1. monitor'[n].pc = "files" /\ monitor'[n].paths = list
        BY <3>8
      <4> QED BY <2>4, <3>5, <4>1 DEF list
    <3> QED BY <3>6, <3>7, <3>8
  <2>7. ASSUME dedup[n].text \in Texts, dedup[n].text[1] = "paths", offers = TextOffer(dedup[n].text)
        PROVE  ReceiverOK(n)'
    <3> DEFINE text == dedup[n].text
    <3>1. /\ DOMAIN TextOffer(text) = {text[1]} /\ TextOffer(text)[text[1]] = text[2]
          /\ text = <<text[1], text[2]>>
      BY <2>7, TextOfferType
    <3>2. text[1] = "paths" /\ offers = TextOffer(text)
      BY <2>7
    <3> HIDE DEF text
    <3>3. DOMAIN offers = {"paths"} /\ DOMAIN NoOffer = {}
      BY <3>1, <3>2 DEF NoOffer
    <3>4. paths = <<>>
      BY <1>5, <3>3, ReadsNoList
    <3>5. texts = {"paths"} /\ offers # NoOffer /\ offers["paths"] = text[2]
      BY <3>1, <3>2, <3>3 DEF TextTypes
    <3>6. Text("paths")
      BY <1>1, <3>4, <3>5
    <3> HIDE DEF offers, paths, texts
    <3>7. monitor'[n].pc = "text" /\ monitor'[n].text = <<"paths", offers["paths"]>>
      BY <3>6
    <3>8. monitor'[n].text = text
      BY <3>1, <3>2, <3>5, <3>7
    <3> QED BY <2>4, <3>5, <3>7, <3>8 DEF text
  <2> QED BY <2>2, <2>5, <2>6, <2>7 DEF ReceivedOffer
<1> HIDE DEF offers, paths, texts
<1> QED BY <1>2, <1>3, <1>4, <1>7, <1>8, WaveStep

LEMMA MonitorMarkWave ==
    ASSUME TypeInv, WaveInv, NEW n \in Nodes, MonitorMark(n)
    PROVE  WaveInv'
<1> DEFINE kind == monitor[n].pc
           key == IF kind = "files" THEN monitor[n].paths ELSE monitor[n].text
           send == [pc |-> "send", key |-> <<kind, key>>, remote |-> monitor[n].remote]
<1>1. /\ kind \in {"files", "text"} /\ UNCHANGED <<machine, fs, clip, notified, proxy, inbox, last, sent, copies>>
      /\ \/ /\ dedup[n][kind] = key /\ dedup' = dedup /\ monitor' = [monitor EXCEPT ![n] = Idle]
         \/ /\ dedup[n][kind] # key /\ monitor' = [monitor EXCEPT ![n] = send]
            /\ dedup' = [dedup EXCEPT ![n] = [DedupNew EXCEPT ![kind] = key]]
  BY DEF MonitorMark, IsNew
<1>2. monitor \in [Nodes -> MonitorStates] /\ DOMAIN dedup = Nodes
  BY DEF TypeInv
<1>3. /\ \/ dedup[n][kind] = key /\ monitor'[n] = Idle
         \/ dedup[n][kind] # key /\ monitor'[n] = send
      /\ \A k \in Nodes : k # n => monitor'[k] = monitor[k] /\ dedup'[k] = dedup[k]
  <2> HIDE DEF kind, key, send
  <2> QED BY <1>1, <1>2
<1>4. \A k \in Nodes : k # n => SameNode(k)
  BY <1>1, <1>3 DEF SameNode
<1>5. copies # 0 /\ (n # last.node => sent = 1)
  <2>1. ~LocallyQuiet(n)
    BY <1>1 DEF LocallyQuiet, Idle
  <2> QED BY <2>1, NotQuiet
<1>6. \A p \in DOMAIN fs'[n] : IsPlain(p)
  BY <1>1 DEF WaveInv
<1>7. Idle.pc = "idle"
  BY DEF Idle
<1>8. ASSUME n = last.node PROVE OriginOK(n)'
  <2>1. OriginOK(n)
    BY <1>5, <1>8 DEF WaveInv
  <2>2. /\ proxy[n] = Idle /\ inbox[n] = <<>> /\ ~notified[n] /\ monitor[n].remote = FALSE /\ sent # 1
        /\ kind = "files" => key = last.paths
        /\ kind = "text" => key[1] = "paths"
    BY <1>1, <1>7, <2>1 DEF OriginOK
  <2>3. CASE monitor'[n] = Idle
    BY <1>1, <1>7, <2>2, <2>3 DEF OriginOK
  <2>4. CASE monitor'[n] = send
    <3> HIDE DEF kind, key
    <3>1. monitor'[n].pc = "send" /\ monitor'[n].key = <<kind, key>> /\ monitor'[n].remote = FALSE
      BY <2>2, <2>4
    <3>2. monitor'[n].key[1] = kind /\ monitor'[n].key[2] = key
      BY <3>1
    <3> QED BY <1>1, <2>2, <3>1, <3>2 DEF OriginOK
  <2> QED BY <1>3, <2>3, <2>4
<1>9. ASSUME n # last.node PROVE ReceiverOK(n)'
  <2>1. ReceiverOK(n)
    BY <1>5, <1>9 DEF WaveInv
  <2>2. dedup[n][kind] = key
    BY <1>1, <2>1 DEF ReceiverOK
  <2>3. monitor'[n] = Idle /\ dedup' = dedup
    BY <1>1, <1>3, <2>2
  <2>4. ReceivedOffer(n)' <=> ReceivedOffer(n)
    BY <1>1, <2>3 DEF ReceivedOffer, ExistingList
  <2>5. ExistingList(n, proxy[n].key)' <=> ExistingList(n, proxy[n].key)
    BY <1>1 DEF ExistingList
  <2> QED BY <1>1, <1>7, <2>1, <2>3, <2>4, <2>5 DEF ReceiverOK
<1> HIDE DEF kind, key
<1> QED BY <1>1, <1>4, <1>5, <1>6, <1>8, <1>9, WaveStep

LEMMA SelectedDistinct ==
    ASSUME TypeInv, WaveInv, copies # 0, NEW gone
    PROVE  LET all == CollectFiles(Without(fs[last.node], gone), last.paths)
           IN  /\ all \in Seq(Entries) /\ DistinctNames(all)
               /\ \A e \in ToSet(all) : IsPlain(e.name)
<1> DEFINE f == fs[last.node]
           g == Without(f, gone)
<1>1. last.node \in Nodes /\ last.paths \in Selections[last.node] /\ last.paths \in Seq(Paths)
  BY LastExists
<1>2. \A i, j \in DOMAIN last.paths :
        Front(last.paths[i]) = Front(last.paths[j]) /\ (last.paths[i] = last.paths[j] => i = j)
  BY <1>1, SelectionsAssumption
<1>3. FilesOK(f) /\ \A p \in DOMAIN f : IsPlain(p)
  BY <1>1, DiskFiles DEF TypeInv, WaveInv
<1> HIDE DEF f
<1>4. FilesOK(g) /\ DOMAIN g \subseteq DOMAIN f
  BY <1>3, WithoutFacts
<1> HIDE DEF g
<1>5. CollectFiles(g, last.paths) \in Seq(Entries)
  BY <1>1, <1>4, CollectFilesFacts
<1>6. DistinctNames(CollectFiles(g, last.paths))
  BY <1>1, <1>2, <1>4, CollectDistinct
<1>7. \A e \in ToSet(CollectFiles(g, last.paths)) : IsPlain(e.name)
  BY <1>1, <1>3, <1>4, PlainEntries
<1> QED BY <1>5, <1>6, <1>7 DEF f, g

\* A content goes to all other machines, where nothing is on its way, or nothing is sent.
SendsTo(n, c) == sent' = 1 /\ inbox'[n] = inbox[n] /\ \A k \in Nodes : k # n => inbox'[k] = <<c>>
SendsNothing == sent' = 0 /\ inbox' = inbox
SendsFiles(n, all) ==
    /\ last' = StillThere(ToSet(all))
    /\ \/ ArrivingOK(FilesContent(all)) /\ SendsTo(n, FilesContent(all))
       \/ all = <<>> /\ SendsNothing

\* Only the machine where the user copied sends, and only once.
LEMMA SendCases ==
    ASSUME TypeInv, WaveInv, NEW n \in Nodes, MonitorSend(n)
    PROVE  LET kind == monitor[n].key[1]
           IN  /\ n = last.node /\ copies # 0 /\ sent = 0 /\ monitor'[n] = Idle
               /\ \A k \in Nodes : k # n => monitor'[k] = monitor[k]
               /\ UNCHANGED <<machine, fs, clip, notified, dedup, proxy, got, copies, edits>>
               /\ \/ kind = "text" /\ last' = last /\ \E c : ArrivingOK(c) /\ SendsTo(n, c)
                  \/ kind = "files" /\ \E gone : SendsFiles(n, CollectFiles(Without(fs[n], gone), last.paths))
<1> DEFINE kind == monitor[n].key[1]
           key == monitor[n].key[2]
           entries(gone) == CollectFiles(Without(fs[n], gone), key)
<1>1. /\ monitor[n].pc = "send" /\ monitor' = [monitor EXCEPT ![n] = Idle]
      /\ UNCHANGED <<machine, fs, clip, notified, dedup, proxy, got, copies, edits>>
      /\ \/ kind = "text" /\ last' = last /\ Send(n, TextContent(key))
         \/ /\ kind = "files"
            /\ \E gone :
                /\ \/ Send(n, FilesContent(entries(gone)))
                   \/ entries(gone) = <<>> /\ inbox' = inbox /\ sent' = sent
                /\ last' = IF monitor[n].remote THEN last ELSE StillThere(ToSet(entries(gone)))
  BY DEF MonitorSend
<1>2. monitor \in [Nodes -> MonitorStates] /\ inbox \in [Nodes -> Seq(Contents)]
  BY DEF TypeInv
<1>3. monitor'[n] = Idle /\ \A k \in Nodes : k # n => monitor'[k] = monitor[k]
  BY <1>1, <1>2
<1>4. copies # 0
  <2>1. ~LocallyQuiet(n)
    BY <1>1 DEF LocallyQuiet, Idle
  <2> QED BY <2>1, NotQuiet
<1>5. n = last.node
  BY <1>1, <1>4 DEF WaveInv, ReceiverOK
<1>6. /\ sent = 0 /\ monitor[n].remote = FALSE
      /\ \/ kind = "files" /\ key = last.paths
         \/ kind = "text" /\ key[1] = "paths"
  <2>1. OriginOK(n)
    BY <1>4, <1>5 DEF WaveInv
  <2> QED BY <1>1, <2>1 DEF OriginOK, WaveInv, Idle
<1>7. \A k \in Nodes : k # n => inbox[k] = <<>>
  BY <1>4, <1>5, <1>6 DEF WaveInv, LocallyQuiet
<1>8. ASSUME NEW c, Send(n, c) PROVE SendsTo(n, c)
  <2>1. /\ inbox' = [m \in Nodes |-> IF m = n THEN inbox[m] ELSE Append(inbox[m], c)]
        /\ sent' = sent + 1
    BY <1>8 DEF Send
  <2>2. Append(<<>>, c) = <<c>>
    OBVIOUS
  <2>3. sent' = 1 /\ inbox'[n] = inbox[n]
    BY <1>6, <2>1
  <2>4. \A k \in Nodes : k # n => inbox'[k] = <<c>>
    BY <1>7, <2>1, <2>2
  <2> QED BY <2>3, <2>4 DEF SendsTo
<1>9. CASE kind = "text" /\ last' = last /\ Send(n, TextContent(key))
  <2>1. ArrivingOK(TextContent(key))
    <3>1. key[1] = "paths"
      BY <1>6, <1>9
    <3> HIDE DEF key
    <3> QED BY <3>1 DEF ArrivingOK, TextContent
  <2> HIDE DEF kind, key, entries
  <2> QED BY <1>1, <1>3, <1>4, <1>5, <1>6, <1>8, <1>9, <2>1 DEF kind
<1>10. ASSUME kind = "files", NEW gone,
              \/ Send(n, FilesContent(entries(gone)))
              \/ entries(gone) = <<>> /\ inbox' = inbox /\ sent' = sent,
              last' = IF monitor[n].remote THEN last ELSE StillThere(ToSet(entries(gone)))
       PROVE  SendsFiles(n, CollectFiles(Without(fs[n], gone), last.paths))
  <2> DEFINE all == CollectFiles(Without(fs[n], gone), last.paths)
  <2>1. entries(gone) = all
    BY <1>6, <1>10
  <2>2. all \in Seq(Entries) /\ DistinctNames(all) /\ \A e \in ToSet(all) : IsPlain(e.name)
    BY <1>4, <1>5, SelectedDistinct
  <2> HIDE DEF all, entries
  <2>3. ArrivingOK(FilesContent(all))
    BY <2>2 DEF ArrivingOK, FilesContent
  <2>4. last' = StillThere(ToSet(all))
    BY <1>6, <1>10, <2>1
  <2>5. SendsTo(n, FilesContent(all)) \/ (all = <<>> /\ SendsNothing)
    BY <1>6, <1>8, <1>10, <2>1 DEF SendsNothing
  <2> QED BY <2>3, <2>4, <2>5 DEF SendsFiles, all
<1> HIDE DEF kind, key, entries
<1>11. CASE kind = "files"
  <2>1. \E gone : SendsFiles(n, CollectFiles(Without(fs[n], gone), last.paths))
    BY <1>1, <1>10, <1>11
  <2> QED BY <1>1, <1>3, <1>4, <1>5, <1>6, <1>11, <2>1 DEF kind
<1> QED BY <1>1, <1>9, <1>11

LEMMA MonitorSendWave ==
    ASSUME TypeInv, WaveInv, NEW n \in Nodes, MonitorSend(n)
    PROVE  WaveInv'
<1>1. /\ n = last.node /\ copies # 0 /\ sent = 0 /\ monitor'[n] = Idle
      /\ \A k \in Nodes : k # n => monitor'[k] = monitor[k]
      /\ UNCHANGED <<machine, fs, clip, notified, dedup, proxy, got, copies, edits>>
      /\ \/ last' = last /\ \E c : ArrivingOK(c) /\ SendsTo(n, c)
         \/ \E all : SendsFiles(n, all)
  BY SendCases
<1>2. monitor[n].pc = "send"
  BY DEF MonitorSend
<1>3. OriginOK(n) /\ LastOK /\ \A k \in Nodes : k # n => LocallyQuiet(k) /\ ReceiverOK(k)
  BY <1>1 DEF WaveInv
<1>4. Idle.pc = "idle"
  BY DEF Idle
<1>5. LastOK' /\ last'.node = n /\ last'.paths = last.paths
  <2>1. last' = last \/ \E entries : last' = StillThere(entries)
    BY <1>1 DEF SendsFiles
  <2>2. DOMAIN last' = DOMAIN last /\ last'.node = last.node /\ last'.paths = last.paths
    BY <1>3, <2>1, StillThereFacts
  <2> QED BY <1>1, <1>3, <2>2 DEF LastOK
<1>6. SendsNothing \/ \E c : ArrivingOK(c) /\ SendsTo(n, c)
  BY <1>1 DEF SendsFiles
<1>7. inbox'[n] = inbox[n] /\ sent' \in {0, 1}
  BY <1>6 DEF SendsNothing, SendsTo
<1>8. OriginOK(n)'
  <2>1. proxy[n] = Idle /\ inbox[n] = <<>> /\ ~notified[n]
    BY <1>2, <1>3 DEF OriginOK
  <2> QED BY <1>1, <1>4, <1>7, <2>1 DEF OriginOK
<1>9. ASSUME SendsNothing, NEW k \in Nodes, k # n PROVE ReceiverOK(k)' /\ LocallyQuiet(k)'
  <2>1. SameNode(k)
    BY <1>1, <1>9 DEF SameNode, SendsNothing
  <2> QED BY <1>3, <1>9, <2>1, SameReceiver
<1>10. ASSUME NEW c, ArrivingOK(c), SendsTo(n, c), NEW k \in Nodes, k # n
       PROVE  ReceiverOK(k)' /\ sent' # 0
  <2>1. ~notified[k] /\ monitor[k] = Idle /\ proxy[k] = Idle
    BY <1>3, <1>10 DEF LocallyQuiet
  <2>2. Len(<<c>>) = 1 /\ Head(<<c>>) = c
    OBVIOUS
  <2>3. Len(inbox'[k]) = 1 /\ Head(inbox'[k]) = c /\ sent' = 1
    BY <1>10, <2>2 DEF SendsTo
  <2> QED BY <1>1, <1>4, <1>10, <2>1, <2>3 DEF ReceiverOK, ArrivingOK
<1>11. ASSUME NEW k \in Nodes \ {n} PROVE ReceiverOK(k)' /\ (sent' = 0 => LocallyQuiet(k)')
  BY <1>6, <1>9, <1>10
<1>12. \A k \in Nodes : \A p \in DOMAIN fs'[k] : IsPlain(p)
  BY <1>1 DEF WaveInv
<1> QED BY <1>1, <1>5, <1>7, <1>8, <1>11, <1>12 DEF WaveInv

\* The proxy takes a content only where the user has not copied.
LEMMA TakeFacts ==
    ASSUME TypeInv, WaveInv, NEW n \in Nodes, ProxyTake(n)
    PROVE  LET c == Head(inbox[n])
           IN  /\ copies # 0 /\ n # last.node /\ sent = 1
               /\ ArrivingOK(c) /\ inbox'[n] = <<>> /\ ~notified[n] /\ monitor[n] = Idle /\ proxy[n] = Idle
               /\ \A k \in Nodes : k # n => SameNode(k) /\ got'[k] = got[k]
               /\ UNCHANGED <<machine, clip, notified, monitor, last, sent, copies, edits>>
               /\ \/ TakesText(n, c) /\ c.text \in Texts
                  \/ /\ c.entries \in Seq(Entries) /\ DistinctNames(c.entries)
                     /\ \E outcomes \in [DOMAIN c.entries -> OutcomeKinds] :
                            /\ ~machine[n].fails => \A i \in DOMAIN c.entries : outcomes[i] = "written"
                            /\ TakesFiles(n, c, save_received_files(fs[n], c.entries, outcomes))
<1> DEFINE c == Head(inbox[n])
<1>1. /\ proxy[n] = Idle /\ inbox[n] # <<>>
      /\ inbox' = [inbox EXCEPT ![n] = Tail(@)]
      /\ UNCHANGED <<machine, clip, notified, monitor, last, sent, copies, edits>>
      /\ \/ TakesText(n, c)
         \/ \E outcomes \in Outcomes(n, c.entries) :
                TakesFiles(n, c, save_received_files(fs[n], c.entries, outcomes))
  BY TakeCases
<1>2. /\ c.type = "Text" => c.text \in Texts
      /\ c.type # "Text" => c.entries \in Seq(Entries)
  BY <1>1, HeadType
<1>3. copies # 0 /\ (n # last.node => sent = 1)
  <2>1. ~LocallyQuiet(n)
    BY <1>1 DEF LocallyQuiet
  <2> QED BY <2>1, NotQuiet
<1>4. n # last.node
  BY <1>1, <1>3 DEF WaveInv, OriginOK
<1>5. Len(inbox[n]) = 1 /\ ArrivingOK(c) /\ ~notified[n] /\ monitor[n] = Idle
  BY <1>1, <1>3, <1>4 DEF WaveInv, ReceiverOK
<1>6. inbox'[n] = <<>> /\ \A k \in Nodes : k # n => inbox'[k] = inbox[k]
  <2>1. inbox \in [Nodes -> Seq(Contents)]
    BY DEF TypeInv
  <2>2. Tail(inbox[n]) \in Seq(Contents) /\ Len(Tail(inbox[n])) = 0
    BY <1>1, <1>5, <2>1, HeadTailProperties
  <2>3. Tail(inbox[n]) = <<>>
    BY <2>2, EmptySeq
  <2> QED BY <1>1, <2>1, <2>3
<1> HIDE DEF c
<1>7. \A k \in Nodes : k # n => fs'[k] = fs[k] /\ got'[k] = got[k] /\ dedup'[k] = dedup[k] /\ proxy'[k] = proxy[k]
  <2>1. DOMAIN fs = Nodes /\ got \in [Nodes -> SUBSET Entries] /\ DOMAIN dedup = Nodes /\ proxy \in [Nodes -> ProxyStates]
    BY DEF TypeInv
  <2>2. ASSUME NEW kind, NEW key, Write(n, kind, key)
        PROVE \A k \in Nodes : k # n => dedup'[k] = dedup[k] /\ proxy'[k] = proxy[k]
    BY <2>1, <2>2 DEF Write
  <2>3. CASE TakesText(n, c)
    BY <2>1, <2>2, <2>3 DEF TakesText
  <2>4. ASSUME NEW r, TakesFiles(n, c, r)
        PROVE  \A k \in Nodes : k # n => fs'[k] = fs[k] /\ got'[k] = got[k] /\ dedup'[k] = dedup[k] /\ proxy'[k] = proxy[k]
    BY <2>1, <2>2, <2>4 DEF TakesFiles
  <2> QED BY <1>1, <2>3, <2>4
<1>8. \A k \in Nodes : k # n => SameNode(k) /\ got'[k] = got[k]
  BY <1>1, <1>6, <1>7 DEF SameNode
<1>9. ASSUME NEW outcomes \in Outcomes(n, c.entries),
             TakesFiles(n, c, save_received_files(fs[n], c.entries, outcomes))
      PROVE  /\ c.entries \in Seq(Entries) /\ DistinctNames(c.entries)
             /\ outcomes \in [DOMAIN c.entries -> OutcomeKinds]
             /\ ~machine[n].fails => \A i \in DOMAIN c.entries : outcomes[i] = "written"
  <2>1. c.type # "Text"
    BY <1>9 DEF TakesFiles
  <2> QED BY <1>2, <1>5, <2>1, OutcomesType DEF ArrivingOK
<1>10. CASE TakesText(n, c)
  <2>1. c.text \in Texts
    BY <1>2, <1>10 DEF TakesText
  <2> QED BY <1>1, <1>3, <1>4, <1>5, <1>6, <1>8, <1>10, <2>1 DEF c
<1>11. CASE \E outcomes \in Outcomes(n, c.entries) :
                TakesFiles(n, c, save_received_files(fs[n], c.entries, outcomes))
  <2>1. /\ c.entries \in Seq(Entries) /\ DistinctNames(c.entries)
        /\ \E outcomes \in [DOMAIN c.entries -> OutcomeKinds] :
                /\ ~machine[n].fails => \A i \in DOMAIN c.entries : outcomes[i] = "written"
                /\ TakesFiles(n, c, save_received_files(fs[n], c.entries, outcomes))
    BY <1>9, <1>11
  <2> QED BY <1>1, <1>3, <1>4, <1>5, <1>6, <1>8, <2>1 DEF c
<1> QED BY <1>1, <1>10, <1>11

\* The list that is put in the clipboard after files have been saved.
LEMMA TakenList ==
    ASSUME NEW f, DiskOK(f), NEW entries \in Seq(Entries), NEW outcomes \in [DOMAIN entries -> OutcomeKinds],
           NEW type, save_received_files(f, entries, outcomes).saved # <<>>,
           NEW paths \in ClipboardPaths(type, save_received_files(f, entries, outcomes).saved)
    PROVE  LET r == save_received_files(f, entries, outcomes)
           IN  /\ paths \in Seq(DOMAIN r.fs) /\ paths \in Seq(Paths) /\ paths # <<>>
               /\ ListsAll(paths, r.saved) /\ \A q \in ToSet(paths) : Received(q)
<1> DEFINE r == save_received_files(f, entries, outcomes)
           names == {e.name : e \in ToSet(entries)}
<1>1. /\ DiskOK(r.fs) /\ r.saved \in Seq(Paths)
      /\ ToSet(r.saved) \subseteq {Dest(e.name) : e \in ToSet(entries)} \cap DOMAIN r.fs
  BY SaveFacts
<1>2. names \subseteq Paths /\ ReceiveDir \in Paths
  <2>1. ToSet(entries) \subseteq Entries
    BY SeqValues
  <2>2. \A e \in Entries : e.name \in Paths
    BY DEF Entries
  <2> QED BY <2>1, <2>2 DEF DiskOK
<1>3. ToSet(r.saved) \subseteq {Dest(name) : name \in names}
  BY <1>1
<1> HIDE DEF r, names
<1>4. r.saved # <<>> /\ paths \in ClipboardPaths(type, r.saved)
  BY DEF r
<1>5. paths \in Seq(Paths) /\ paths # <<>> /\ ListsAll(paths, r.saved)
  BY <1>1, <1>2, <1>3, <1>4, ClipboardPathsFacts
<1>6. ToSet(paths) \subseteq DOMAIN r.fs
  <2>1. \A p \in DOMAIN r.fs : \A q \in Ancestors(p) : q \in DOMAIN r.fs
    BY <1>1 DEF DiskOK, IsDirectory
  <2> QED BY <1>1, <1>5, <2>1 DEF ListsAll, Outer
<1>7. paths \in Seq(DOMAIN r.fs)
  <2>1. Len(paths) \in Nat /\ DOMAIN paths = 1 .. Len(paths) /\ paths \in [1 .. Len(paths) -> Paths]
    BY <1>5, SeqValues
  <2>2. \A i \in 1 .. Len(paths) : paths[i] \in DOMAIN r.fs
    BY <1>6, <2>1 DEF ToSet
  <2>3. paths \in [1 .. Len(paths) -> DOMAIN r.fs]
    BY <2>1, <2>2
  <2> QED BY <2>1, <2>3
<1>8. \A q \in ToSet(paths) : Received(q)
  BY <1>2, <1>3, <1>5 DEF ListsAll, Received
<1> QED BY <1>5, <1>7, <1>8 DEF r

LEMMA ProxyTakeWave ==
    ASSUME TypeInv, WaveInv, NEW n \in Nodes, ProxyTake(n)
    PROVE  WaveInv'
<1> DEFINE c == Head(inbox[n])
<1>1. /\ copies # 0 /\ n # last.node /\ sent = 1
      /\ ArrivingOK(c) /\ inbox'[n] = <<>> /\ ~notified[n] /\ monitor[n] = Idle /\ proxy[n] = Idle
      /\ \A k \in Nodes : k # n => SameNode(k)
      /\ UNCHANGED <<machine, clip, notified, monitor, last, sent, copies, edits>>
      /\ \/ TakesText(n, c) /\ c.text \in Texts
         \/ /\ c.entries \in Seq(Entries)
            /\ \E outcomes \in [DOMAIN c.entries -> OutcomeKinds] :
                    TakesFiles(n, c, save_received_files(fs[n], c.entries, outcomes))
  BY TakeFacts
<1>2. Idle.pc = "idle"
  BY DEF Idle
<1> HIDE DEF c
<1>3. DiskOK(fs[n]) /\ \A p \in DOMAIN fs[n] : IsPlain(p)
  BY DEF TypeInv, WaveInv
<1>4. ReceiverOK(n)
  BY <1>1 DEF WaveInv
<1>5. CASE TakesText(n, c) /\ c.text \in Texts
  <2>1. Write(n, "text", c.text) /\ fs' = fs /\ c.type = "Text"
    BY <1>5 DEF TakesText
  <2>2. dedup'[n]["text"] = c.text /\ proxy'[n] = [pc |-> "text", key |-> c.text]
    <3>1. [pc |-> "text", key |-> c.text] \in ProxyStates
      BY <1>5 DEF ProxyStates
    <3> QED BY <2>1, <3>1, WriteType
  <2>3. proxy'[n].pc = "text" /\ proxy'[n].key = c.text /\ c.text[1] = "paths"
    BY <1>1, <2>1, <2>2 DEF ArrivingOK
  <2>4. ReceiverOK(n)'
    BY <1>1, <1>2, <2>2, <2>3 DEF ReceiverOK
  <2> QED BY <1>1, <1>3, <2>1, <2>4, WaveStep
<1>6. ASSUME c.entries \in Seq(Entries), NEW outcomes \in [DOMAIN c.entries -> OutcomeKinds],
             TakesFiles(n, c, save_received_files(fs[n], c.entries, outcomes))
      PROVE  WaveInv'
  <2> DEFINE r == save_received_files(fs[n], c.entries, outcomes)
             dests == {Dest(e.name) : e \in ToSet(c.entries)}
  <2>1. /\ DiskOK(r.fs) /\ Keeps(fs[n], r.fs)
        /\ DOMAIN r.fs \subseteq DOMAIN fs[n] \cup dests \cup UNION {Ancestors(p) : p \in dests}
    BY <1>3, <1>6, SaveFacts
  <2>2. ASSUME r.saved # <<>>, NEW paths \in ClipboardPaths(c.type, r.saved)
        PROVE  paths \in Seq(DOMAIN r.fs) /\ paths \in Seq(Paths) /\ paths # <<>>
               /\ \A q \in ToSet(paths) : Received(q)
    BY <1>3, <1>6, <2>2, TakenList
  <2>3. TakesFiles(n, c, r)
    BY <1>6
  <2> HIDE DEF r
  <2>4. fs'[n] = r.fs
    BY <2>3 DEF TakesFiles, TypeInv
  <2>6. \A d \in dests : d \in Paths /\ IsPlain(d)
    <3>1. SUFFICES ASSUME NEW e \in ToSet(c.entries) PROVE Dest(e.name) \in Paths /\ IsPlain(Dest(e.name))
      OBVIOUS
    <3>2. e.name \in Paths /\ IsPlain(e.name)
      <4>1. e \in Entries
        BY <1>6, SeqValues
      <4>2. c.type # "Text"
        BY <2>3 DEF TakesFiles
      <4> QED BY <1>1, <4>1, <4>2 DEF Entries, ArrivingOK
    <3>3. ReceiveDir \in Paths /\ IsPlain(ReceiveDir)
      BY <1>3 DEF DiskOK, IsDirectory
    <3> QED BY <3>2, <3>3, DestFacts, PlainConcat DEF Dest
  <2>7. \A p \in DOMAIN fs'[n] : IsPlain(p)
    <3> HIDE DEF dests
    <3>1. \A d \in dests : \A q \in Ancestors(d) : IsPlain(q)
      BY <2>6, PlainAncestor
    <3> QED BY <1>3, <2>1, <2>4, <2>6, <3>1
  <2>8. CASE UNCHANGED <<dedup, proxy>>
    <3>1. ReceiverOK(n)'
      BY <1>1, <1>2, <2>8 DEF ReceiverOK
    <3> QED BY <1>1, <2>7, <3>1, WaveStep
  <2>9. ASSUME r.saved # <<>>, NEW paths \in ClipboardPaths(c.type, r.saved), Write(n, "files", paths)
        PROVE  WaveInv'
    <3>1. paths \in Seq(DOMAIN r.fs) /\ paths \in Seq(Paths) /\ paths # <<>>
               /\ \A q \in ToSet(paths) : Received(q)
      BY <2>2, <2>9
    <3>2. [pc |-> "files", key |-> paths] \in ProxyStates
      BY <3>1 DEF ProxyStates
    <3>3. dedup'[n]["files"] = paths /\ proxy'[n] = [pc |-> "files", key |-> paths]
      BY <2>9, <3>2, WriteType
    <3>4. proxy'[n].pc = "files" /\ proxy'[n].key = paths
      BY <3>3
    <3>5. ExistingList(n, proxy[n].key)'
      BY <2>4, <3>1, <3>4 DEF ExistingList
    <3>6. ReceiverOK(n)'
      BY <1>1, <1>2, <3>3, <3>4, <3>5 DEF ReceiverOK
    <3> QED BY <1>1, <2>7, <3>6, WaveStep
  <2> QED BY <2>3, <2>8, <2>9 DEF TakesFiles
<1> QED BY <1>1, <1>5, <1>6

\* The proxy is at work only where the user has not copied.
LEMMA ProxyBusy ==
    ASSUME TypeInv, WaveInv, NEW n \in Nodes, proxy[n].pc # "idle"
    PROVE  /\ copies # 0 /\ n # last.node /\ sent = 1
           /\ ReceiverOK(n) /\ inbox[n] = <<>> /\ monitor[n] = Idle
<1>1. proxy[n] # Idle
  BY DEF Idle
<1>2. copies # 0 /\ (n # last.node => sent = 1)
  <2>1. ~LocallyQuiet(n)
    BY <1>1 DEF LocallyQuiet
  <2> QED BY <2>1, NotQuiet
<1>3. n # last.node
  BY <1>1, <1>2 DEF WaveInv, OriginOK
<1>4. ReceiverOK(n)
  BY <1>2, <1>3 DEF WaveInv
<1> QED BY <1>1, <1>2, <1>3, <1>4 DEF ReceiverOK

\* Setting the clipboard of n.
LEMMA SetClipFacts ==
    ASSUME TypeInv, NEW n \in Nodes, NEW offers, NEW remote, SetClip(n, offers, remote)
    PROVE  /\ clip'[n].offers = offers /\ clip'[n].remote = remote /\ notified'[n] = TRUE
           /\ \A k \in Nodes : k # n => clip'[k] = clip[k] /\ notified'[k] = notified[k]
<1>1. DOMAIN clip = Nodes /\ notified \in [Nodes -> BOOLEAN]
  BY DEF TypeInv
<1>2. /\ clip'[n] = [offers |-> offers, remote |-> remote] /\ notified'[n] = TRUE
      /\ \A k \in Nodes : k # n => clip'[k] = clip[k] /\ notified'[k] = notified[k]
  BY <1>1 DEF SetClip
<1> QED BY <1>2

LEMMA ProxyWriteFilesWave ==
    ASSUME TypeInv, WaveInv, NEW n \in Nodes, ProxyWriteFiles(n)
    PROVE  WaveInv'
<1>1. /\ proxy[n].pc = "files" /\ proxy' = [proxy EXCEPT ![n] = Idle]
      /\ UNCHANGED <<machine, fs, dedup, monitor, inbox, got, last, sent, copies, edits>>
  BY DEF ProxyWriteFiles
<1>2. PICK t \in NativeTypes(machine[n]) : SetClip(n, NativeOffer(t, proxy[n].key), TRUE)
  BY DEF ProxyWriteFiles
<1>3. /\ copies # 0 /\ n # last.node /\ sent = 1
      /\ ReceiverOK(n) /\ inbox[n] = <<>> /\ monitor[n] = Idle
  BY <1>1, ProxyBusy
<1>4. /\ clip'[n].offers = NativeOffer(t, proxy[n].key) /\ clip'[n].remote = TRUE /\ notified'[n] = TRUE
      /\ \A k \in Nodes : k # n => clip'[k] = clip[k] /\ notified'[k] = notified[k]
  BY <1>2, SetClipFacts
<1>5. proxy'[n] = Idle /\ \A k \in Nodes : k # n => proxy'[k] = proxy[k]
  BY <1>1 DEF TypeInv
<1>6. \A k \in Nodes : k # n => SameNode(k)
  BY <1>1, <1>4, <1>5 DEF SameNode
<1>7. proxy[n].key = dedup[n].files /\ ExistingList(n, dedup[n].files)
  BY <1>1, <1>3 DEF ReceiverOK
<1>8. ReceivedOffer(n)'
  BY <1>1, <1>4, <1>7 DEF ReceivedOffer, ExistingList
<1>9. Idle.pc = "idle"
  BY DEF Idle
<1>10. ReceiverOK(n)'
  BY <1>1, <1>3, <1>4, <1>5, <1>8, <1>9 DEF ReceiverOK
<1>11. \A p \in DOMAIN fs'[n] : IsPlain(p)
  BY <1>1 DEF WaveInv
<1> QED BY <1>1, <1>3, <1>6, <1>10, <1>11, WaveStep

LEMMA ProxyFallbackWave ==
    ASSUME TypeInv, WaveInv, NEW n \in Nodes, ProxyFallback(n)
    PROVE  WaveInv'
<1> DEFINE text == <<"paths", proxy[n].key>>
<1>1. /\ proxy[n].pc = "files" /\ proxy' = [proxy EXCEPT ![n] = [pc |-> "text", key |-> text]]
      /\ dedup' = [dedup EXCEPT ![n] = [dedup[n] EXCEPT !.text = text]]
      /\ UNCHANGED <<machine, fs, monitor, inbox, got, last, sent, copies, edits>>
      /\ UNCHANGED <<clip, notified>> \/ SetClip(n, NoOffer, TRUE)
  BY DEF ProxyFallback, FallbackDedup
<1>2. text[1] = "paths"
  OBVIOUS
<1> HIDE DEF text
<1>3. /\ copies # 0 /\ n # last.node /\ sent = 1
      /\ ReceiverOK(n) /\ inbox[n] = <<>> /\ monitor[n] = Idle
  BY <1>1, ProxyBusy
<1>4. ~notified[n]
  BY <1>1, <1>3 DEF ReceiverOK
<1>5. /\ notified'[n] => clip'[n].offers = NoOffer /\ clip'[n].remote = TRUE
      /\ \A k \in Nodes : k # n => clip'[k] = clip[k] /\ notified'[k] = notified[k]
  BY <1>1, <1>4, SetClipFacts
<1>6. /\ proxy'[n] = [pc |-> "text", key |-> text]
      /\ \A k \in Nodes : k # n => proxy'[k] = proxy[k] /\ dedup'[k] = dedup[k]
  BY <1>1 DEF TypeInv
<1>7. dedup'[n].text = text
  <2>1. DOMAIN dedup = Nodes /\ DOMAIN dedup[n] = {"files", "text"}
    BY DEF TypeInv
  <2>2. dedup'[n] = [dedup[n] EXCEPT !.text = text]
    BY <1>1, <2>1
  <2> QED BY <2>1, <2>2
<1>8. proxy'[n].pc = "text" /\ proxy'[n].key = text
  BY <1>6
<1>9. \A k \in Nodes : k # n => SameNode(k)
  BY <1>1, <1>5, <1>6 DEF SameNode
<1>10. notified'[n] => ReceivedOffer(n)'
  BY <1>5 DEF ReceivedOffer
<1>11. Idle.pc = "idle"
  BY DEF Idle
<1>12. ReceiverOK(n)'
  BY <1>1, <1>2, <1>3, <1>5, <1>7, <1>8, <1>10, <1>11 DEF ReceiverOK
<1>13. \A p \in DOMAIN fs'[n] : IsPlain(p)
  BY <1>1 DEF WaveInv
<1> QED BY <1>1, <1>3, <1>9, <1>12, <1>13, WaveStep

LEMMA ProxyWriteTextWave ==
    ASSUME TypeInv, WaveInv, NEW n \in Nodes, ProxyWriteText(n)
    PROVE  WaveInv'
<1> DEFINE text == proxy[n].key
<1>1. /\ proxy[n].pc = "text" /\ proxy' = [proxy EXCEPT ![n] = Idle]
      /\ UNCHANGED <<machine, fs, dedup, monitor, inbox, last, sent, copies, edits>>
      /\ UNCHANGED <<clip, notified>> \/ SetClip(n, TextOffer(text), TRUE)
  BY DEF ProxyWriteText, TextOffer
<1>2. text \in Texts
  BY <1>1, ProxyCases
<1>3. /\ copies # 0 /\ n # last.node /\ sent = 1
      /\ ReceiverOK(n) /\ inbox[n] = <<>> /\ monitor[n] = Idle
  BY <1>1, ProxyBusy
<1>4. text = dedup[n].text /\ text[1] = "paths"
  BY <1>1, <1>3 DEF ReceiverOK
<1> HIDE DEF text
<1>5. proxy'[n] = Idle /\ \A k \in Nodes : k # n => proxy'[k] = proxy[k]
  BY <1>1 DEF TypeInv
<1>6. \A k \in Nodes : k # n => SameNode(k)
  <2>1. \A k \in Nodes : k # n => clip'[k] = clip[k] /\ notified'[k] = notified[k]
    BY <1>1, SetClipFacts
  <2> QED BY <1>1, <1>5, <2>1 DEF SameNode
<1>7. Idle.pc = "idle"
  BY DEF Idle
<1>8. notified'[n] => clip'[n].remote = TRUE /\ ReceivedOffer(n)'
  <2>1. CASE UNCHANGED <<clip, notified>>
    BY <1>1, <1>3, <2>1 DEF ReceiverOK, ReceivedOffer, ExistingList
  <2>2. CASE SetClip(n, TextOffer(text), TRUE)
    <3>1. clip'[n].offers = TextOffer(text) /\ clip'[n].remote = TRUE
      BY <2>2, SetClipFacts
    <3> QED BY <1>1, <1>2, <1>4, <3>1 DEF ReceivedOffer
  <2> QED BY <1>1, <2>1, <2>2
<1>9. ReceiverOK(n)'
  BY <1>1, <1>3, <1>5, <1>7, <1>8 DEF ReceiverOK
<1>10. \A p \in DOMAIN fs'[n] : IsPlain(p)
  BY <1>1 DEF WaveInv
<1> QED BY <1>1, <1>3, <1>6, <1>9, <1>10, WaveStep

LEMMA NextWave ==
    ASSUME PlainNames, ListsAreRead
    PROVE  TypeInv /\ WaveInv /\ [Next]_vars => WaveInv'
<1> SUFFICES ASSUME TypeInv, WaveInv, [Next]_vars PROVE WaveInv'
  OBVIOUS
<1>1. CASE UNCHANGED vars
  <2>1. /\ UNCHANGED <<machine, fs, clip, notified, dedup, monitor, proxy, inbox, last, sent, copies>>
        /\ \A k \in Nodes : SameNode(k)
    BY <1>1 DEF vars, SameNode
  <2>2. \A k \in Nodes : (ReceiverOK(k) => ReceiverOK(k)') /\ (LocallyQuiet(k) => LocallyQuiet(k)')
    BY <2>1, SameReceiver
  <2>3. Quiet => Quiet'
    BY <2>2 DEF Quiet
  <2>4. LastOK => LastOK'
    BY <2>1 DEF LastOK
  <2>5. OriginOK(last.node) => OriginOK(last.node)'
    BY <2>1 DEF OriginOK
  <2> QED BY <2>1, <2>2, <2>3, <2>4, <2>5 DEF WaveInv
<1>2. ASSUME NEW n \in Nodes, NEW paths \in Selections[n], UserCopy(n, paths) PROVE WaveInv'
  BY <1>2, UserCopyWave
<1>3. ASSUME NEW n \in Nodes, NEW p \in DOMAIN Home[n], NEW v \in Versions, UserEdit(n, p, v) PROVE WaveInv'
  BY <1>3, UserEditWave
<1>4. ASSUME NEW n \in Nodes, MonitorRead(n) \/ MonitorMark(n) \/ MonitorSend(n) PROVE WaveInv'
  BY <1>4, MonitorReadWave, MonitorMarkWave, MonitorSendWave
<1>5. ASSUME NEW n \in Nodes,
             ProxyTake(n) \/ ProxyWriteFiles(n) \/ ProxyFallback(n) \/ ProxyWriteText(n)
      PROVE  WaveInv'
  BY <1>5, ProxyTakeWave, ProxyWriteFilesWave, ProxyFallbackWave, ProxyWriteTextWave
<1>6. ASSUME NEW n \in Nodes, NEW p \in DOMAIN Home[n], UserRemove(n, p) PROVE WaveInv'
  BY <1>6, UserRemoveWave
<1> QED BY <1>1, <1>2, <1>3, <1>4, <1>5, <1>6 DEF Next

LEMMA WaveHolds ==
    ASSUME PlainNames, ListsAreRead
    PROVE  Spec => [](TypeInv /\ WaveInv)
<1>1. Init => TypeInv /\ WaveInv
  BY InitType, InitWave
<1>2. TypeInv /\ WaveInv /\ [Next]_vars => TypeInv' /\ WaveInv'
  BY NextType, NextWave
<1> QED BY <1>1, <1>2, PTL DEF Spec

LEMMA WaveNoEcho == TypeInv /\ WaveInv => NoEcho /\ NeverEchoes
<1> SUFFICES ASSUME TypeInv, WaveInv, NEW n \in Nodes, monitor[n].pc = "send", monitor[n].remote PROVE FALSE
  BY DEF NoEcho, NeverEchoes
<1>1. copies # 0
  <2>1. ~LocallyQuiet(n)
    BY DEF LocallyQuiet, Idle
  <2> QED BY <2>1, NotQuiet
<1>2. n = last.node
  BY <1>1 DEF WaveInv, ReceiverOK
<1>3. monitor[n].remote = FALSE
  BY <1>1, <1>2 DEF WaveInv, OriginOK
<1> QED BY <1>3

LEMMA WaveNoLoop == WaveInv => NoLoop /\ sent <= 1
<1> SUFFICES ASSUME WaveInv PROVE NoLoop
  BY DEF WaveInv
<1>1. IsFiniteSet(Nodes)
  BY FilesBoundsAssumption
<1>2. Cardinality(Nodes) \in Nat
  BY <1>1, FS_CardinalityType
<1>3. CASE sent = 0
  BY <1>2, <1>3 DEF NoLoop
<1>4. CASE sent = 1
  <2>1. Nodes # {}
    BY <1>4 DEF WaveInv, LastOK
  <2>2. Cardinality(Nodes) # 0
    BY <1>1, <2>1, FS_EmptySet
  <2> QED BY <1>2, <1>4, <2>2 DEF NoLoop
<1> QED BY <1>3, <1>4 DEF WaveInv

\* Where all names are plain and no machine sends URIs as text, what
\* set_clipboard_content wrote is never sent back, for any number of machines of any
\* kinds, with any files, however saving them and writing the clipboard fail.
THEOREM NoEchoHolds ==
    ASSUME PlainNames, ListsAreRead
    PROVE  Spec => [](NoEcho /\ NeverEchoes)
  BY WaveHolds, WaveNoEcho, PTL

\* Under the same conditions copying files starts no loop: in fact only one content is
\* ever sent for one copy.
THEOREM NoLoopHolds ==
    ASSUME PlainNames, ListsAreRead
    PROVE  Spec => [](NoLoop /\ sent <= 1)
  BY WaveHolds, WaveNoLoop, PTL

-------------------------------------------------------------------------------
(* What is pasted: the list in the clipboard leads to every saved file.      *)

\* Every saved file is at or below a path of the list, below the receive directory.
Covers(paths, entries) == \A e \in entries : \E q \in ToSet(paths) : q \in Outer(Dest(e.name))

\* Saved files keep their bytes, and the list that is on its way to the clipboard, or
\* in it, covers them.
PasteOK(n) ==
    /\ \A e \in got[n] : Dest(e.name) \in DOMAIN fs[n] /\ fs[n][Dest(e.name)] = e.bytes
    /\ proxy[n].pc = "files" => Covers(proxy[n].key, got[n])
    /\ proxy[n].pc = "idle" /\ clip[n].remote /\ DOMAIN clip[n].offers \cap NativeKinds # {} =>
            \/ got[n] = {}
            \/ \E t \in NativeKinds, paths \in Seq(Paths) :
                    clip[n].offers = NativeOffer(t, paths) /\ Covers(paths, got[n])
PasteInv == \A n \in Nodes : PasteOK(n)

SamePaste(k) == got'[k] = got[k] /\ fs'[k] = fs[k] /\ proxy'[k] = proxy[k] /\ clip'[k] = clip[k]

LEMMA PasteStays ==
    ASSUME NEW k, SamePaste(k), PasteOK(k)
    PROVE  PasteOK(k)'
  BY DEF SamePaste, PasteOK, Covers

LEMMA InitPaste == Init => PasteInv
<1> SUFFICES ASSUME Init, NEW n \in Nodes PROVE PasteOK(n)
  BY DEF PasteInv
<1>1. got[n] = {} /\ proxy[n] = Idle /\ clip[n].remote = FALSE
  BY DEF Init
<1>2. Idle.pc # "files"
  BY DEF Idle
<1> QED BY <1>1, <1>2 DEF PasteOK

LEMMA BelowReceiveDir ==
    ASSUME ReceiveDir \in Paths, NEW name \in Paths
    PROVE  IsPrefix(ReceiveDir, Dest(name))
<1> DEFINE d == Dest(name)
           L == Len(ReceiveDir)
<1>1. /\ d \in Paths /\ Len(d) = L + Len(name) /\ L \in Nat \ {0} /\ Len(name) \in Nat
      /\ \A i \in 1 .. L : d[i] = ReceiveDir[i]
  BY DestFacts
<1>2. d \in Seq(FileNames) /\ ReceiveDir \in Seq(FileNames)
  BY <1>1, PathIsNames
<1> HIDE DEF d
<1>3. L <= Len(d) /\ L \in Nat /\ Len(d) \in Nat
  BY <1>1
<1>4. SubSeq(ReceiveDir, 1, L) = SubSeq(d, 1, L)
  BY <1>1, <1>2, <1>3
<1> QED BY <1>3, <1>4 DEF IsPrefix, d

LEMMA UserCopyPaste ==
    ASSUME TypeInv, PasteInv, NEW n \in Nodes, NEW paths, UserCopy(n, paths)
    PROVE  PasteInv'
<1>1. UNCHANGED <<got, fs, proxy>> /\ SetClip(n, ManagerOffer(machine[n], paths), FALSE)
  BY DEF UserCopy
<1>2. clip'[n].remote = FALSE /\ \A k \in Nodes : k # n => clip'[k] = clip[k]
  BY <1>1, SetClipFacts
<1>3. ASSUME NEW k \in Nodes PROVE PasteOK(k)'
  <2>1. PasteOK(k)
    BY DEF PasteInv
  <2>2. CASE k = n
    BY <1>1, <1>2, <2>1, <2>2 DEF PasteOK, Covers
  <2>3. CASE k # n
    BY <1>1, <1>2, <2>1, <2>3, PasteStays DEF SamePaste
  <2> QED BY <2>2, <2>3
<1> QED BY <1>3 DEF PasteInv

\* Users do not change what has been received.
LEMMA UserEditPaste ==
    ASSUME TypeInv, PasteInv, NEW n \in Nodes, NEW p \in DOMAIN Home[n], NEW v \in Versions, UserEdit(n, p, v)
    PROVE  PasteInv'
<1>1. /\ DOMAIN fs'[n] = DOMAIN fs[n] /\ \A q \in DOMAIN fs[n] : q # p => fs'[n][q] = fs[n][q]
      /\ \A k \in Nodes : k # n => fs'[k] = fs[k]
  BY EditFacts
<1>2. UNCHANGED <<clip, proxy, got>> /\ ~IsPrefix(ReceiveDir, p)
  BY DEF UserEdit
<1>3. ASSUME NEW k \in Nodes PROVE PasteOK(k)'
  <2>1. PasteOK(k)
    BY DEF PasteInv
  <2>2. CASE k = n
    <3>1. got[n] \subseteq Entries /\ ReceiveDir \in Paths
      BY DEF TypeInv, DiskOK
    <3>2. ASSUME NEW e \in got[n] PROVE Dest(e.name) \in DOMAIN fs'[n] /\ fs'[n][Dest(e.name)] = e.bytes
      <4>1. e.name \in Paths
        BY <3>1 DEF Entries
      <4>2. Dest(e.name) # p
        BY <1>2, <3>1, <4>1, BelowReceiveDir
      <4>3. Dest(e.name) \in DOMAIN fs[n] /\ fs[n][Dest(e.name)] = e.bytes
        BY <2>1, <2>2 DEF PasteOK
      <4> QED BY <1>1, <4>2, <4>3
    <3> QED BY <1>2, <2>1, <2>2, <3>2 DEF PasteOK, Covers
  <2>3. CASE k # n
    BY <1>1, <1>2, <2>1, <2>3, PasteStays DEF SamePaste
  <2> QED BY <2>2, <2>3
<1> QED BY <1>3 DEF PasteInv

LEMMA UserRemovePaste ==
    ASSUME TypeInv, PasteInv, NEW n \in Nodes, NEW p \in DOMAIN Home[n], UserRemove(n, p)
    PROVE  PasteInv'
<1>1. /\ DOMAIN fs'[n] = {q \in DOMAIN fs[n] : ~IsPrefix(p, q)} /\ \A q \in DOMAIN fs'[n] : fs'[n][q] = fs[n][q]
      /\ Apart(p) /\ \A k \in Nodes : k # n => fs'[k] = fs[k]
  BY RemoveFacts
<1>2. UNCHANGED <<clip, proxy, got>>
  BY DEF UserRemove
<1>3. ASSUME NEW k \in Nodes PROVE PasteOK(k)'
  <2>1. PasteOK(k)
    BY DEF PasteInv
  <2>2. CASE k = n
    <3>1. got[n] \subseteq Entries /\ ReceiveDir \in Paths
      BY DEF TypeInv, DiskOK
    <3>2. ASSUME NEW e \in got[n] PROVE Dest(e.name) \in DOMAIN fs'[n] /\ fs'[n][Dest(e.name)] = e.bytes
      <4>1. e.name \in Paths
        BY <3>1 DEF Entries
      <4>2. ~IsPrefix(p, Dest(e.name))
        BY <1>1, <3>1, <4>1, NotRemoved
      <4>3. Dest(e.name) \in DOMAIN fs[n] /\ fs[n][Dest(e.name)] = e.bytes
        BY <2>1, <2>2 DEF PasteOK
      <4> QED BY <1>1, <4>2, <4>3
    <3> QED BY <1>2, <2>1, <2>2, <3>2 DEF PasteOK, Covers
  <2>3. CASE k # n
    BY <1>1, <1>2, <2>1, <2>3, PasteStays DEF SamePaste
  <2> QED BY <2>2, <2>3
<1> QED BY <1>3 DEF PasteInv

LEMMA MonitorPaste ==
    ASSUME PasteInv, NEW n \in Nodes, MonitorRead(n) \/ MonitorMark(n) \/ MonitorSend(n)
    PROVE  PasteInv'
<1>1. UNCHANGED <<got, fs, proxy, clip>>
  BY DEF MonitorRead, MonitorMark, MonitorSend
<1> QED BY <1>1, PasteStays DEF PasteInv, SamePaste

LEMMA ProxyTakePaste ==
    ASSUME TypeInv, WaveInv, PasteInv, NEW n \in Nodes, ProxyTake(n)
    PROVE  PasteInv'
<1> DEFINE c == Head(inbox[n])
<1>1. /\ \A k \in Nodes : k # n => SameNode(k) /\ got'[k] = got[k]
      /\ clip' = clip /\ proxy[n] = Idle
      /\ \/ TakesText(n, c) /\ c.text \in Texts
         \/ /\ c.entries \in Seq(Entries) /\ DistinctNames(c.entries)
            /\ \E outcomes \in [DOMAIN c.entries -> OutcomeKinds] :
                    TakesFiles(n, c, save_received_files(fs[n], c.entries, outcomes))
  BY TakeFacts
<1>2. \A k \in Nodes : k # n => PasteOK(k)'
  BY <1>1, PasteStays DEF PasteInv, SamePaste, SameNode
<1>3. got \in [Nodes -> SUBSET Entries] /\ proxy \in [Nodes -> ProxyStates] /\ DOMAIN fs = Nodes /\ DiskOK(fs[n])
  BY DEF TypeInv
<1> HIDE DEF c
<1>4. CASE TakesText(n, c) /\ c.text \in Texts
  <2>1. got'[n] = {}
    BY <1>3, <1>4 DEF TakesText
  <2> QED BY <1>2, <2>1 DEF PasteInv, PasteOK, Covers
<1>5. ASSUME c.entries \in Seq(Entries), DistinctNames(c.entries), NEW outcomes \in [DOMAIN c.entries -> OutcomeKinds],
             TakesFiles(n, c, save_received_files(fs[n], c.entries, outcomes))
      PROVE  PasteInv'
  <2> DEFINE r == save_received_files(fs[n], c.entries, outcomes)
  <2>1. /\ DiskOK(r.fs) /\ r.saved \in Seq(Paths)
        /\ ToSet(r.saved) \subseteq DOMAIN r.fs
    BY <1>3, <1>5, SaveFacts
  <2>2. \A e \in ToSet(c.entries) : Dest(e.name) \in ToSet(r.saved) => r.fs[Dest(e.name)] = e.bytes
    BY <1>3, <1>5, SavedBytes
  <2>3. \A paths : r.saved # <<>> /\ paths \in ClipboardPaths(c.type, r.saved) =>
            paths \in Seq(Paths) /\ ListsAll(paths, r.saved)
    BY <1>3, <1>5, TakenList
  <2>4. TakesFiles(n, c, r)
    BY <1>5
  <2> HIDE DEF r
  <2>5. fs'[n] = r.fs /\ got'[n] = {e \in ToSet(c.entries) : Dest(e.name) \in ToSet(r.saved)}
    BY <1>3, <2>4 DEF TakesFiles
  <2>6. \A e \in got'[n] : Dest(e.name) \in DOMAIN fs'[n] /\ fs'[n][Dest(e.name)] = e.bytes
    BY <2>1, <2>2, <2>5
  <2>7. CASE r.saved = <<>>
    <3>1. got'[n] = {}
      <4>1. ToSet(<<>>) = {}
        BY DEF ToSet
      <4> QED BY <2>5, <2>7, <4>1
    <3> QED BY <1>2, <3>1 DEF PasteInv, PasteOK, Covers
  <2>8. ASSUME r.saved # <<>>, NEW paths \in ClipboardPaths(c.type, r.saved), Write(n, "files", paths)
        PROVE  PasteInv'
    <3>1. paths \in Seq(Paths) /\ ListsAll(paths, r.saved)
      BY <2>3, <2>8
    <3>2. proxy'[n] = [pc |-> "files", key |-> paths]
      BY <1>3, <2>8 DEF Write
    <3>3. Covers(paths, got'[n])
      BY <2>5, <3>1 DEF Covers, ListsAll
    <3>4. proxy'[n].pc = "files" /\ proxy'[n].key = paths
      BY <3>2
    <3>5. PasteOK(n)'
      BY <2>6, <3>3, <3>4 DEF PasteOK, Covers
    <3> QED BY <1>2, <3>5 DEF PasteInv
  <2> QED BY <2>4, <2>7, <2>8 DEF TakesFiles
<1> QED BY <1>1, <1>4, <1>5

LEMMA ProxyWriteFilesPaste ==
    ASSUME TypeInv, PasteInv, NEW n \in Nodes, ProxyWriteFiles(n)
    PROVE  PasteInv'
<1>1. proxy[n].pc = "files" /\ proxy' = [proxy EXCEPT ![n] = Idle] /\ UNCHANGED <<fs, got>>
  BY DEF ProxyWriteFiles
<1>2. PICK t \in NativeTypes(machine[n]) : SetClip(n, NativeOffer(t, proxy[n].key), TRUE)
  BY DEF ProxyWriteFiles
<1>3. clip'[n].offers = NativeOffer(t, proxy[n].key) /\ \A k \in Nodes : k # n => clip'[k] = clip[k]
  BY <1>2, SetClipFacts
<1>4. proxy'[n] = Idle /\ \A k \in Nodes : k # n => proxy'[k] = proxy[k]
  BY <1>1 DEF TypeInv
<1>5. proxy[n].key \in Seq(Paths) /\ machine[n] \in AllMachines
  BY <1>1, ProxyCases, MachineType
<1>6. t \in NativeKinds
  BY <1>2, <1>5, NativeFacts DEF NativeKinds
<1>7. PasteOK(n)
  BY DEF PasteInv
<1>8. Idle.pc = "idle"
  BY DEF Idle
<1>9. PasteOK(n)'
  BY <1>1, <1>3, <1>4, <1>5, <1>6, <1>7, <1>8 DEF PasteOK, Covers
<1>10. \A k \in Nodes : k # n => PasteOK(k)'
  BY <1>1, <1>3, <1>4, PasteStays DEF PasteInv, SamePaste
<1> QED BY <1>9, <1>10 DEF PasteInv

LEMMA ProxyFallbackPaste ==
    ASSUME TypeInv, PasteInv, NEW n \in Nodes, ProxyFallback(n)
    PROVE  PasteInv'
<1> DEFINE text == <<"paths", proxy[n].key>>
<1>1. /\ proxy' = [proxy EXCEPT ![n] = [pc |-> "text", key |-> text]] /\ UNCHANGED <<fs, got>>
      /\ UNCHANGED <<clip, notified>> \/ SetClip(n, NoOffer, TRUE)
  BY DEF ProxyFallback
<1> HIDE DEF text
<1>2. \A k \in Nodes : k # n => clip'[k] = clip[k]
  BY <1>1, SetClipFacts
<1>3. proxy'[n].pc = "text" /\ \A k \in Nodes : k # n => proxy'[k] = proxy[k]
  BY <1>1 DEF TypeInv
<1>4. PasteOK(n)'
  BY <1>1, <1>3 DEF PasteInv, PasteOK
<1>5. \A k \in Nodes : k # n => PasteOK(k)'
  BY <1>1, <1>2, <1>3, PasteStays DEF PasteInv, SamePaste
<1> QED BY <1>4, <1>5 DEF PasteInv

LEMMA ProxyWriteTextPaste ==
    ASSUME TypeInv, WaveInv, PasteInv, NEW n \in Nodes, ProxyWriteText(n)
    PROVE  PasteInv'
<1> DEFINE text == proxy[n].key
<1>1. /\ proxy[n].pc = "text" /\ proxy' = [proxy EXCEPT ![n] = Idle] /\ UNCHANGED fs
      /\ \/ SetClip(n, TextOffer(text), TRUE) /\ got' = got
         \/ UNCHANGED <<clip, notified>> /\ got' = [got EXCEPT ![n] = {}]
  BY DEF ProxyWriteText, TextOffer
<1>2. text[1] = "paths"
  BY <1>1, ProxyBusy DEF ReceiverOK
<1> HIDE DEF text
<1>3. \A k \in Nodes : k # n => clip'[k] = clip[k] /\ got'[k] = got[k]
  BY <1>1, SetClipFacts DEF TypeInv
<1>4. proxy'[n] = Idle /\ \A k \in Nodes : k # n => proxy'[k] = proxy[k]
  BY <1>1 DEF TypeInv
<1>5. Idle.pc = "idle"
  BY DEF Idle
<1>6. PasteOK(n)'
  <2>1. CASE SetClip(n, TextOffer(text), TRUE) /\ got' = got
    <3>1. DOMAIN clip'[n].offers = {"paths"}
      <4>1. clip'[n].offers = TextOffer(text)
        BY <2>1, SetClipFacts
      <4>2. DOMAIN TextOffer(text) = {"paths"}
        BY <1>2 DEF TextOffer
      <4> QED BY <4>1, <4>2
    <3>2. DOMAIN clip'[n].offers \cap NativeKinds = {}
      BY <3>1 DEF NativeKinds
    <3> QED BY <1>1, <1>4, <1>5, <2>1, <3>2 DEF PasteInv, PasteOK
  <2>2. CASE got' = [got EXCEPT ![n] = {}]
    <3>1. got'[n] = {}
      BY <2>2 DEF TypeInv
    <3> QED BY <1>4, <1>5, <3>1 DEF PasteOK
  <2> QED BY <1>1, <2>1, <2>2
<1>7. \A k \in Nodes : k # n => PasteOK(k)'
  BY <1>1, <1>3, <1>4, PasteStays DEF PasteInv, SamePaste
<1> QED BY <1>6, <1>7 DEF PasteInv

LEMMA NextPaste == TypeInv /\ WaveInv /\ PasteInv /\ [Next]_vars => PasteInv'
<1> SUFFICES ASSUME TypeInv, WaveInv, PasteInv, [Next]_vars PROVE PasteInv'
  OBVIOUS
<1>1. CASE UNCHANGED vars
  BY <1>1, PasteStays DEF vars, PasteInv, SamePaste
<1>2. ASSUME NEW n \in Nodes, NEW paths \in Selections[n], UserCopy(n, paths) PROVE PasteInv'
  BY <1>2, UserCopyPaste
<1>3. ASSUME NEW n \in Nodes, NEW p \in DOMAIN Home[n], NEW v \in Versions, UserEdit(n, p, v) PROVE PasteInv'
  BY <1>3, UserEditPaste
<1>4. ASSUME NEW n \in Nodes, MonitorRead(n) \/ MonitorMark(n) \/ MonitorSend(n) PROVE PasteInv'
  BY <1>4, MonitorPaste
<1>5. ASSUME NEW n \in Nodes,
             ProxyTake(n) \/ ProxyWriteFiles(n) \/ ProxyFallback(n) \/ ProxyWriteText(n)
      PROVE  PasteInv'
  BY <1>5, ProxyTakePaste, ProxyWriteFilesPaste, ProxyFallbackPaste, ProxyWriteTextPaste
<1>6. ASSUME NEW n \in Nodes, NEW p \in DOMAIN Home[n], UserRemove(n, p) PROVE PasteInv'
  BY <1>6, UserRemovePaste
<1> QED BY <1>1, <1>2, <1>3, <1>4, <1>5, <1>6 DEF Next

LEMMA PasteIsAll == TypeInv /\ WaveInv /\ PasteInv => PasteHasAll
<1> SUFFICES ASSUME TypeInv, WaveInv, PasteInv, Quiet, NEW n \in Nodes, clip[n].remote,
                    DOMAIN clip[n].offers \cap NativeKinds # {}, NEW e \in got[n]
             PROVE  /\ Dest(e.name) \in DOMAIN fs[n] /\ fs[n][Dest(e.name)] = e.bytes
                    /\ \E q \in Outer(Dest(e.name)) : PathString(q) \in ManagerReads(clip[n].offers)
  BY DEF PasteHasAll, Dest, Outer, NativeKinds
<1>1. PasteOK(n) /\ proxy[n].pc = "idle"
  BY DEF PasteInv, Quiet, LocallyQuiet, Idle
<1>2. PICK t \in NativeKinds, paths \in Seq(Paths) :
            clip[n].offers = NativeOffer(t, paths) /\ Covers(paths, got[n])
  BY <1>1 DEF PasteOK
<1>3. PICK q \in ToSet(paths) : q \in Outer(Dest(e.name))
  BY <1>2 DEF Covers
<1>4. Dest(e.name) \in DOMAIN fs[n] /\ fs[n][Dest(e.name)] = e.bytes
  BY <1>1 DEF PasteOK
<1>5. q \in DOMAIN fs[n]
  BY <1>3, <1>4 DEF TypeInv, DiskOK, IsDirectory, Outer
<1>6. IsPlain(q)
  BY <1>5 DEF WaveInv
<1>7. PathString(q) \in ManagerReads(clip[n].offers)
  BY <1>2, <1>6, ManagerReadsAll DEF NativeKinds
<1> QED BY <1>3, <1>4, <1>7

\* Under the same conditions a file manager that pastes finds every saved file of the
\* received content, with its bytes, whatever else of the content could not be saved.
THEOREM PasteHasAllHolds ==
    ASSUME PlainNames, ListsAreRead
    PROVE  Spec => []PasteHasAll
<1>1. Init => PasteInv
  BY InitPaste
<1>2. TypeInv /\ WaveInv /\ PasteInv /\ [Next]_vars => PasteInv'
  BY NextPaste
<1>3. TypeInv /\ WaveInv /\ PasteInv => PasteHasAll
  BY PasteIsAll
<1> QED BY <1>1, <1>2, <1>3, WaveHolds, PTL DEF Spec

-------------------------------------------------------------------------------
(* What the user copied arrives.                                             *)

\* The files that the user copied, as they are now, and what has been seen of them;
\* those that are to be sent are there.
Now == ToSet(CollectFiles(fs[last.node], last.paths))
SeenOK ==
    /\ Now \subseteq last.seen /\ last.entries \subseteq Entries
    /\ sent = 0 => Names(last.entries) \subseteq Names(Now)

\* Their list is new to the machine where they were copied, and no step of its monitor
\* loses it.
OriginArrives(o) ==
    /\ notified[o] \/ monitor[o].pc = "files" => dedup[o].files # last.paths
    /\ monitor[o].pc # "text"
    /\ monitor[o].pc = "send" => monitor[o].key[1] = "files"
    /\ sent = 0 /\ ~notified[o] /\ monitor[o] = Idle => last.entries = {}

\* They are on disk, or a content with all of them is on its way.
Arrived(n) ==
    \A e \in last.entries :
        \/ machine[n].fails \/ Blocked(fs[n], Dest(e.name))
        \/ /\ Dest(e.name) \in DOMAIN fs[n]
           /\ [name |-> e.name, bytes |-> fs[n][Dest(e.name)]] \in last.seen
Arriving(c) ==
    /\ c.type # "Text" /\ ToSet(c.entries) \subseteq last.seen
    /\ Names(last.entries) \subseteq Names(ToSet(c.entries))
ReceiverArrives(n) ==
    /\ inbox[n] = <<>> => Arrived(n)
    /\ inbox[n] # <<>> => Arriving(Head(inbox[n]))

ToArrive == ~last.again /\ ReadsLists(machine[last.node])
ArriveInv ==
    copies # 0 =>
        /\ SeenOK
        /\ ToArrive => /\ OriginArrives(last.node)
                       /\ sent = 1 => \A n \in Nodes \ {last.node} : ReceiverArrives(n)

LEMMA InitArrive == Init => ArriveInv
  BY DEF Init, ArriveInv

\* A step that changes neither the last copy nor its files.
LEMMA ArriveStep ==
    ASSUME TypeInv, WaveInv, ArriveInv, copies # 0, copies' # 0, UNCHANGED <<last, sent, machine>>,
           fs'[last.node] = fs[last.node],
           SeenOK /\ ToArrive /\ OriginArrives(last.node) => OriginArrives(last.node)',
           \A n \in Nodes : n # last.node /\ sent = 1 /\ ToArrive /\ ReceiverArrives(n) => ReceiverArrives(n)'
    PROVE  ArriveInv'
<1> SUFFICES SeenOK' /\ (ToArrive => OriginArrives(last.node)'
                             /\ (sent = 1 => \A n \in Nodes \ {last.node} : ReceiverArrives(n)'))
  BY DEF ArriveInv, ToArrive
<1>1. SeenOK'
  BY DEF ArriveInv, SeenOK, Now
<1>2. ASSUME ToArrive PROVE OriginArrives(last.node)'
  BY <1>2 DEF ArriveInv
<1>3. ASSUME ToArrive, sent = 1, NEW n \in Nodes \ {last.node} PROVE ReceiverArrives(n)'
  BY <1>3 DEF ArriveInv
<1> QED BY <1>1, <1>2, <1>3

LEMMA SameArrives ==
    ASSUME NEW n, UNCHANGED <<last, machine>>, fs'[n] = fs[n], inbox'[n] = inbox[n], ReceiverArrives(n)
    PROVE  ReceiverArrives(n)'
  BY DEF ReceiverArrives, Arrived, Arriving

LEMMA UserCopyArrive ==
    ASSUME TypeInv, NEW n \in Nodes, NEW paths \in Selections[n], UserCopy(n, paths)
    PROVE  ArriveInv'
<1> DEFINE all == ToSet(CollectFiles(fs[n], paths))
<1>1. /\ last' = [node |-> n, paths |-> paths, entries |-> all, seen |-> all, again |-> dedup[n].files = paths]
      /\ sent' = 0 /\ UNCHANGED <<machine, fs, dedup, monitor>> /\ monitor[n] = Idle
  BY DEF UserCopy, Quiet, LocallyQuiet
<1>2. all \subseteq Entries
  <2>1. paths \in Seq(Paths) /\ DiskOK(fs[n])
    BY SelectionType DEF TypeInv
  <2>2. CollectFiles(fs[n], paths) \in Seq(Entries)
    BY <2>1, DiskFiles, CollectFilesFacts
  <2> QED BY <2>2, SeqValues
<1>3. notified'[n] = TRUE
  BY SetClipFacts DEF UserCopy
<1>4. Now' = all
  BY <1>1 DEF Now
<1> HIDE DEF all
<1>5. /\ last'.node = n /\ last'.paths = paths /\ last'.entries = all /\ last'.seen = all
      /\ ~last'.again => dedup[n].files # paths
  BY <1>1
<1>6. SeenOK'
  BY <1>2, <1>4, <1>5 DEF SeenOK, Names
<1>7. Idle.pc = "idle"
  BY DEF Idle
<1>8. ~last'.again => OriginArrives(n)'
  BY <1>1, <1>3, <1>5, <1>7 DEF OriginArrives
<1> QED BY <1>1, <1>5, <1>6, <1>8 DEF ArriveInv, ToArrive

\* An edit changes the bytes of files, and no name.
LEMMA EditNames ==
    ASSUME NEW f, NEW g, FilesOK(f), FilesOK(g), DOMAIN g = DOMAIN f, Keeps(f, g), NEW paths \in Seq(Paths)
    PROVE  Names(ToSet(CollectFiles(f, paths))) \subseteq Names(ToSet(CollectFiles(g, paths)))
<1> SUFFICES ASSUME NEW e \in ToSet(CollectFiles(f, paths))
             PROVE  \E d \in ToSet(CollectFiles(g, paths)) : d.name = e.name
  BY DEF Names
<1>1. PICK p \in ToSet(paths) : e \in ToSet(EntriesOf(f, p))
  BY CollectFilesFacts
<1>2. p \in Paths
  BY SeqValues
<1>3. PICK q \in DOMAIN f : /\ IsFile(f, q) /\ IsPrefix(p, q)
                            /\ e = [name |-> SubSeq(q, Len(p), Len(q)), bytes |-> f[q]]
  BY <1>1, <1>2, EntriesOfFacts
<1> DEFINE d == [name |-> SubSeq(q, Len(p), Len(q)), bytes |-> g[q]]
<1>4. q \in DOMAIN g /\ IsFile(g, q)
  BY <1>3 DEF Keeps, IsFile
<1>5. d \in ToSet(EntriesOf(g, p))
  BY <1>2, <1>3, <1>4, EntriesOfFacts
<1>6. d \in ToSet(CollectFiles(g, paths))
  BY <1>5, CollectFilesFacts
<1>7. d.name = e.name
  BY <1>3
<1> QED BY <1>6, <1>7

LEMMA UserEditArrive ==
    ASSUME TypeInv, WaveInv, ArriveInv, NEW n \in Nodes, NEW p \in DOMAIN Home[n], NEW v \in Versions, UserEdit(n, p, v)
    PROVE  ArriveInv'
<1> SUFFICES ASSUME copies' # 0
             PROVE  SeenOK' /\ (ToArrive' => OriginArrives(last.node)'
                                    /\ (sent' = 1 => \A k \in Nodes \ {last'.node} : ReceiverArrives(k)'))
                    /\ last'.node = last.node
  BY DEF ArriveInv
<1> DEFINE o == last.node
           after == ToSet(CollectFiles(fs'[n], last.paths))
<1>1. UNCHANGED <<machine, clip, notified, dedup, monitor, proxy, inbox, got, sent, copies>> /\ ~IsPrefix(ReceiveDir, p)
  BY DEF UserEdit
<1>2. copies # 0
  BY <1>1 DEF UserEdit
<1>3. LastOK /\ o \in Nodes /\ last.paths \in Seq(Paths)
  BY <1>2, LastExists DEF WaveInv
<1>4. /\ DiskOK(fs'[n]) /\ DOMAIN fs'[n] = DOMAIN fs[n] /\ Keeps(fs[n], fs'[n])
      /\ \A q \in DOMAIN fs[n] : q # p => fs'[n][q] = fs[n][q]
      /\ \A k \in Nodes : k # n => fs'[k] = fs[k]
  BY EditFacts
<1>5. last' = IF o # n THEN last ELSE [last EXCEPT !.seen = @ \cup after]
  BY <1>2 DEF UserEdit
<1>6. /\ last'.node = o /\ last'.paths = last.paths /\ last'.entries = last.entries /\ last'.again = last.again
      /\ last.seen \subseteq last'.seen
      /\ o = n => after \subseteq last'.seen
      /\ o # n => last' = last
  BY <1>3, <1>5 DEF LastOK
<1>7. SeenOK
  BY <1>2 DEF ArriveInv
<1> HIDE DEF o, after
<1>8. SeenOK'
  <2>1. CASE o # n
    <3>1. Now' = Now
      BY <1>3, <1>4, <1>6, <2>1 DEF Now, o
    <3> QED BY <1>1, <1>6, <1>7, <2>1, <3>1 DEF SeenOK
  <2>2. CASE o = n
    <3>1. Now' = after
      BY <1>6, <2>2 DEF Now, after
    <3>2. Names(Now) \subseteq Names(after)
      <4>1. FilesOK(fs[n]) /\ FilesOK(fs'[n]) /\ Now = ToSet(CollectFiles(fs[n], last.paths))
        BY <1>4, <2>2, DiskFiles DEF TypeInv, Now, o
      <4> QED BY <1>3, <1>4, <4>1, EditNames DEF after
    <3>3. after \subseteq last'.seen
      BY <1>6, <2>2
    <3> QED BY <1>1, <1>6, <1>7, <3>1, <3>2, <3>3 DEF SeenOK
  <2> QED BY <2>1, <2>2
<1>9. ToArrive' => ToArrive
  BY <1>1, <1>6 DEF ToArrive, o
<1>10. ASSUME ToArrive PROVE OriginArrives(o)'
  <2>1. OriginArrives(o)
    BY <1>2, <1>10 DEF ArriveInv, o
  <2> QED BY <1>1, <1>6, <2>1 DEF OriginArrives, o
<1>11. ASSUME ToArrive, sent = 1, NEW k \in Nodes \ {o} PROVE ReceiverArrives(k)'
  <2>1. ReceiverArrives(k)
    BY <1>2, <1>11 DEF ArriveInv, o
  <2>2. ASSUME inbox[k] # <<>> PROVE Arriving(Head(inbox[k]))'
    BY <1>1, <1>6, <2>1, <2>2 DEF ReceiverArrives, Arriving
  <2>3. ASSUME inbox[k] = <<>>, NEW e \in last.entries, ~machine[k].fails, ~Blocked(fs'[k], Dest(e.name))
        PROVE  /\ Dest(e.name) \in DOMAIN fs'[k]
               /\ [name |-> e.name, bytes |-> fs'[k][Dest(e.name)]] \in last'.seen
    <3>1. Keeps(fs[k], fs'[k])
      BY <1>4 DEF Keeps
    <3>2. ~Blocked(fs[k], Dest(e.name))
      BY <2>3, <3>1, KeepsBlocked
    <3>3. Dest(e.name) \in DOMAIN fs[k] /\ [name |-> e.name, bytes |-> fs[k][Dest(e.name)]] \in last.seen
      BY <2>1, <2>3, <3>2 DEF ReceiverArrives, Arrived
    <3>4. e.name \in Paths /\ ReceiveDir \in Paths
      BY <1>7, <2>3 DEF SeenOK, Entries, TypeInv, DiskOK
    <3>5. Dest(e.name) # p
      BY <1>1, <3>4, BelowReceiveDir
    <3>6. Dest(e.name) \in DOMAIN fs'[k] /\ fs'[k][Dest(e.name)] = fs[k][Dest(e.name)]
      BY <1>4, <3>3, <3>5
    <3> QED BY <1>6, <3>3, <3>6
  <2>4. inbox[k] = <<>> => Arrived(k)'
    BY <1>1, <1>6, <2>3 DEF Arrived
  <2> QED BY <1>1, <2>2, <2>4 DEF ReceiverArrives
<1> QED BY <1>1, <1>6, <1>8, <1>9, <1>10, <1>11 DEF o

LEMMA UserRemoveArrive ==
    ASSUME TypeInv, WaveInv, ArriveInv, NEW n \in Nodes, NEW p \in DOMAIN Home[n], UserRemove(n, p)
    PROVE  ArriveInv'
<1> SUFFICES ASSUME copies' # 0
             PROVE  SeenOK' /\ (ToArrive' => OriginArrives(last.node)'
                                    /\ (sent' = 1 => \A k \in Nodes \ {last'.node} : ReceiverArrives(k)'))
                    /\ last'.node = last.node
  BY DEF ArriveInv
<1> DEFINE o == last.node
           after == ToSet(CollectFiles(fs'[n], last.paths))
<1>1. UNCHANGED <<machine, clip, notified, dedup, monitor, proxy, inbox, got, sent, copies>>
  BY DEF UserRemove
<1>2. copies # 0
  BY <1>1
<1>3. LastOK /\ o \in Nodes /\ last.paths \in Seq(Paths)
  BY <1>2, LastExists DEF WaveInv
<1>4. /\ fs'[n] = Without(fs[n], {p}) /\ DOMAIN fs'[n] = {q \in DOMAIN fs[n] : ~IsPrefix(p, q)}
      /\ \A q \in DOMAIN fs'[n] : fs'[n][q] = fs[n][q]
      /\ Apart(p) /\ \A k \in Nodes : k # n => fs'[k] = fs[k]
  BY RemoveFacts
<1>5. last' = IF o # n \/ sent # 0 THEN last ELSE StillThere(after)
  BY <1>2 DEF UserRemove
<1> HIDE DEF after
<1>7. /\ last'.node = o /\ last'.paths = last.paths /\ last'.again = last.again /\ last'.seen = last.seen
      /\ last'.entries \subseteq last.entries
      /\ o # n \/ sent # 0 => last' = last
      /\ o = n /\ sent = 0 => last'.entries = {e \in last.entries : e.name \in Names(after)}
  BY <1>3, <1>5, StillThereFacts
<1>8. SeenOK
  BY <1>2 DEF ArriveInv
<1> HIDE DEF o
<1>9. SeenOK'
  <2>1. CASE o # n
    <3>1. Now' = Now
      BY <1>3, <1>4, <1>7, <2>1 DEF Now, o
    <3> QED BY <1>1, <1>7, <1>8, <2>1, <3>1 DEF SeenOK
  <2>2. CASE o = n
    <3>1. Now' = after
      BY <1>7, <2>2 DEF Now, after
    <3>2. after \subseteq Now
      <4>1. FilesOK(fs[n]) /\ Now = ToSet(CollectFiles(fs[n], last.paths))
        BY <2>2, DiskFiles DEF TypeInv, Now, o
      <4> QED BY <1>3, <1>4, <4>1, FewerEntries DEF after
    <3>3. sent = 0 => Names(last'.entries) \subseteq Names(after)
      BY <1>7, <2>2 DEF Names
    <3>4. after \subseteq last'.seen /\ last'.entries \subseteq Entries
      BY <1>7, <1>8, <3>2 DEF SeenOK
    <3> QED BY <1>1, <3>1, <3>3, <3>4 DEF SeenOK
  <2> QED BY <2>1, <2>2
<1>10. ToArrive' => ToArrive
  BY <1>1, <1>7 DEF ToArrive, o
<1>11. ASSUME ToArrive PROVE OriginArrives(o)'
  <2>1. OriginArrives(o)
    BY <1>2, <1>11 DEF ArriveInv, o
  <2> QED BY <1>1, <1>7, <2>1 DEF OriginArrives, o
<1>12. ASSUME ToArrive, sent = 1, NEW k \in Nodes \ {o} PROVE ReceiverArrives(k)'
  <2>1. ReceiverArrives(k) /\ last' = last
    BY <1>2, <1>7, <1>12 DEF ArriveInv, o
  <2>2. ASSUME inbox[k] # <<>> PROVE Arriving(Head(inbox[k]))'
    BY <1>1, <2>1, <2>2 DEF ReceiverArrives, Arriving
  <2>3. ASSUME inbox[k] = <<>>, NEW e \in last.entries, ~machine[k].fails, ~Blocked(fs'[k], Dest(e.name))
        PROVE  /\ Dest(e.name) \in DOMAIN fs'[k]
               /\ [name |-> e.name, bytes |-> fs'[k][Dest(e.name)]] \in last'.seen
    <3>1. e.name \in Paths /\ ReceiveDir \in Paths
      BY <1>8, <2>3 DEF SeenOK, Entries, TypeInv, DiskOK
    <3>2. ASSUME NEW q \in Ancestors(Dest(e.name)) \cup {Dest(e.name)}, q \in DOMAIN fs[k]
          PROVE  q \in DOMAIN fs'[k] /\ fs'[k][q] = fs[k][q]
      <4>1. ~IsPrefix(p, q)
        BY <1>4, <3>1, NotRemoved
      <4> QED BY <1>4, <3>2, <4>1
    <3>3. ~Blocked(fs[k], Dest(e.name))
      BY <2>3, <3>2 DEF Blocked, IsFile, IsDirectory
    <3>4. Dest(e.name) \in DOMAIN fs[k] /\ [name |-> e.name, bytes |-> fs[k][Dest(e.name)]] \in last.seen
      BY <2>1, <2>3, <3>3 DEF ReceiverArrives, Arrived
    <3> QED BY <2>1, <3>2, <3>4
  <2>4. inbox[k] = <<>> => Arrived(k)'
    BY <1>1, <2>1, <2>3 DEF Arrived
  <2> QED BY <1>1, <2>2, <2>4 DEF ReceiverArrives
<1> QED BY <1>1, <1>7, <1>9, <1>10, <1>11, <1>12 DEF o

LEMMA MonitorReadArrive ==
    ASSUME TypeInv, WaveInv, ArriveInv, NEW n \in Nodes, MonitorRead(n)
    PROVE  ArriveInv'
<1> DEFINE o == last.node
           paths == get_clipboard_file_list(machine[n], clip[n].offers, DOMAIN fs[n])
<1>1. /\ \A k \in Nodes : k # n => SameNode(k)
      /\ UNCHANGED <<last, sent, copies, machine, fs, clip, dedup, proxy, inbox>>
      /\ notified'[n] = FALSE
  BY ReadOthers
<1>2. notified[n] /\ monitor[n] = Idle
  BY DEF MonitorRead
<1>3. copies # 0
  <2>1. ~LocallyQuiet(n)
    BY <1>2 DEF LocallyQuiet
  <2> QED BY <2>1, NotQuiet
<1>4. o \in Nodes /\ last.paths # <<>>
  BY <1>3, LastExists
<1>5. ASSUME ToArrive, OriginArrives(o) PROVE OriginArrives(o)'
  <2>1. CASE n # o
    BY <1>1, <1>4, <1>5, <2>1 DEF SameNode, OriginArrives
  <2>2. CASE n = o
    <3>1. clip[n].offers = ManagerOffer(machine[n], last.paths)
      BY <1>2, <1>3, <2>2 DEF WaveInv, OriginOK
    <3>2. paths = last.paths
      BY <1>2, <1>3, <1>5, <2>2, <3>1, OriginReads DEF ToArrive
    <3>3. monitor'[n] = [pc |-> "files", paths |-> paths, remote |-> clip[n].remote]
      BY <1>4, <3>2, MonitorReadCases
    <3> HIDE DEF paths
    <3>4. monitor'[n].pc = "files" /\ monitor'[n] # Idle
      BY <3>3 DEF Idle
    <3>5. dedup[n].files # last.paths
      BY <1>2, <1>5, <2>2 DEF OriginArrives
    <3> QED BY <1>1, <2>2, <3>4, <3>5 DEF OriginArrives
  <2> QED BY <2>1, <2>2
<1>6. \A k \in Nodes : ReceiverArrives(k) => ReceiverArrives(k)'
  BY <1>1, SameArrives
<1> QED BY <1>1, <1>3, <1>5, <1>6, ArriveStep

LEMMA MonitorMarkArrive ==
    ASSUME TypeInv, WaveInv, ArriveInv, NEW n \in Nodes, MonitorMark(n)
    PROVE  ArriveInv'
<1> DEFINE o == last.node
           kind == monitor[n].pc
           key == IF kind = "files" THEN monitor[n].paths ELSE monitor[n].text
           send == [pc |-> "send", key |-> <<kind, key>>, remote |-> monitor[n].remote]
<1>1. /\ kind \in {"files", "text"} /\ UNCHANGED <<machine, fs, clip, notified, proxy, inbox, last, sent, copies>>
      /\ \/ /\ dedup[n][kind] = key /\ dedup' = dedup /\ monitor' = [monitor EXCEPT ![n] = Idle]
         \/ /\ dedup[n][kind] # key /\ monitor' = [monitor EXCEPT ![n] = send]
            /\ dedup' = [dedup EXCEPT ![n] = [DedupNew EXCEPT ![kind] = key]]
  BY DEF MonitorMark, IsNew
<1>2. copies # 0
  <2>1. ~LocallyQuiet(n)
    BY <1>1 DEF LocallyQuiet, Idle
  <2> QED BY <2>1, NotQuiet
<1>3. o \in Nodes
  BY <1>2, LastExists
<1>4. monitor \in [Nodes -> MonitorStates] /\ DOMAIN dedup = Nodes
  BY DEF TypeInv
<1>5. ASSUME ToArrive, OriginArrives(o) PROVE OriginArrives(o)'
  <2>1. CASE n # o
    <3>1. monitor'[o] = monitor[o] /\ dedup'[o] = dedup[o]
      BY <1>1, <1>3, <1>4, <2>1
    <3> QED BY <1>1, <1>5, <3>1 DEF OriginArrives
  <2>2. CASE n = o
    <3>1. kind = "files" /\ key = last.paths /\ ~notified[n]
      BY <1>1, <1>2, <1>5, <2>2 DEF OriginArrives, WaveInv, OriginOK
    <3>2. dedup[n].files # last.paths
      BY <1>5, <2>2, <3>1 DEF OriginArrives
    <3>3. monitor'[n] = send
      BY <1>1, <1>4, <3>1, <3>2
    <3>4. monitor'[n].pc = "send" /\ monitor'[n].key[1] = "files" /\ monitor'[n] # Idle
      BY <3>1, <3>3 DEF Idle
    <3> HIDE DEF kind, key, send
    <3> QED BY <1>1, <2>2, <3>1, <3>4 DEF OriginArrives
  <2> QED BY <2>1, <2>2
<1>6. \A k \in Nodes : ReceiverArrives(k) => ReceiverArrives(k)'
  BY <1>1, SameArrives
<1> QED BY <1>1, <1>2, <1>5, <1>6, ArriveStep

LEMMA MonitorSendArrive ==
    ASSUME TypeInv, WaveInv, ArriveInv, NEW n \in Nodes, MonitorSend(n)
    PROVE  ArriveInv'
<1> DEFINE kind == monitor[n].key[1]
           all(gone) == CollectFiles(Without(fs[n], gone), last.paths)
<1>1. /\ n = last.node /\ copies # 0 /\ sent = 0 /\ monitor'[n] = Idle
      /\ UNCHANGED <<machine, fs, notified, dedup, copies>>
      /\ \/ kind = "text" /\ last' = last /\ sent' = 1
         \/ kind = "files" /\ \E gone : SendsFiles(n, all(gone))
  BY SendCases DEF SendsTo
<1>2. LastOK /\ last.paths \in Seq(Paths) /\ SeenOK
  BY <1>1, LastExists DEF WaveInv, ArriveInv
<1>3. monitor[n].pc = "send" /\ ~notified[n] /\ Idle.pc = "idle"
  <2>1. monitor[n].pc = "send"
    BY DEF MonitorSend
  <2>2. OriginOK(n)
    BY <1>1 DEF WaveInv
  <2> QED BY <2>1, <2>2 DEF OriginOK, Idle
<1>4. ToArrive => kind = "files"
  BY <1>1, <1>3 DEF ArriveInv, OriginArrives
<1>5. CASE kind = "text" /\ last' = last /\ sent' = 1
  <2>1. ~ToArrive'
    BY <1>1, <1>4, <1>5 DEF ToArrive
  <2>2. SeenOK'
    BY <1>1, <1>2, <1>5 DEF SeenOK, Now
  <2> QED BY <2>1, <2>2 DEF ArriveInv
<1>6. ASSUME NEW gone, SendsFiles(n, all(gone)) PROVE ArriveInv'
  <2> DEFINE files == ToSet(all(gone))
  <2>1. files \subseteq Now
    <3>1. FilesOK(fs[n])
      BY DiskFiles DEF TypeInv
    <3> QED BY <1>1, <1>2, <3>1, FewerEntries DEF Now
  <2>2. all(gone) = <<>> => files = {}
    BY DEF ToSet
  <2> HIDE DEF files
  <2>3. last' = StillThere(files)
    BY <1>6 DEF SendsFiles, files
  <2>4. /\ last'.node = n /\ last'.paths = last.paths /\ last'.seen = last.seen
        /\ last'.entries = {e \in last.entries : e.name \in Names(files)}
    BY <1>1, <1>2, <2>3, StillThereFacts
  <2>5. Now' = Now
    BY <1>1, <2>4 DEF Now
  <2>6. Names(last'.entries) \subseteq Names(files) /\ Names(files) \subseteq Names(Now)
    BY <2>1, <2>4 DEF Names
  <2>7. SeenOK'
    <3>1. Names(last'.entries) \subseteq Names(Now)
      BY <2>6
    <3>2. last'.entries \subseteq Entries
      BY <1>2, <2>4 DEF SeenOK
    <3> QED BY <1>2, <2>4, <2>5, <3>1, <3>2 DEF SeenOK
  <2>8. files = {} => last'.entries = {}
    BY <2>4 DEF Names
  <2> HIDE DEF all
  <2>9. OriginArrives(n)'
    <3>1. sent' = 0 => last'.entries = {}
      BY <1>6, <2>2, <2>8 DEF SendsFiles, SendsTo
    <3> QED BY <1>1, <1>3, <3>1 DEF OriginArrives
  <2>10. ASSUME sent' = 1, NEW k \in Nodes \ {n} PROVE ReceiverArrives(k)'
    <3> DEFINE c == FilesContent(all(gone))
    <3>1. inbox'[k] = <<c>>
      BY <1>6, <2>10 DEF SendsFiles, SendsTo, SendsNothing
    <3>2. c.type # "Text" /\ c.entries = all(gone)
      BY DEF FilesContent
    <3> HIDE DEF c
    <3>3. Head(<<c>>) = c /\ <<c>> # <<>>
      OBVIOUS
    <3>4. ToSet(c.entries) = files /\ files \subseteq last'.seen
      BY <1>2, <2>1, <2>4, <3>2 DEF SeenOK, files
    <3>5. /\ c.type # "Text" /\ ToSet(c.entries) \subseteq last'.seen
          /\ Names(last'.entries) \subseteq Names(ToSet(c.entries))
      BY <2>6, <3>2, <3>4
    <3>6. Head(inbox'[k]) = c /\ inbox'[k] # <<>>
      BY <3>1, <3>3
    <3> QED BY <3>5, <3>6 DEF ReceiverArrives, Arriving
  <2> QED BY <2>4, <2>7, <2>9, <2>10 DEF ArriveInv
<1> HIDE DEF kind, all
<1> QED BY <1>1, <1>5, <1>6

LEMMA ProxyTakeArrive ==
    ASSUME TypeInv, WaveInv, ArriveInv, NEW n \in Nodes, ProxyTake(n)
    PROVE  ArriveInv'
<1> DEFINE c == Head(inbox[n])
           o == last.node
<1>1. /\ copies # 0 /\ n # o /\ sent = 1 /\ inbox'[n] = <<>>
      /\ \A k \in Nodes : k # n => SameNode(k)
      /\ UNCHANGED <<machine, clip, notified, monitor, last, sent, copies, edits>>
      /\ \/ c.type = "Text"
         \/ /\ c.entries \in Seq(Entries) /\ DistinctNames(c.entries)
            /\ \E outcomes \in [DOMAIN c.entries -> OutcomeKinds] :
                    /\ ~machine[n].fails => \A i \in DOMAIN c.entries : outcomes[i] = "written"
                    /\ TakesFiles(n, c, save_received_files(fs[n], c.entries, outcomes))
  BY TakeFacts DEF TakesText
<1>2. inbox[n] # <<>>
  BY DEF ProxyTake
<1>3. DOMAIN fs = Nodes /\ DiskOK(fs[n])
  BY DEF TypeInv
<1>4. o \in Nodes
  BY <1>1, LastExists
<1> HIDE DEF c
<1>5. ASSUME SeenOK, ReceiverArrives(n) PROVE ReceiverArrives(n)'
  <2>1. Arriving(c)
    BY <1>2, <1>5 DEF ReceiverArrives, c
  <2>2. c.entries \in Seq(Entries) /\ DistinctNames(c.entries)
    BY <1>1, <2>1 DEF Arriving
  <2>3. PICK outcomes \in [DOMAIN c.entries -> OutcomeKinds] :
                    /\ ~machine[n].fails => \A i \in DOMAIN c.entries : outcomes[i] = "written"
                    /\ TakesFiles(n, c, save_received_files(fs[n], c.entries, outcomes))
    BY <1>1, <2>1 DEF Arriving
  <2> DEFINE r == save_received_files(fs[n], c.entries, outcomes)
  <2>4. \A e \in ToSet(c.entries) :
            /\ Dest(e.name) \in ToSet(r.saved) => r.fs[Dest(e.name)] = e.bytes
            /\ \/ Dest(e.name) \in ToSet(r.saved) \/ Blocked(r.fs, Dest(e.name))
               \/ \E k \in DOMAIN c.entries : outcomes[k] # "written"
    BY <1>3, <2>2, SavedBytes
  <2>5. ToSet(r.saved) \subseteq DOMAIN r.fs
    BY <1>3, <2>2, SaveFacts
  <2>6. TakesFiles(n, c, r)
    BY <2>3
  <2> HIDE DEF r
  <2>7. fs'[n] = r.fs
    BY <1>3, <2>6 DEF TakesFiles
  <2>8. ASSUME NEW e \in last.entries, ~machine[n].fails, ~Blocked(fs'[n], Dest(e.name))
        PROVE  /\ Dest(e.name) \in DOMAIN fs'[n]
               /\ [name |-> e.name, bytes |-> fs'[n][Dest(e.name)]] \in last.seen
    <3>1. PICK d \in ToSet(c.entries) : d.name = e.name
      BY <2>1 DEF Arriving, Names
    <3>2. d \in Entries /\ d \in last.seen
      BY <2>1, <2>2, SeqValues DEF Arriving
    <3>3. Dest(d.name) \in ToSet(r.saved) /\ r.fs[Dest(d.name)] = d.bytes
      BY <2>3, <2>4, <2>7, <2>8, <3>1
    <3>4. d = [name |-> d.name, bytes |-> d.bytes]
      BY <3>2 DEF Entries
    <3> QED BY <2>5, <2>7, <3>1, <3>2, <3>3, <3>4
  <2>9. Arrived(n)'
    BY <1>1, <2>8 DEF Arrived
  <2> QED BY <1>1, <2>9 DEF ReceiverArrives
<1>6. \A k \in Nodes : k # n /\ ReceiverArrives(k) => ReceiverArrives(k)'
  BY <1>1, SameArrives DEF SameNode
<1>7. OriginArrives(o) => OriginArrives(o)'
  BY <1>1, <1>4 DEF OriginArrives, SameNode
<1>8. fs'[o] = fs[o]
  BY <1>1, <1>4 DEF SameNode
<1>9. SeenOK
  BY <1>1 DEF ArriveInv
<1> QED BY <1>1, <1>5, <1>6, <1>7, <1>8, <1>9, ArriveStep

LEMMA ProxyWriteArrive ==
    ASSUME TypeInv, WaveInv, ArriveInv, NEW n \in Nodes,
           ProxyWriteFiles(n) \/ ProxyFallback(n) \/ ProxyWriteText(n)
    PROVE  ArriveInv'
<1>1. /\ proxy[n].pc # "idle" /\ UNCHANGED <<machine, fs, monitor, inbox, last, sent, copies>>
      /\ \/ UNCHANGED <<clip, notified>>
         \/ \E offers : SetClip(n, offers, TRUE)
      /\ \/ dedup' = dedup
         \/ \E x : dedup' = [dedup EXCEPT ![n] = x]
  BY DEF ProxyWriteFiles, ProxyFallback, ProxyWriteText
<1>2. copies # 0 /\ n # last.node
  BY <1>1, ProxyBusy
<1>3. last.node \in Nodes
  BY <1>2, LastExists
<1>4. notified'[last.node] = notified[last.node]
  BY <1>1, <1>2, <1>3, SetClipFacts
<1>5. dedup'[last.node] = dedup[last.node]
  BY <1>1, <1>2, <1>3 DEF TypeInv
<1>6. OriginArrives(last.node) => OriginArrives(last.node)'
  BY <1>1, <1>4, <1>5 DEF OriginArrives
<1>7. \A k \in Nodes : ReceiverArrives(k) => ReceiverArrives(k)'
  BY <1>1, SameArrives
<1> QED BY <1>1, <1>2, <1>6, <1>7, ArriveStep

LEMMA NextArrive ==
    ASSUME PlainNames
    PROVE  TypeInv /\ WaveInv /\ ArriveInv /\ [Next]_vars => ArriveInv'
<1> SUFFICES ASSUME TypeInv, WaveInv, ArriveInv, [Next]_vars PROVE ArriveInv'
  OBVIOUS
<1>1. CASE UNCHANGED vars
  <2>1. UNCHANGED <<machine, fs, notified, dedup, monitor, inbox, last, sent, copies>>
    BY <1>1 DEF vars
  <2>2. CASE copies = 0
    BY <2>1, <2>2 DEF ArriveInv
  <2>3. CASE copies # 0
    <3>1. OriginArrives(last.node) => OriginArrives(last.node)'
      BY <2>1 DEF OriginArrives
    <3>2. \A k \in Nodes : ReceiverArrives(k) => ReceiverArrives(k)'
      BY <2>1, SameArrives
    <3> QED BY <2>1, <2>3, <3>1, <3>2, ArriveStep
  <2> QED BY <2>2, <2>3
<1>2. ASSUME NEW n \in Nodes, NEW paths \in Selections[n], UserCopy(n, paths) PROVE ArriveInv'
  BY <1>2, UserCopyArrive
<1>3. ASSUME NEW n \in Nodes, NEW p \in DOMAIN Home[n], NEW v \in Versions, UserEdit(n, p, v) PROVE ArriveInv'
  BY <1>3, UserEditArrive
<1>4. ASSUME NEW n \in Nodes, MonitorRead(n) \/ MonitorMark(n) \/ MonitorSend(n) PROVE ArriveInv'
  BY <1>4, MonitorReadArrive, MonitorMarkArrive, MonitorSendArrive
<1>5. ASSUME NEW n \in Nodes,
             ProxyTake(n) \/ ProxyWriteFiles(n) \/ ProxyFallback(n) \/ ProxyWriteText(n)
      PROVE  ArriveInv'
  BY <1>5, ProxyTakeArrive, ProxyWriteArrive
<1>6. ASSUME NEW n \in Nodes, NEW p \in DOMAIN Home[n], UserRemove(n, p) PROVE ArriveInv'
  BY <1>6, UserRemoveArrive
<1> QED BY <1>1, <1>2, <1>3, <1>4, <1>5, <1>6 DEF Next

LEMMA ArriveIsAll == WaveInv /\ ArriveInv => CopiesArrive
<1> SUFFICES ASSUME WaveInv, ArriveInv, Quiet, copies # 0, ~last.again, ReadsLists(machine[last.node]),
                    NEW n \in Nodes \ {last.node}, NEW e \in last.entries
             PROVE  \/ machine[n].fails \/ Blocked(fs[n], Dest(e.name))
                    \/ /\ Dest(e.name) \in DOMAIN fs[n]
                       /\ [name |-> e.name, bytes |-> fs[n][Dest(e.name)]] \in last.seen
  BY DEF CopiesArrive, Dest
<1>2. last.node \in Nodes
  BY LastExists
<1>3. /\ OriginArrives(last.node)
      /\ sent = 1 => ReceiverArrives(n)
  BY DEF ArriveInv, ToArrive
<1>4. sent = 1
  <2>1. ~notified[last.node] /\ monitor[last.node] = Idle
    BY <1>2 DEF Quiet, LocallyQuiet
  <2>2. sent # 0
    BY <1>3, <2>1 DEF OriginArrives
  <2> QED BY <2>2 DEF WaveInv
<1>5. inbox[n] = <<>>
  BY DEF Quiet, LocallyQuiet
<1> QED BY <1>3, <1>4, <1>5 DEF ReceiverArrives, Arrived

\* Under the same conditions the files that a user copied are on every other machine
\* when all is at rest, as they were at some time since the copy, but for those that were
\* gone or could not be read when they were to be sent.
THEOREM CopiesArriveHolds ==
    ASSUME PlainNames, ListsAreRead
    PROVE  Spec => []CopiesArrive
<1>1. Init => ArriveInv
  BY InitArrive
<1>2. TypeInv /\ WaveInv /\ ArriveInv /\ [Next]_vars => ArriveInv'
  BY NextArrive
<1>3. WaveInv /\ ArriveInv => CopiesArrive
  BY ArriveIsAll
<1> QED BY <1>1, <1>2, <1>3, WaveHolds, PTL DEF Spec
===============================================================================
