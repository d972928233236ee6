--------------------------- MODULE FollowFileProofs ---------------------------
(***************************************************************************)
(* Proofs about the reader that follows a file, for any number of files    *)
(* and bytes and any read size: however rotations, truncations and Close   *)
(* fall between its system calls, nothing is delivered twice or skipped,   *)
(* and no descriptor is left.                                              *)
(***************************************************************************)
EXTENDS FollowFile, SequenceTheorems, TLAPS

(***************************************************************************)
(* The inductive invariant, in parts.                                      *)
(***************************************************************************)

\* The application writes to one file after the other, and bytes only get larger.
FilesInOrder ==
  /\ path \in {0, Len(content)}
  /\ \A i \in 1 .. Len(content) : Len(content[i]) =< written
  /\ \A i \in 1 .. Len(content) : \A k \in 1 .. Len(content[i]) :
       /\ content[i][k] =< written
       /\ \A l \in k + 1 .. Len(content[i]) : content[i][k] < content[i][l]
       /\ \A j \in i + 1 .. Len(content) : \A l \in 1 .. Len(content[j]) :
            content[i][k] < content[j][l]
  /\ \A j \in handle + 1 .. Len(content) : content[j] = << >>

\* What Read has in hand where it stands.
ReadAt ==
  /\ closed => file = 0
  /\ place \notin {"stat", "publish"} => temp = Nothing
  /\ place \in {"stat", "publish"} => temp.inode # 0
  /\ place \in {"open", "stat", "publish"} => file = 0
  /\ place = "read" => local # 0
  /\ place = "switch" => file =< info.inode
  /\ ~opened => /\ file = 0 /\ got = << >> /\ first = Nothing
                /\ \A i \in 1 .. InodeBound : found[i] = 0
  /\ opened \/ place = "stat" => temp.size = 0

\* This byte is newer than all that was delivered; all these bytes are.
Newer(b) == \A k \in 1 .. Len(got) : got[k] < b
Ahead(s) == \A k \in 1 .. Len(s) : Newer(s[k])

\* What is still to be read is newer than what was delivered: behind the offset, in
\* a file that has become shorter than it, in files created later, and in the file
\* that is opened next.
AllAhead ==
  /\ \A k \in 1 .. Len(got) : got[k] =< written
  /\ file # 0 =>
       /\ \A k \in offset + 1 .. Len(content[file]) : Newer(content[file][k])
       /\ Len(content[file]) < offset => Ahead(content[file])
       /\ place = "switch" /\ info.inode = file /\ info.size < offset => Ahead(content[file])
       /\ \A i \in file + 1 .. Len(content) : Ahead(content[i])
  /\ ~closed /\ file = 0 /\ content # << >> => Ahead(content[Len(content)])
  /\ ~closed /\ temp.inode # 0 => \A i \in temp.inode .. Len(content) : Ahead(content[i])

\* Where a file was never truncated, all positions are within it.
Within ==
  /\ \A i \in 1 .. Len(content) : i \notin cut =>
       /\ found[i] =< Len(content[i])
       /\ i = file => offset =< Len(content[i])
       /\ i = temp.inode => temp.size =< Len(content[i])
  /\ \A i \in Len(content) + 1 .. InodeBound : found[i] = 0

\* Where the reader decides whether to leave a file, it has delivered what it found there.
AtEnd ==
  place \in {"eof", "switch"} /\ file # 0 /\ file \notin cut => found[file] =< offset

FollowInv ==
  /\ FollowTypeOK /\ FilesInOrder /\ ReadAt /\ AllAhead /\ NoRepeats /\ Within /\ AtEnd
  /\ NothingSkipped
----------------------------------------------------------------------------
(***************************************************************************)
(* Types.                                                                  *)
(***************************************************************************)
LEMMA Bounds == InodeBound \in Nat /\ ByteBound \in Nat /\ InodeBound >= 1 /\ ByteBound >= 1
  BY FollowFileAssumption

\* FollowTypeOK, over indices.
LEMMA FileTypes ==
  ASSUME FollowTypeOK
  PROVE  /\ Len(content) \in Nat /\ DOMAIN content = 1 .. Len(content) /\ Len(content) =< InodeBound
         /\ \A i \in 1 .. Len(content) :
              /\ content[i] \in Seq(1 .. ByteBound) /\ Len(content[i]) \in Nat
              /\ \A k \in 1 .. Len(content[i]) : content[i][k] \in 1 .. ByteBound
         /\ written \in 0 .. ByteBound /\ written \in Nat
         /\ path \in 0 .. Len(content) /\ handle \in 0 .. Len(content)
  <1>1. content \in Seq(Seq(1 .. ByteBound)) /\ Len(content) =< InodeBound
    BY DEF FollowTypeOK
  <1>2. Len(content) \in Nat /\ DOMAIN content = 1 .. Len(content)
    BY <1>1
  <1>3. ASSUME NEW i \in 1 .. Len(content)
        PROVE  /\ content[i] \in Seq(1 .. ByteBound) /\ Len(content[i]) \in Nat
               /\ \A k \in 1 .. Len(content[i]) : content[i][k] \in 1 .. ByteBound
    <2>1. content[i] \in Seq(1 .. ByteBound)
      BY <1>1, <1>3, ElementOfSeq
    <2> QED BY <2>1, ElementOfSeq, LenProperties
  <1> QED BY <1>1, <1>2, <1>3, Bounds DEF FollowTypeOK

LEMMA ReadTypes ==
  ASSUME FollowTypeOK
  PROVE  /\ got \in Seq(1 .. ByteBound) /\ Len(got) \in Nat /\ DOMAIN got = 1 .. Len(got)
         /\ \A k \in 1 .. Len(got) : got[k] \in 1 .. ByteBound
         /\ file \in Nat /\ file =< Len(content) /\ local \in Nat /\ local =< Len(content)
         /\ offset \in Nat
         /\ temp.inode \in Nat /\ temp.inode =< Len(content) /\ temp.size \in Nat
         /\ info.inode \in Nat /\ info.inode =< Len(content) /\ info.size \in Nat
         /\ first.inode \in Nat /\ first.size \in Nat
         /\ \A i \in 1 .. InodeBound : found[i] \in Nat
         /\ cut \subseteq 1 .. Len(content)
  <1>1. got \in Seq(1 .. ByteBound)
    BY DEF FollowTypeOK
  <1>2. Len(got) \in Nat /\ DOMAIN got = 1 .. Len(got)
          /\ \A k \in 1 .. Len(got) : got[k] \in 1 .. ByteBound
    BY <1>1, ElementOfSeq, LenProperties
  <1>3. /\ file \in Nat /\ file =< Len(content) /\ local \in Nat /\ local =< Len(content)
        /\ offset \in Nat
    BY FileTypes, Bounds DEF FollowTypeOK
  <1>4. /\ temp.inode \in Nat /\ temp.inode =< Len(content) /\ temp.size \in Nat
        /\ info.inode \in Nat /\ info.inode =< Len(content) /\ info.size \in Nat
        /\ first.inode \in Nat /\ first.size \in Nat
    <2>1. {temp, info, first} \subseteq [inode : 0 .. Len(content), size : 0 .. ByteBound]
      BY DEF FollowTypeOK
    <2> QED BY <2>1, FileTypes, Bounds
  <1>5. \A i \in 1 .. InodeBound : found[i] \in Nat
    BY Bounds DEF FollowTypeOK
  <1>6. cut \subseteq 1 .. Len(content)
    BY FileTypes DEF FollowTypeOK
  <1> QED BY <1>1, <1>2, <1>3, <1>4, <1>5, <1>6

\* The types of what a step of the environment leaves alone.
LEMMA ReaderTyped ==
  ASSUME FollowTypeOK, UNCHANGED <<place, reader, locals, got, first, found>>,
         content' \in Seq(Seq(1 .. ByteBound)), Len(content') =< InodeBound,
         Len(content) =< Len(content'),
         path' \in 0 .. Len(content'), handle' \in 0 .. Len(content'), written' \in 0 .. ByteBound,
         cut' \subseteq DOMAIN content'
  PROVE  FollowTypeOK'
  <1>1. 0 .. Len(content) \subseteq 0 .. Len(content')
    BY FileTypes, LenProperties
  <1>2. /\ place' \in {"check", "open", "stat", "publish", "test", "read", "eof", "switch", "wait",
             "done"}
        /\ file' \in 0 .. Len(content') /\ local' \in 0 .. Len(content')
        /\ offset' \in 0 .. ByteBound
        /\ {temp', info', first'} \subseteq [inode : 0 .. Len(content'), size : 0 .. ByteBound]
        /\ got' \in Seq(1 .. ByteBound) /\ found' \in [1 .. InodeBound -> 0 .. ByteBound]
    BY <1>1 DEF FollowTypeOK, reader, locals
  <1>3. startAtEnd' \in BOOLEAN /\ opened' \in BOOLEAN /\ closed' \in BOOLEAN
    BY DEF FollowTypeOK, reader
  <1> QED BY <1>2, <1>3 DEF FollowTypeOK
----------------------------------------------------------------------------
(***************************************************************************)
(* The application and the log rotator.                                    *)
(***************************************************************************)

\* A byte that is there now was there, at the same place, or is the newest.
LEMMA EnvironmentAhead ==
  ASSUME FollowTypeOK, AllAhead, UNCHANGED <<place, reader, locals, got>>,
         written' \in {written, written + 1}, Len(content') \in Nat, Len(content) =< Len(content'),
         \A i \in 1 .. Len(content') : Len(content'[i]) \in Nat,
         \A i \in 1 .. Len(content') : \A k \in 1 .. Len(content'[i]) :
           \/ i =< Len(content) /\ k =< Len(content[i]) /\ content'[i][k] = content[i][k]
           \/ content'[i][k] = written + 1,
         \A i \in 1 .. Len(content) : Len(content'[i]) < Len(content[i]) => content'[i] = << >>
  PROVE  AllAhead'
  <1> USE FileTypes, ReadTypes
  <1>1. /\ got' = got /\ file' = file /\ offset' = offset /\ closed' = closed
        /\ place' = place /\ info' = info /\ temp' = temp
    BY DEF reader, locals
  <1>2. \A k \in 1 .. Len(got) : got[k] =< written
    BY DEF AllAhead
  <1>3. \A b : Newer(b)' <=> Newer(b)
    BY <1>1 DEF Newer
  <1>4. Newer(written + 1)
    BY <1>2 DEF Newer
  <1>5. ASSUME NEW i \in 1 .. Len(content'), i =< Len(content) => Ahead(content[i])
        PROVE  Ahead(content'[i])
    <2> SUFFICES ASSUME NEW k \in 1 .. Len(content'[i])
                 PROVE  Newer(content'[i][k])
      BY <1>3 DEF Ahead
    <2>1. CASE content'[i][k] = written + 1
      BY <1>4, <2>1
    <2>2. CASE i =< Len(content) /\ k =< Len(content[i]) /\ content'[i][k] = content[i][k]
      BY <1>5, <2>2 DEF Ahead
    <2> QED BY <2>1, <2>2
  <1>6. \A k \in 1 .. Len(got') : got'[k] =< written'
    BY <1>1, <1>2
  <1>a. ASSUME file # 0
        PROVE  /\ \A k \in offset + 1 .. Len(content[file]) : Newer(content[file][k])
               /\ Len(content[file]) < offset => Ahead(content[file])
               /\ place = "switch" /\ info.inode = file /\ info.size < offset =>
                    Ahead(content[file])
               /\ \A i \in file + 1 .. Len(content) : Ahead(content[i])
    BY <1>a DEF AllAhead
  <1>7. ASSUME file # 0
        PROVE  /\ \A k \in offset + 1 .. Len(content'[file]) : Newer(content'[file][k])
               /\ Len(content'[file]) < offset => Ahead(content'[file])
               /\ place = "switch" /\ info.inode = file /\ info.size < offset =>
                    Ahead(content'[file])
               /\ \A i \in file + 1 .. Len(content') : Ahead(content'[i])
    <2>1. file \in 1 .. Len(content) /\ file \in 1 .. Len(content')
      BY <1>7
    <2>2. ASSUME NEW k \in offset + 1 .. Len(content'[file])
          PROVE  Newer(content'[file][k])
      <3>1. k \in 1 .. Len(content'[file])
        BY <2>1
      <3>2. CASE content'[file][k] = written + 1
        BY <1>4, <3>2
      <3>3. CASE k =< Len(content[file]) /\ content'[file][k] = content[file][k]
        <4>1. k \in offset + 1 .. Len(content[file])
          BY <2>1, <3>3
        <4>2. Newer(content[file][k])
          BY <1>7, <1>a, <4>1
        <4> QED BY <3>3, <4>2
      <3> QED BY <2>1, <3>1, <3>2, <3>3
    <2>3. ASSUME Len(content'[file]) < offset
          PROVE  Ahead(content'[file])
      <3>1. CASE Len(content'[file]) < Len(content[file])
        <4>1. 1 .. Len(content'[file]) = {}
          BY <2>1, <3>1
        <4> QED BY <4>1, <1>1 DEF Ahead
      <3>2. CASE ~(Len(content'[file]) < Len(content[file]))
        <4>1. Len(content[file]) < offset
          BY <2>1, <2>3, <3>2
        <4>2. Ahead(content[file])
          BY <1>7, <1>a, <4>1
        <4> QED BY <1>5, <2>1, <4>2
      <3> QED BY <3>1, <3>2
    <2>4. ASSUME place = "switch", info.inode = file, info.size < offset
          PROVE  Ahead(content'[file])
      <3>1. Ahead(content[file])
        BY <1>7, <1>a, <2>4
      <3> QED BY <1>5, <2>1, <3>1
    <2>5. ASSUME NEW i \in file + 1 .. Len(content')
          PROVE  Ahead(content'[i])
      <3>1. i \in 1 .. Len(content') /\ (i =< Len(content) => i \in file + 1 .. Len(content))
        OBVIOUS
      <3>2. i =< Len(content) => Ahead(content[i])
        BY <1>7, <1>a, <3>1
      <3> QED BY <1>5, <3>1, <3>2
    <2> QED BY <2>2, <2>3, <2>4, <2>5
  <1>8. ASSUME ~closed, file = 0, content' # << >>
        PROVE  Ahead(content'[Len(content')])
    <2>1. Len(content') \in 1 .. Len(content')
      BY <1>8
    <2>2. Len(content') =< Len(content) => Ahead(content[Len(content')])
      <3>1. Len(content') =< Len(content) => Len(content') = Len(content) /\ content # << >>
        BY <2>1
      <3> QED BY <1>8, <3>1 DEF AllAhead
    <2>3. \A i \in 1 .. Len(content') :
            (i =< Len(content) => Ahead(content[i])) => Ahead(content'[i])
      BY <1>5
    <2> QED BY <2>1, <2>2, <2>3
  <1>9. ASSUME ~closed, temp.inode # 0, NEW i \in temp.inode .. Len(content')
        PROVE  Ahead(content'[i])
    <2>1. i \in 1 .. Len(content') /\ (i =< Len(content) => i \in temp.inode .. Len(content))
      BY <1>9
    <2> QED BY <1>5, <1>9, <2>1 DEF AllAhead
  <1> QED BY <1>1, <1>6, <1>7, <1>8, <1>9 DEF AllAhead, Ahead, Newer

LEMMA Beyond ==
  ASSUME NEW L \in Nat, NEW M \in Nat, NEW N \in Nat, L =< M, M =< N, NEW i \in 1 .. M
  PROVE  i \in 1 .. L \/ i \in L + 1 .. N
  OBVIOUS

\* The bytes of a file that was not truncated stay, at their places.
LEMMA EnvironmentTaken ==
  ASSUME FollowTypeOK, Within, NothingSkipped,
         UNCHANGED <<place, reader, locals, got, first, found>>,
         Len(content') \in Nat, Len(content) =< Len(content'), Len(content') =< InodeBound,
         DOMAIN content' = 1 .. Len(content'), cut \subseteq cut',
         \A i \in 1 .. Len(content') : Len(content'[i]) \in Nat,
         \A i \in 1 .. Len(content) : i \notin cut' =>
           /\ Len(content[i]) =< Len(content'[i])
           /\ \A k \in 1 .. Len(content[i]) : content'[i][k] = content[i][k]
  PROVE  Within' /\ NothingSkipped'
  <1> USE FileTypes, ReadTypes
  <1>1. /\ got' = got /\ first' = first /\ found' = found
        /\ file' = file /\ offset' = offset /\ temp' = temp /\ closed' = closed
    BY DEF reader, locals
  <1>2. ASSUME NEW i \in 1 .. Len(content'), i \notin cut'
        PROVE  /\ found[i] =< Len(content'[i])
               /\ i = file => offset =< Len(content'[i])
               /\ i = temp.inode => temp.size =< Len(content'[i])
    <2>1. CASE i \in 1 .. Len(content)
      <3>1. i \notin cut /\ Len(content[i]) =< Len(content'[i]) /\ Len(content[i]) \in Nat
        BY <1>2, <2>1
      <3>2. /\ found[i] =< Len(content[i])
            /\ i = file => offset =< Len(content[i])
            /\ i = temp.inode => temp.size =< Len(content[i])
        BY <2>1, <3>1 DEF Within
      <3>3. found[i] \in Nat /\ Len(content'[i]) \in Nat
        BY <2>1, <1>2, Bounds
      <3>4. offset \in Nat /\ temp.size \in Nat /\ Len(content[i]) \in Nat
        BY <2>1
      <3> QED BY ONLY <3>1, <3>2, <3>3, <3>4
    <2>2. CASE i \notin 1 .. Len(content)
      <3>1. i \in Len(content) + 1 .. InodeBound
        BY <1>2, <2>2, Bounds, Beyond
      <3>2. found[i] = 0
        BY <3>1 DEF Within
      <3>3. i # file /\ i # temp.inode
        BY <2>2
      <3> QED BY <1>2, <3>2, <3>3
    <2> QED BY <2>1, <2>2
  <1>3. \A i \in Len(content') + 1 .. InodeBound : found[i] = 0
    <2>1. \A i \in Len(content') + 1 .. InodeBound : i \in Len(content) + 1 .. InodeBound
      BY Bounds
    <2> QED BY <2>1 DEF Within
  <1>4. Within'
    BY <1>1, <1>2, <1>3 DEF Within
  <1>5. ASSUME NEW i \in 1 .. Len(content), i \notin cut', NEW n \in Nat, n =< Len(content[i])
        PROVE  Due(i, n)' = Due(i, n)
    <2> DEFINE skip == IF i = first.inode THEN first.size ELSE 0
    <2>1. skip \in Nat
      OBVIOUS
    <2>2. \A k \in skip + 1 .. n : content'[i][k] = content[i][k]
      <3>1. \A k \in skip + 1 .. n : k \in 1 .. Len(content[i])
        <4>1. Len(content[i]) \in Nat /\ n \in Nat /\ n =< Len(content[i])
          BY <1>5
        <4> HIDE DEF skip
        <4> QED BY ONLY <2>1, <4>1
      <3> QED BY <1>5, <3>1
    <2> QED BY <1>1, <2>2 DEF Due
  <1>6. ASSUME NEW i \in 1 .. Len(content'), i \notin cut'
        PROVE  /\ i # file /\ ~closed => Due(i, found[i])' \subseteq Range(got)
               /\ i = file => Due(i, offset)' \subseteq Range(got)
    <2>1. CASE i \in 1 .. Len(content)
      <3>1. i \in DOMAIN content \ cut
        BY <1>6, <2>1
      <3>2. /\ i # file /\ ~closed => Due(i, found[i]) \subseteq Range(got)
            /\ i = file => Due(i, offset) \subseteq Range(got)
        BY <3>1 DEF NothingSkipped
      <3>3. found[i] \in Nat /\ found[i] =< Len(content[i])
              /\ (i = file => offset =< Len(content[i]))
        <4>1. i \in 1 .. InodeBound
          BY <2>1, Bounds
        <4> QED BY <2>1, <3>1, <4>1 DEF Within
      <3>4. Due(i, found[i])' = Due(i, found[i])
        BY <1>1, <1>5, <1>6, <2>1, <3>3
      <3>5. i = file => Due(i, offset)' = Due(i, offset)
        BY <1>1, <1>5, <1>6, <2>1, <3>3
      <3> QED BY <3>2, <3>4, <3>5
    <2>2. CASE i \notin 1 .. Len(content)
      <3>1. i \in Len(content) + 1 .. InodeBound
        BY <1>6, <2>2, Bounds, Beyond
      <3>2. found[i] = 0 /\ i # file
        BY <2>2, <3>1 DEF Within
      <3>3. first.size \in Nat /\ Due(i, found[i])' = {}
        BY <1>1, <3>2 DEF Due
      <3> QED BY <3>2, <3>3
    <2> QED BY <2>1, <2>2
  <1>7. NothingSkipped'
    BY <1>1, <1>6 DEF NothingSkipped
  <1> QED BY <1>4, <1>7

\* What a step of the environment does to the bytes is enough to keep the invariant.
LEMMA EnvironmentKeeps ==
  ASSUME FollowInv, UNCHANGED <<place, reader, locals, got, first, found>>,
         content' \in Seq(Seq(1 .. ByteBound)), Len(content) =< Len(content'),
         Len(content') =< InodeBound,
         path' \in 0 .. Len(content'), handle' \in 0 .. Len(content'),
         written' \in {written, written + 1}, written' =< ByteBound,
         cut \subseteq cut', cut' \subseteq DOMAIN content', FilesInOrder',
         \A i \in 1 .. Len(content') : \A k \in 1 .. Len(content'[i]) :
           \/ i =< Len(content) /\ k =< Len(content[i]) /\ content'[i][k] = content[i][k]
           \/ content'[i][k] = written + 1,
         \A i \in 1 .. Len(content) : Len(content'[i]) < Len(content[i]) => content'[i] = << >>,
         \A i \in 1 .. Len(content) : i \notin cut' =>
           /\ Len(content[i]) =< Len(content'[i])
           /\ \A k \in 1 .. Len(content[i]) : content'[i][k] = content[i][k]
  PROVE  FollowInv'
  <1> USE DEF FollowInv
  <1>1. Len(content') \in Nat /\ DOMAIN content' = 1 .. Len(content')
    BY LenProperties
  <1>2. \A i \in 1 .. Len(content') : Len(content'[i]) \in Nat
    BY <1>1, ElementOfSeq, LenProperties
  <1>3. written' \in 0 .. ByteBound
    BY FileTypes, Bounds
  <1>4. FollowTypeOK'
    BY <1>3, ReaderTyped
  <1>5. AllAhead'
    BY <1>1, <1>2, EnvironmentAhead
  <1>6. Within' /\ NothingSkipped'
    BY <1>1, <1>2, EnvironmentTaken
  <1>7. ReadAt' /\ NoRepeats' /\ AtEnd'
    BY DEF ReadAt, NoRepeats, AtEnd, reader, locals
  <1> QED BY <1>4, <1>5, <1>6, <1>7

LEMMA AppWritesKeeps ==
  ASSUME FollowInv, AppWrites
  PROVE  FollowInv'
  <1> USE DEF FollowInv
  <1> DEFINE new == Append(content[handle], written + 1)
  <1>1. handle \in 1 .. Len(content) /\ written + 1 \in 1 .. ByteBound /\ written \in Nat
    BY FileTypes, Bounds DEF AppWrites
  <1>2. content[handle] \in Seq(1 .. ByteBound)
    BY <1>1, FileTypes
  <1>3. /\ new \in Seq(1 .. ByteBound) /\ Len(new) = Len(content[handle]) + 1
        /\ \A k \in 1 .. Len(content[handle]) : new[k] = content[handle][k]
        /\ new[Len(content[handle]) + 1] = written + 1
    BY <1>1, <1>2, AppendProperties
  <1>4. content \in Seq(Seq(1 .. ByteBound)) /\ content' = [content EXCEPT ![handle] = new]
    BY DEF FollowTypeOK, AppWrites
  <1> HIDE DEF new
  <1>5. /\ content' \in Seq(Seq(1 .. ByteBound)) /\ Len(content') = Len(content)
        /\ content'[handle] = new
        /\ \A i \in 1 .. Len(content) : i # handle => content'[i] = content[i]
    BY <1>1, <1>3, <1>4, ExceptSeq
  <1>6. /\ UNCHANGED <<place, reader, locals, got, first, found, path, handle, cut>>
        /\ written' = written + 1
    BY DEF AppWrites, history
  <1>7. \A i \in 1 .. Len(content) :
          /\ Len(content[i]) \in Nat /\ Len(content[i]) =< Len(content'[i])
          /\ \A k \in 1 .. Len(content[i]) : content'[i][k] = content[i][k]
          /\ \A k \in 1 .. Len(content'[i]) : k \notin 1 .. Len(content[i]) =>
               i = handle /\ k = Len(content[i]) + 1 /\ content'[i][k] = written + 1
    <2> TAKE i \in 1 .. Len(content)
    <2>1. Len(content[i]) \in Nat
      BY FileTypes
    <2>2. CASE i = handle
      BY <1>3, <1>5, <2>1, <2>2
    <2>3. CASE i # handle
      BY <1>5, <2>1, <2>3
    <2> QED BY <2>2, <2>3
  <1>8. FilesInOrder'
    <2>1. \A j \in handle + 1 .. Len(content) : content'[j] = << >>
      BY <1>1, <1>5 DEF FilesInOrder
    <2>2. ASSUME NEW i \in 1 .. Len(content), NEW k \in 1 .. Len(content'[i])
          PROVE  /\ content'[i][k] =< written + 1
                 /\ \A l \in k + 1 .. Len(content'[i]) : content'[i][k] < content'[i][l]
                 /\ \A j \in i + 1 .. Len(content) : \A l \in 1 .. Len(content'[j]) :
                      content'[i][k] < content'[j][l]
      <3>1. CASE k \in 1 .. Len(content[i])
        <4>1. /\ content'[i][k] = content[i][k] /\ content[i][k] =< written /\ content[i][k] \in Nat
              /\ content[i][k] < written + 1
          <5>1. content'[i][k] = content[i][k]
            BY <1>7, <3>1
          <5>2. content[i][k] =< written
            BY <3>1 DEF FilesInOrder
          <5>3. content[i][k] \in 1 .. ByteBound
            BY <3>1, FileTypes
          <5> QED BY <1>1, <5>1, <5>2, <5>3, Bounds
        <4>2. ASSUME NEW l \in k + 1 .. Len(content'[i])
              PROVE  content'[i][k] < content'[i][l]
          <5>1. l \in 1 .. Len(content'[i])
                  /\ (l \in 1 .. Len(content[i]) => l \in k + 1 .. Len(content[i]))
            BY <1>7, <3>1, <4>2
          <5>2. CASE l \in 1 .. Len(content[i])
            BY <1>7, <3>1, <4>1, <5>1, <5>2 DEF FilesInOrder
          <5>3. CASE l \notin 1 .. Len(content[i])
            BY <1>7, <4>1, <5>1, <5>3
          <5> QED BY <5>2, <5>3
        <4>3. ASSUME NEW j \in i + 1 .. Len(content), NEW l \in 1 .. Len(content'[j])
              PROVE  content'[i][k] < content'[j][l]
          <5>1. j \in 1 .. Len(content)
            BY <4>3
          <5>2. CASE l \in 1 .. Len(content[j])
            BY <1>7, <3>1, <4>1, <4>3, <5>1, <5>2 DEF FilesInOrder
          <5>3. CASE l \notin 1 .. Len(content[j])
            BY <1>7, <4>1, <4>3, <5>1, <5>3
          <5> QED BY <5>2, <5>3
        <4>4. content'[i][k] =< written + 1
          BY <1>1, <4>1
        <4> QED BY <4>2, <4>3, <4>4
      <3>2. CASE k \notin 1 .. Len(content[i])
        <4>1. i = handle /\ k = Len(content[i]) + 1 /\ content'[i][k] = written + 1
          BY <1>7, <2>2, <3>2
        <4>2. k = Len(content'[i])
          BY <1>3, <1>5, <4>1
        <4>3. \A j \in i + 1 .. Len(content) : 1 .. Len(content'[j]) = {}
          BY <2>1, <4>1
        <4>4. content'[i][k] =< written + 1
          BY <1>1, <4>1
        <4>5. k + 1 .. Len(content'[i]) = {}
          BY <4>2
        <4> QED BY <4>3, <4>4, <4>5
      <3> QED BY <3>1, <3>2
    <2>3. path \in {0, Len(content)}
      BY DEF FilesInOrder
    <2>4. ASSUME NEW i \in 1 .. Len(content)
          PROVE  Len(content'[i]) =< written + 1
      <3>1. Len(content[i]) \in Nat /\ Len(content[i]) =< written
        BY FileTypes DEF FilesInOrder
      <3>2. Len(content'[i]) = Len(content[i]) \/ Len(content'[i]) = Len(content[i]) + 1
        BY <1>3, <1>5
      <3> QED BY <1>1, <3>1, <3>2
    <2> QED BY <1>5, <1>6, <2>1, <2>2, <2>3, <2>4 DEF FilesInOrder
  <1> QED
    <2>1. \A i \in 1 .. Len(content') : \A k \in 1 .. Len(content'[i]) :
            \/ i =< Len(content) /\ k =< Len(content[i]) /\ content'[i][k] = content[i][k]
            \/ content'[i][k] = written + 1
      <3> TAKE i \in 1 .. Len(content')
      <3> TAKE k \in 1 .. Len(content'[i])
      <3>1. i \in 1 .. Len(content) /\ Len(content) \in Nat
        BY <1>5, FileTypes
      <3>2. CASE k \in 1 .. Len(content[i])
        BY <1>7, <3>1, <3>2
      <3>3. CASE k \notin 1 .. Len(content[i])
        BY <1>7, <3>1, <3>3
      <3> QED BY <3>2, <3>3
    <2>2. \A i \in 1 .. Len(content) :
            /\ Len(content'[i]) < Len(content[i]) => content'[i] = << >>
            /\ i \notin cut' => /\ Len(content[i]) =< Len(content'[i])
                                /\ \A k \in 1 .. Len(content[i]) : content'[i][k] = content[i][k]
      <3>1. \A i \in 1 .. Len(content) : Len(content'[i]) \in Nat
        BY <1>5, ElementOfSeq, LenProperties
      <3> QED BY <1>7, <3>1
    <2>3. /\ path' \in 0 .. Len(content') /\ handle' \in 0 .. Len(content')
          /\ cut \subseteq cut' /\ cut' \subseteq DOMAIN content'
          /\ Len(content) =< Len(content') /\ Len(content') =< InodeBound
      BY <1>5, <1>6, FileTypes, ReadTypes, LenProperties
    <2>4. written' \in {written, written + 1} /\ written' =< ByteBound
      BY <1>1, <1>6, Bounds
    <2> QED BY <1>5, <1>6, <1>8, <2>1, <2>2, <2>3, <2>4, EnvironmentKeeps

\* The bytes are left alone.
LEMMA MovesKeep ==
  ASSUME FollowInv, MovedAway \/ AppReopens
  PROVE  FollowInv'
  <1> USE DEF FollowInv
  <1>1. UNCHANGED <<place, reader, locals, got, first, found, content, written, cut>>
    BY DEF MovedAway, AppReopens, history
  <1>2. path' \in {0, Len(content)} /\ path' \in 0 .. Len(content) /\ handle' \in 0 .. Len(content)
    <2>1. path \in {0, Len(content)} /\ path \in 0 .. Len(content) /\ handle \in 0 .. Len(content)
      BY FileTypes DEF FilesInOrder
    <2>2. path' = 0 \/ path' = path
      BY DEF MovedAway, AppReopens
    <2>3. handle' = handle \/ handle' = path
      BY DEF MovedAway, AppReopens
    <2>4. 0 \in 0 .. Len(content)
      BY FileTypes
    <2> QED BY <2>1, <2>2, <2>3, <2>4
  <1>3. \A j \in handle' + 1 .. Len(content) : content[j] = << >>
    <2>1. CASE MovedAway
      BY <2>1 DEF MovedAway, FilesInOrder
    <2>2. CASE AppReopens
      <3>1. handle' = Len(content)
        BY <2>2 DEF AppReopens, FilesInOrder
      <3>2. handle' + 1 .. Len(content) = {}
        BY <3>1, FileTypes
      <3> QED BY <3>2
    <2> QED BY <2>1, <2>2
  <1>4. FilesInOrder'
    <2> DEFINE Ordered(c, w) ==
          \A i \in 1 .. Len(c) :
            /\ Len(c[i]) =< w
            /\ \A k \in 1 .. Len(c[i]) :
                 /\ c[i][k] =< w
                 /\ \A l \in k + 1 .. Len(c[i]) : c[i][k] < c[i][l]
                 /\ \A j \in i + 1 .. Len(c) : \A l \in 1 .. Len(c[j]) : c[i][k] < c[j][l]
    <2>1. Ordered(content, written)
      BY DEF FilesInOrder
    <2> HIDE DEF Ordered
    <2>2. content' = content /\ written' = written
      BY <1>1
    <2>3. /\ path' \in {0, Len(content')}
          /\ \A j \in handle' + 1 .. Len(content') : content'[j] = << >>
      BY <1>2, <1>3, <2>2
    <2>4. Ordered(content', written')
      BY <2>1, <2>2
    <2> QED BY <2>3, <2>4 DEF FilesInOrder, Ordered
  <1>5. /\ content' \in Seq(Seq(1 .. ByteBound)) /\ Len(content') =< InodeBound
        /\ cut' \subseteq DOMAIN content' /\ written' =< ByteBound
    BY <1>1, FileTypes, Bounds DEF FollowTypeOK
  <1>6. \A i \in 1 .. Len(content) : Len(content[i]) \in Nat
    BY FileTypes
  <1>7. \A i \in 1 .. Len(content') : \A k \in 1 .. Len(content'[i]) :
          i =< Len(content) /\ k =< Len(content[i]) /\ content'[i][k] = content[i][k]
    BY <1>1, <1>6, FileTypes
  <1>8. Len(content) =< Len(content')
    BY <1>1, FileTypes
  <1> QED BY <1>1, <1>2, <1>4, <1>5, <1>6, <1>7, <1>8, EnvironmentKeeps

LEMMA CreatedKeeps ==
  ASSUME FollowInv, Created
  PROVE  FollowInv'
  <1> USE DEF FollowInv
  <1>1. UNCHANGED <<place, reader, locals, got, first, found, handle, written, cut>>
    BY DEF Created, history
  <1>2. content \in Seq(Seq(1 .. ByteBound)) /\ << >> \in Seq(1 .. ByteBound)
    BY DEF FollowTypeOK
  <1>3. /\ content' \in Seq(Seq(1 .. ByteBound)) /\ Len(content') = Len(content) + 1
        /\ \A i \in 1 .. Len(content) : content'[i] = content[i]
        /\ content'[Len(content) + 1] = << >>
    BY <1>2, AppendProperties DEF Created
  <1>4. Len(content) \in Nat /\ path' = Len(content') /\ Len(content') =< InodeBound
    BY <1>3, FileTypes, Bounds DEF Created
  <1>5. ASSUME NEW i \in 1 .. Len(content')
        PROVE  i \in 1 .. Len(content) \/ (i = Len(content) + 1 /\ 1 .. Len(content'[i]) = {})
    BY <1>3, <1>4, <1>5
  <1>6. FilesInOrder'
    <2>1. ASSUME NEW i \in 1 .. Len(content'), NEW k \in 1 .. Len(content'[i])
          PROVE  /\ content'[i][k] =< written
                 /\ \A l \in k + 1 .. Len(content'[i]) : content'[i][k] < content'[i][l]
                 /\ \A j \in i + 1 .. Len(content') : \A l \in 1 .. Len(content'[j]) :
                      content'[i][k] < content'[j][l]
      <3>1. i \in 1 .. Len(content) /\ content'[i] = content[i] /\ k \in 1 .. Len(content[i])
        BY <1>3, <1>5, <2>1
      <3>2. /\ content[i][k] =< written
            /\ \A l \in k + 1 .. Len(content[i]) : content[i][k] < content[i][l]
            /\ \A j \in i + 1 .. Len(content) : \A l \in 1 .. Len(content[j]) :
                 content[i][k] < content[j][l]
        BY <3>1 DEF FilesInOrder
      <3>3. ASSUME NEW j \in i + 1 .. Len(content'), NEW l \in 1 .. Len(content'[j])
            PROVE  content[i][k] < content'[j][l]
        <4>1. j \in 1 .. Len(content')
          BY <3>1, <3>3
        <4>2. j \in 1 .. Len(content) /\ content'[j] = content[j]
          BY <1>3, <1>5, <3>3, <4>1
        <4>3. j \in i + 1 .. Len(content)
          BY <3>3, <4>2
        <4> QED BY <3>2, <3>3, <4>2, <4>3
      <3> QED BY <3>1, <3>2, <3>3
    <2>2. ASSUME NEW j \in handle + 1 .. Len(content')
          PROVE  content'[j] = << >>
      <3>1. j \in 1 .. Len(content')
        BY FileTypes, <2>2
      <3>2. CASE j \in 1 .. Len(content)
        <4>1. j \in handle + 1 .. Len(content)
          BY <2>2, <3>2
        <4> QED BY <1>3, <3>2, <4>1 DEF FilesInOrder
      <3>3. CASE j = Len(content) + 1
        BY <1>3, <3>3
      <3> QED BY <1>5, <3>1, <3>2, <3>3
    <2>3. \A i \in 1 .. Len(content') : Len(content'[i]) =< written
      <3>1. Len(<< >>) =< written
        BY FileTypes
      <3> QED BY <1>3, <1>5, <3>1 DEF FilesInOrder
    <2> QED BY <1>1, <1>4, <2>1, <2>2, <2>3 DEF FilesInOrder
  <1>7. \A i \in 1 .. Len(content) : Len(content[i]) \in Nat
    BY FileTypes
  <1>8. \A i \in 1 .. Len(content') : \A k \in 1 .. Len(content'[i]) :
          i =< Len(content) /\ k =< Len(content[i]) /\ content'[i][k] = content[i][k]
    BY <1>3, <1>4, <1>5, <1>7
  <1>9. /\ Len(content) =< Len(content') /\ path' \in 0 .. Len(content')
        /\ handle' \in 0 .. Len(content')
        /\ cut' \subseteq DOMAIN content' /\ written' =< ByteBound
    <2>1. DOMAIN content' = 1 .. Len(content')
      BY <1>3, LenProperties
    <2>2. cut' \subseteq 1 .. Len(content) /\ handle' \in 0 .. Len(content)
            /\ written' \in 0 .. ByteBound
      BY <1>1, FileTypes, ReadTypes
    <2> QED BY <1>3, <1>4, <2>1, <2>2, Bounds
  <1>a. \A i \in 1 .. Len(content) :
          /\ ~(Len(content'[i]) < Len(content[i])) /\ Len(content[i]) =< Len(content'[i])
          /\ \A k \in 1 .. Len(content[i]) : content'[i][k] = content[i][k]
    BY <1>3, <1>7
  <1> QED BY <1>1, <1>3, <1>4, <1>6, <1>8, <1>9, <1>a, EnvironmentKeeps

LEMMA TruncatedKeeps ==
  ASSUME FollowInv, Truncated
  PROVE  FollowInv'
  <1> USE DEF FollowInv
  <1>1. UNCHANGED <<place, reader, locals, got, first, found, path, handle, written>>
    BY DEF Truncated
  <1>2. /\ content \in Seq(Seq(1 .. ByteBound)) /\ << >> \in Seq(1 .. ByteBound)
        /\ path \in 1 .. Len(content) /\ Len(content) \in Nat
    BY FileTypes DEF FollowTypeOK, Truncated
  <1>3. /\ content' \in Seq(Seq(1 .. ByteBound)) /\ Len(content') = Len(content)
        /\ \A i \in 1 .. Len(content) : content'[i] = IF i = path THEN << >> ELSE content[i]
    BY <1>2, ExceptSeq DEF Truncated
  <1>4. cut' = cut \cup {path} /\ Len(content) =< InodeBound
    BY FileTypes DEF Truncated
  <1>5. \A i \in 1 .. Len(content) :
          /\ \/ content'[i] = content[i]
             \/ i = path /\ content'[i] = << >> /\ 1 .. Len(content'[i]) = {}
          /\ Len(content[i]) \in Nat
    BY <1>3, FileTypes
  <1>6. FilesInOrder'
    <2>1. ASSUME NEW i \in 1 .. Len(content), NEW k \in 1 .. Len(content'[i])
          PROVE  /\ content'[i][k] =< written
                 /\ \A l \in k + 1 .. Len(content'[i]) : content'[i][k] < content'[i][l]
                 /\ \A j \in i + 1 .. Len(content) : \A l \in 1 .. Len(content'[j]) :
                      content'[i][k] < content'[j][l]
      <3>1. content'[i] = content[i] /\ k \in 1 .. Len(content[i])
        BY <1>5, <2>1
      <3>2. /\ content[i][k] =< written
            /\ \A l \in k + 1 .. Len(content[i]) : content[i][k] < content[i][l]
            /\ \A j \in i + 1 .. Len(content) : \A l \in 1 .. Len(content[j]) :
                 content[i][k] < content[j][l]
        BY <3>1 DEF FilesInOrder
      <3>3. \A j \in i + 1 .. Len(content) : \A l \in 1 .. Len(content'[j]) :
              content[i][k] < content'[j][l]
        <4>1. \A j \in i + 1 .. Len(content) : j \in 1 .. Len(content)
          BY <1>2
        <4> QED BY <1>5, <3>2, <4>1
      <3> QED BY <3>1, <3>2, <3>3
    <2>2. \A j \in handle + 1 .. Len(content) : content'[j] = << >>
      <3>1. \A j \in handle + 1 .. Len(content) : j \in 1 .. Len(content) /\ content[j] = << >>
        <4>1. \A j \in handle + 1 .. Len(content) : content[j] = << >>
          BY DEF FilesInOrder
        <4>2. handle \in Nat
          BY FileTypes
        <4> QED BY <1>2, <4>1, <4>2
      <3> QED BY <1>5, <3>1
    <2>3. \A i \in 1 .. Len(content) : Len(content'[i]) =< written
      <3>1. Len(<< >>) =< written
        BY FileTypes
      <3> QED BY <1>5, <3>1 DEF FilesInOrder
    <2> QED BY <1>1, <1>3, <2>1, <2>2, <2>3 DEF FilesInOrder
  <1>7. \A i \in 1 .. Len(content') : \A k \in 1 .. Len(content'[i]) :
          i =< Len(content) /\ k =< Len(content[i]) /\ content'[i][k] = content[i][k]
    BY <1>2, <1>3, <1>5
  <1>8. /\ Len(content) =< Len(content') /\ path' \in 0 .. Len(content')
        /\ handle' \in 0 .. Len(content')
        /\ Len(content') =< InodeBound /\ written' =< ByteBound /\ cut \subseteq cut'
    BY <1>1, <1>2, <1>3, <1>4, FileTypes, Bounds
  <1>9. cut' \subseteq DOMAIN content'
    BY <1>2, <1>3, <1>4, ReadTypes, LenProperties
  <1>a. \A i \in 1 .. Len(content) :
          /\ Len(content'[i]) < Len(content[i]) => content'[i] = << >>
          /\ i \notin cut' => content'[i] = content[i]
    BY <1>4, <1>5
  <1>b. \A i \in 1 .. Len(content) : i \notin cut' =>
           /\ Len(content[i]) =< Len(content'[i])
           /\ \A k \in 1 .. Len(content[i]) : content'[i][k] = content[i][k]
    BY <1>5, <1>a
  <1> QED BY <1>1, <1>3, <1>6, <1>7, <1>8, <1>9, <1>a, <1>b, EnvironmentKeeps
----------------------------------------------------------------------------
(***************************************************************************)
(* The reader.                                                             *)
(***************************************************************************)

\* The conjuncts of AllAhead one by one, for the open file.
LEMMA OpenFile ==
  ASSUME FollowInv, file # 0
  PROVE  /\ ~closed /\ opened /\ temp = Nothing /\ file \in 1 .. Len(content)
         /\ \A k \in offset + 1 .. Len(content[file]) : Newer(content[file][k])
         /\ Len(content[file]) < offset => Ahead(content[file])
         /\ place = "switch" /\ info.inode = file /\ info.size < offset => Ahead(content[file])
         /\ \A i \in file + 1 .. Len(content) : Ahead(content[i])
  <1>1. place \in {"check", "open", "stat", "publish", "test", "read", "eof", "switch", "wait",
          "done"}
    BY DEF FollowInv, FollowTypeOK
  <1>2. ~closed /\ temp = Nothing
    BY <1>1 DEF FollowInv, ReadAt
  <1>3. opened
    BY DEF FollowInv, ReadAt
  <1>4. file \in 1 .. Len(content)
    BY FileTypes, ReadTypes DEF FollowInv
  <1> QED BY <1>2, <1>3, <1>4 DEF FollowInv, AllAhead

\* A reader's step leaves the files as they are.
LEMMA FilesLeft ==
  ASSUME FilesInOrder, UNCHANGED fs
  PROVE  FilesInOrder'
  <1>1. path' = path /\ content' = content /\ handle' = handle /\ written' = written
    BY DEF fs
  <1> QED BY <1>1 DEF FilesInOrder

\* Fewer bytes are due of a shorter beginning.
LEMMA DueOfLess ==
  ASSUME NEW i, NEW m \in Nat, NEW n \in Nat, m =< n, FollowTypeOK
  PROVE  Due(i, m) \subseteq Due(i, n)
  <1> DEFINE skip == IF i = first.inode THEN first.size ELSE 0
  <1>1. skip \in Nat
    BY ReadTypes
  <1>2. Due(i, m) = {content[i][k] : k \in skip + 1 .. m}
          /\ Due(i, n) = {content[i][k] : k \in skip + 1 .. n}
    BY DEF Due
  <1> HIDE DEF skip
  <1>3. \A k \in skip + 1 .. m : k \in skip + 1 .. n
    BY ONLY <1>1, m \in Nat, n \in Nat, m =< n
  <1> QED BY <1>2, <1>3

\* Where the bytes delivered and the history stay, what was due is still delivered: also
\* of a file that is left, if what was found there is.
LEMMA TakenLeft ==
  ASSUME FollowInv, UNCHANGED <<fs, got, first, found, cut>>,
         \/ file' = file /\ offset' = offset /\ closed' = closed
         \/ file' = 0 /\ closed' = closed
              /\ (file # 0 /\ file \notin cut => found[file] =< offset)
         \/ file' = 0 /\ closed',
         temp' = temp \/ temp' = Nothing
  PROVE  Within' /\ NothingSkipped' /\ NoRepeats'
  <1> USE DEF FollowInv
  <1>1. /\ content' = content /\ got' = got /\ first' = first /\ found' = found /\ cut' = cut
        /\ DOMAIN content = 1 .. Len(content)
    BY FileTypes DEF fs
  <1>2. \A i \in 1 .. Len(content) :
          /\ i = file' => i = file /\ offset' = offset
          /\ i = temp'.inode => i = temp.inode /\ temp'.size = temp.size
    BY FileTypes DEF Nothing
  <1>3. Within'
    BY <1>1, <1>2 DEF Within
  <1>4. ASSUME NEW i \in DOMAIN content \ cut
        PROVE  /\ i # file' /\ ~closed' => Due(i, found[i])' \subseteq Range(got)
               /\ i = file' => Due(i, offset)' \subseteq Range(got)
    <2>1. Due(i, found[i])' = Due(i, found[i])
      BY <1>1 DEF Due
    <2>2. i = file' => Due(i, offset)' = Due(i, offset)
      BY <1>1, <1>2 DEF Due
    <2>3. /\ i # file /\ ~closed => Due(i, found[i]) \subseteq Range(got)
          /\ i = file => Due(i, offset) \subseteq Range(got)
      BY DEF NothingSkipped
    <2>4. ASSUME i = file, i # file', ~closed'
          PROVE  Due(i, found[i]) \subseteq Range(got)
      <3>1. i \in 1 .. InodeBound /\ i # 0
        BY <1>1, FileTypes, Bounds
      <3>2. found[i] \in Nat /\ offset \in Nat /\ found[i] =< offset
        BY <2>4, <3>1, ReadTypes
      <3>3. Due(i, found[i]) \subseteq Due(i, offset)
        BY <3>2, DueOfLess
      <3> QED BY <2>3, <2>4, <3>3
    <2> QED BY <1>1, <1>2, <2>1, <2>2, <2>3, <2>4
  <1>5. NothingSkipped'
    BY <1>1, <1>4 DEF NothingSkipped
  <1>6. NoRepeats'
    BY <1>1 DEF NoRepeats
  <1> QED BY <1>3, <1>5, <1>6

\* Steps that change only where Read stands, and its locals.
LEMMA ControlKeeps ==
  ASSUME FollowInv, Check \/ TestClosed \/ ReadClosed \/ StatPath \/ WaitOver \/ WaitDone
  PROVE  FollowInv'
  <1> USE DEF FollowInv
  <1>1. UNCHANGED <<fs, got, first, found, cut, startAtEnd, file, offset, opened, closed, temp>>
    BY DEF Check, TestClosed, ReadClosed, StatPath, WaitOver, WaitDone, reader, locals, history
  <1>2. content' = content /\ path' = path /\ handle' = handle /\ written' = written
    BY <1>1 DEF fs
  <1>3. /\ place' \in {"check", "open", "test", "read", "switch", "wait", "done"}
        /\ place \in {"check", "test", "read", "eof", "wait"}
        /\ place' = "open" => file = 0
        /\ place' = "read" => local' # 0
        /\ local' \in {local, file}
        /\ place' = "switch" => /\ path # 0 /\ info'.inode = path /\ info'.size = Len(content[path])
        /\ \/ info' = info
           \/ info' = [inode |-> path, size |-> IF path = 0 THEN 0 ELSE Len(content[path])]
    <2>1. CASE Check
      BY <2>1 DEF Check, locals
    <2>2. CASE TestClosed
      BY <2>2 DEF TestClosed
    <2>3. CASE ReadClosed \/ WaitOver \/ WaitDone
      BY <2>3 DEF ReadClosed, WaitOver, WaitDone, locals
    <2>4. CASE StatPath
      BY <2>4 DEF StatPath
    <2> QED BY <2>1, <2>2, <2>3, <2>4
  <1>4. info' \in [inode : 0 .. Len(content), size : 0 .. ByteBound]
    <2>1. info \in [inode : 0 .. Len(content), size : 0 .. ByteBound]
      BY DEF FollowTypeOK
    <2>2. path # 0 => Len(content[path]) \in 0 .. ByteBound
      <3>1. path # 0 => path \in 1 .. Len(content)
        BY FileTypes
      <3>2. path # 0 => Len(content[path]) \in Nat /\ Len(content[path]) =< written
        BY <3>1, FileTypes DEF FilesInOrder
      <3> QED BY <3>2, FileTypes, Bounds
    <2> QED BY <1>3, <2>1, <2>2, FileTypes, Bounds
  <1>5. FollowTypeOK'
    <2>1. {temp', info', first'} \subseteq [inode : 0 .. Len(content), size : 0 .. ByteBound]
      BY <1>1, <1>4 DEF FollowTypeOK
    <2>2. /\ place' \in {"check", "open", "stat", "publish", "test", "read", "eof", "switch",
               "wait", "done"}
          /\ local' \in 0 .. Len(content)
      BY <1>3 DEF FollowTypeOK
    <2>3. startAtEnd' \in BOOLEAN /\ opened' \in BOOLEAN /\ closed' \in BOOLEAN
      BY <1>1 DEF FollowTypeOK
    <2> QED BY <1>1, <1>2, <2>1, <2>2, <2>3 DEF FollowTypeOK
  <1>6. FilesInOrder'
    BY <1>1, FilesLeft
  <1>7. ReadAt'
    <2>1. temp = Nothing
      BY <1>3 DEF ReadAt
    <2>2. place' = "switch" => file =< info'.inode
      BY <1>3, FileTypes, ReadTypes DEF FilesInOrder
    <2> QED BY <1>1, <1>3, <2>1, <2>2 DEF ReadAt, Nothing
  <1>8. AllAhead'
    <2>1. place' = "switch" /\ file # 0 /\ info'.inode = file /\ info'.size < offset
            => Ahead(content[file])
      BY <1>3, OpenFile
    <2> QED BY <1>1, <1>2, <2>1 DEF AllAhead, Ahead, Newer
  <1>9. AtEnd'
    <2>1. place' \in {"eof", "switch"} => place = "eof"
      BY DEF Check, TestClosed, ReadClosed, StatPath, WaitOver, WaitDone
    <2> QED BY <1>1, <2>1 DEF AtEnd
  <1> QED BY <1>1, <1>5, <1>6, <1>7, <1>8, <1>9, TakenLeft

\* Steps that change the file being opened.
LEMMA OpeningKeeps ==
  ASSUME FollowInv, Open \/ StatOpened \/ CallFails
  PROVE  FollowInv'
  <1> USE DEF FollowInv
  <1>1. UNCHANGED <<fs, got, first, found, cut, startAtEnd, file, offset, opened, closed,
                    local, info>>
    BY DEF Open, StatOpened, CallFails, reader, history
  <1>2. content' = content /\ path' = path /\ handle' = handle /\ written' = written
    BY <1>1 DEF fs
  <1>3. \/ /\ temp' = Nothing /\ place' \in {"test", "done"}
        \/ /\ place' = "stat" /\ temp' = [inode |-> path, size |-> 0] /\ path \in 1 .. Len(content)
           /\ path = Len(content) /\ file = 0
        \/ /\ place' = "publish" /\ file = 0
           /\ temp.inode \in 1 .. Len(content)
           /\ temp'.inode = temp.inode /\ temp'.size = SkipTo(Len(content[temp.inode]))
    <2>1. CASE Open
      <3>1. /\ file = 0 /\ (path = 0 \/ path = Len(content)) /\ path \in 0 .. Len(content)
            /\ Len(content) \in Nat
        BY <2>1, FileTypes DEF Open, FilesInOrder, ReadAt
      <3>2. temp' = [inode |-> path, size |-> 0] /\ place' = IF path = 0 THEN "test" ELSE "stat"
        BY <2>1 DEF Open
      <3>3. CASE path = 0
        BY <3>2, <3>3 DEF Nothing
      <3>4. CASE path # 0
        <4>1. path \in 1 .. Len(content)
          BY <3>1, <3>4
        <4> QED BY <3>1, <3>2, <3>4, <4>1
      <3> QED BY <3>3, <3>4
    <2>2. CASE StatOpened
      <3>1. place = "stat" /\ temp.inode \in 1 .. Len(content)
        BY <2>2, ReadTypes, FileTypes DEF StatOpened, ReadAt
      <3>2. temp'.inode = temp.inode /\ temp'.size = SkipTo(Len(content[temp.inode]))
        <4>1. temp \in [inode : 0 .. Len(content), size : 0 .. ByteBound]
          BY DEF FollowTypeOK
        <4>2. temp' = [temp EXCEPT !.size = SkipTo(Len(content[temp.inode]))]
          BY <2>2 DEF StatOpened
        <4> QED BY <4>1, <4>2
      <3> QED BY <2>2, <3>1, <3>2 DEF StatOpened, ReadAt
    <2>3. CASE CallFails
      BY <2>3 DEF CallFails
    <2> QED BY <2>1, <2>2, <2>3
  <1>4. temp' \in [inode : 0 .. Len(content), size : 0 .. ByteBound]
    <2>1. CASE place' = "publish"
      <3>1. Len(content[temp.inode]) \in 0 .. ByteBound
        <4>1. temp.inode \in 1 .. Len(content)
          BY <1>3, <2>1
        <4>2. /\ Len(content[temp.inode]) \in Nat /\ Len(content[temp.inode]) =< written
              /\ written \in 0 .. ByteBound
          BY <4>1, FileTypes DEF FilesInOrder
        <4> QED BY ONLY <4>2, Bounds
      <3>2. temp'.size \in 0 .. ByteBound
        BY <1>3, <2>1, <3>1, Bounds DEF SkipTo
      <3>3. temp' = [temp EXCEPT !.size = SkipTo(Len(content[temp.inode]))]
        BY <2>1 DEF Open, StatOpened, CallFails
      <3>4. temp \in [inode : 0 .. Len(content), size : 0 .. ByteBound]
        BY DEF FollowTypeOK
      <3> QED BY <1>3, <2>1, <3>2, <3>3, <3>4
    <2>2. CASE place' # "publish"
      BY <1>3, <2>2, FileTypes, Bounds DEF Nothing
    <2> QED BY <2>1, <2>2
  <1>5. FollowTypeOK'
    <2>1. {temp', info', first'} \subseteq [inode : 0 .. Len(content), size : 0 .. ByteBound]
      BY <1>1, <1>4 DEF FollowTypeOK
    <2>2. place' \in {"check", "open", "stat", "publish", "test", "read", "eof", "switch", "wait",
            "done"}
      BY <1>3
    <2>3. startAtEnd' \in BOOLEAN /\ opened' \in BOOLEAN /\ closed' \in BOOLEAN
      BY <1>1 DEF FollowTypeOK
    <2> QED BY <1>1, <1>2, <2>1, <2>2, <2>3 DEF FollowTypeOK
  <1>6. FilesInOrder'
    BY <1>1, FilesLeft
  <1>7. ReadAt'
    <2>1. opened \/ place' = "stat" => temp'.size = 0
      BY <1>3 DEF SkipTo, Nothing
    <2>2. /\ place' \notin {"stat", "publish"} => temp' = Nothing
          /\ place' \in {"stat", "publish"} => temp'.inode # 0 /\ file = 0
          /\ place' \notin {"open", "read", "switch"}
      BY <1>3, FileTypes
    <2> QED BY <1>1, <2>1, <2>2 DEF ReadAt
  <1>8. AllAhead'
    <2>1. ~closed /\ temp'.inode # 0 => \A i \in temp'.inode .. Len(content) : Ahead(content[i])
      <3>1. CASE temp' = Nothing
        BY <3>1 DEF Nothing
      <3>2. CASE place' = "stat"
        <4>1. \A i \in temp'.inode .. Len(content) : i = Len(content) /\ content # << >>
          BY <1>3, <3>2, FileTypes
        <4> QED BY <1>3, <3>2, <4>1 DEF AllAhead
      <3>3. CASE place' = "publish"
        BY <1>3, <3>3 DEF AllAhead
      <3> QED BY <1>3, <3>1, <3>2, <3>3
    <2>2. place' # "switch"
      BY <1>3
    <2> QED BY <1>1, <1>2, <2>1, <2>2 DEF AllAhead, Ahead, Newer
  <1>9. Within'
    <2>1. ASSUME NEW i \in 1 .. Len(content), i = temp'.inode
          PROVE  temp'.size =< Len(content[i])
      <3>1. Len(content[i]) \in Nat
        BY FileTypes
      <3> QED BY <1>3, <2>1, <3>1 DEF SkipTo, Nothing
    <2> QED BY <1>1, <1>2, <2>1 DEF Within
  <1>a. NothingSkipped' /\ NoRepeats'
    <2>1. ASSUME NEW i, NEW n
          PROVE  Due(i, n)' = Due(i, n)
      BY <1>1, <1>2 DEF Due
    <2>2. NothingSkipped'
      BY <1>1, <1>2, <2>1 DEF NothingSkipped, Due
    <2> QED BY <1>1, <2>2 DEF NoRepeats
  <1>b. AtEnd'
    BY <1>3 DEF AtEnd
  <1> QED BY <1>5, <1>6, <1>7, <1>8, <1>9, <1>a, <1>b

\* Files opened later lie ahead, whether or not the file was found by its end.
LEMMA PublishKeeps ==
  ASSUME FollowInv, Publish
  PROVE  FollowInv'
  <1> USE DEF FollowInv
  <1>1. /\ place = "publish" /\ place' = "test" /\ temp' = Nothing
        /\ UNCHANGED <<fs, got, found, cut, startAtEnd, closed, local, info>>
    BY DEF Publish
  <1>2. content' = content /\ path' = path /\ handle' = handle /\ written' = written
    BY <1>1 DEF fs
  <1>3. file = 0 /\ temp.inode \in 1 .. Len(content) /\ temp.size \in Nat
    BY <1>1, FileTypes, ReadTypes DEF ReadAt
  <1>4. CASE closed
    <2>1. UNCHANGED <<file, offset, opened, first>>
      BY <1>4 DEF Publish
    <2>2. FollowTypeOK'
      <3>1. {temp', info', first'} \subseteq [inode : 0 .. Len(content), size : 0 .. ByteBound]
        BY <1>1, <2>1, FileTypes, Bounds DEF FollowTypeOK, Nothing
      <3>2. startAtEnd' \in BOOLEAN /\ opened' \in BOOLEAN /\ closed' \in BOOLEAN
        BY <1>1, <2>1 DEF FollowTypeOK
      <3> QED BY <1>1, <1>2, <2>1, <3>1, <3>2 DEF FollowTypeOK
    <2>3. FilesInOrder'
      BY <1>1, FilesLeft
    <2>4. ReadAt'
      BY <1>1, <1>3, <2>1 DEF ReadAt, Nothing
    <2>5. AllAhead'
      BY <1>1, <1>2, <1>3, <1>4, <2>1 DEF AllAhead, Ahead, Newer
    <2>6. AtEnd'
      BY <1>1 DEF AtEnd
    <2> QED BY <1>1, <2>1, <2>2, <2>3, <2>4, <2>5, <2>6, TakenLeft
  <1>5. CASE ~closed
    <2>1. file' = temp.inode /\ offset' = temp.size /\ opened' = TRUE
            /\ (first' = IF opened THEN first ELSE temp)
      BY <1>5 DEF Publish
    <2>2. FollowTypeOK'
      <3>1. {temp', info', first'} \subseteq [inode : 0 .. Len(content), size : 0 .. ByteBound]
        BY <1>1, <2>1, FileTypes, Bounds DEF FollowTypeOK, Nothing
      <3>2. startAtEnd' \in BOOLEAN /\ opened' \in BOOLEAN /\ closed' \in BOOLEAN
        BY <1>1, <2>1 DEF FollowTypeOK
      <3>3. file' \in 0 .. Len(content) /\ offset' \in 0 .. ByteBound
        BY <2>1 DEF FollowTypeOK
      <3> QED BY <1>1, <1>2, <2>1, <3>1, <3>2, <3>3 DEF FollowTypeOK
    <2>3. FilesInOrder'
      BY <1>1, FilesLeft
    <2>4. ReadAt'
      BY <1>1, <1>5, <2>1 DEF ReadAt, Nothing
    <2>5. AllAhead'
      <3>1. \A i \in temp.inode .. Len(content) : Ahead(content[i])
        BY <1>3, <1>5 DEF AllAhead
      <3>2. Ahead(content[temp.inode])
        BY <1>3, <3>1
      <3>3. \A k \in temp.size + 1 .. Len(content[temp.inode]) : Newer(content[temp.inode][k])
        <4>1. \A k \in temp.size + 1 .. Len(content[temp.inode]) :
                k \in 1 .. Len(content[temp.inode])
          BY <1>3, FileTypes
        <4> QED BY <3>2, <4>1 DEF Ahead
      <3>4. \A i \in temp.inode + 1 .. Len(content) : Ahead(content[i])
        BY <1>3, <3>1
      <3>5. \A k \in 1 .. Len(got) : got[k] =< written
        BY DEF AllAhead
      <3>6. temp'.inode = 0 /\ file' # 0
        BY <1>1, <1>3, <2>1 DEF Nothing
      <3> QED BY <1>1, <1>2, <2>1, <3>2, <3>3, <3>4, <3>5, <3>6 DEF AllAhead, Ahead, Newer
    <2>6. Within'
      <3>1. temp'.inode = 0
        BY <1>1 DEF Nothing
      <3> QED BY <1>1, <1>2, <2>1, <3>1 DEF Within
    <2>7. ASSUME NEW i \in DOMAIN content \ cut
          PROVE  /\ i # file' => Due(i, found[i])' \subseteq Range(got)
                 /\ i = file' => Due(i, offset)' \subseteq Range(got)
      <3>1. CASE opened
        <4>1. first' = first /\ offset' = 0 /\ first.size \in Nat
          BY <1>1, <2>1, <3>1, ReadTypes DEF ReadAt
        <4>2. Due(i, found[i])' = Due(i, found[i])
          BY <1>1, <1>2, <4>1 DEF Due
        <4>3. Due(i, offset)' = {}
          BY <4>1 DEF Due
        <4>4. i # file => Due(i, found[i]) \subseteq Range(got)
          BY <1>5 DEF NothingSkipped
        <4>5. i # 0
          BY FileTypes
        <4> QED BY <1>3, <4>2, <4>3, <4>4, <4>5
      <3>2. CASE ~opened
        <4>1. first' = temp
          BY <2>1, <3>2
        <4>2. found'[i] = 0
          BY <1>1, <3>2, FileTypes, Bounds DEF ReadAt
        <4>3. Due(i, found[i])' = {}
          BY <1>3, <4>1, <4>2 DEF Due
        <4>4. i = file' => Due(i, offset)' = {}
          BY <1>3, <2>1, <4>1 DEF Due
        <4> QED BY <4>3, <4>4
      <3> QED BY <3>1, <3>2
    <2>8. NothingSkipped' /\ NoRepeats' /\ AtEnd'
      BY <1>1, <1>2, <2>7 DEF NothingSkipped, NoRepeats, AtEnd
    <2> QED BY <2>2, <2>3, <2>4, <2>5, <2>6, <2>8
  <1> QED BY <1>4, <1>5

LEMMA ReadEOFKeeps ==
  ASSUME FollowInv, ReadEOF
  PROVE  FollowInv'
  <1> USE DEF FollowInv
  <1>1. /\ place = "read" /\ place' = "eof" /\ file = local /\ offset >= Len(content[local])
        /\ found' = [found EXCEPT ![local] = Len(content[local])]
        /\ UNCHANGED <<fs, got, first, cut, startAtEnd, file, offset, opened, closed, temp,
                       local, info>>
    BY DEF ReadEOF, reader, locals
  <1>2. content' = content /\ path' = path /\ handle' = handle /\ written' = written
    BY <1>1 DEF fs
  <1>3. /\ file \in 1 .. Len(content) /\ file \in 1 .. InodeBound /\ opened
        /\ Len(content[file]) \in Nat /\ Len(content[file]) =< written
    <2>1. file # 0
      BY <1>1 DEF ReadAt
    <2>2. file \in 1 .. Len(content) /\ opened
      BY <2>1, OpenFile
    <2>3. Len(content[file]) \in Nat /\ Len(content[file]) =< written /\ Len(content) =< InodeBound
      BY <2>2, FileTypes DEF FilesInOrder
    <2>4. Len(content) \in Nat
      BY FileTypes
    <2> QED BY <2>2, <2>3, <2>4, Bounds
  <1>4. found \in [1 .. InodeBound -> 0 .. ByteBound] /\ Len(content[file]) \in 0 .. ByteBound
    <2>1. written \in 0 .. ByteBound
      BY DEF FollowTypeOK
    <2>2. found \in [1 .. InodeBound -> 0 .. ByteBound]
      BY DEF FollowTypeOK
    <2> QED BY ONLY <1>3, <2>1, <2>2, Bounds
  <1>5. found' \in [1 .. InodeBound -> 0 .. ByteBound]
    BY <1>1, <1>3, <1>4
  <1>6. \A i \in 1 .. InodeBound : found'[i] = IF i = file THEN Len(content[file]) ELSE found[i]
    BY <1>1, <1>3, <1>4
  <1>7. FollowTypeOK'
    <2>1. {temp', info', first'} \subseteq [inode : 0 .. Len(content), size : 0 .. ByteBound]
      BY <1>1 DEF FollowTypeOK
    <2>2. startAtEnd' \in BOOLEAN /\ opened' \in BOOLEAN /\ closed' \in BOOLEAN
      BY <1>1 DEF FollowTypeOK
    <2> QED BY <1>1, <1>2, <1>5, <2>1, <2>2 DEF FollowTypeOK
  <1>8. FilesInOrder'
    BY <1>1, FilesLeft
  <1>9. ReadAt'
    BY <1>1, <1>3 DEF ReadAt
  <1>a. AllAhead'
    BY <1>1, <1>2 DEF AllAhead, Ahead, Newer
  <1>b. Within'
    <2>1. \A i \in 1 .. Len(content) : i \notin cut => found'[i] =< Len(content[i])
      <3>1. \A i \in 1 .. Len(content) : i \in 1 .. InodeBound /\ Len(content[i]) \in Nat
        BY FileTypes, Bounds
      <3>2. \A i \in 1 .. Len(content) : i \notin cut => found[i] =< Len(content[i])
        BY DEF Within
      <3> QED BY <1>3, <1>6, <3>1, <3>2
    <2>2. \A i \in Len(content) + 1 .. InodeBound : found'[i] = 0
      <3>1. \A i \in Len(content) + 1 .. InodeBound : i \in 1 .. InodeBound /\ i # file
        BY <1>3, FileTypes
      <3> QED BY <1>6, <3>1 DEF Within
    <2> QED BY <1>1, <1>2, <2>1, <2>2 DEF Within
  <1>c. ASSUME NEW i \in DOMAIN content \ cut
        PROVE  /\ i # file' /\ ~closed' => Due(i, found[i])' \subseteq Range(got)
               /\ i = file' => Due(i, offset)' \subseteq Range(got)
    <2>1. /\ i # file /\ ~closed => Due(i, found[i]) \subseteq Range(got)
          /\ i = file => Due(i, offset) \subseteq Range(got)
          /\ i \in 1 .. InodeBound
      BY FileTypes, Bounds DEF NothingSkipped
    <2>2. i = file' => Due(i, offset)' \subseteq Range(got)
      BY <1>1, <1>2, <2>1 DEF Due
    <2>3. CASE i = file
      BY <1>1, <2>2, <2>3
    <2>4. CASE i # file
      <3>1. Due(i, found[i])' = Due(i, found[i])
        BY <1>1, <1>2, <1>6, <2>1, <2>4 DEF Due
      <3> QED BY <1>1, <2>1, <2>2, <3>1
    <2> QED BY <2>3, <2>4
  <1>d. NothingSkipped' /\ NoRepeats' /\ AtEnd'
    <2>1. found'[file] =< offset
      BY <1>1, <1>3, <1>6, ReadTypes
    <2> QED BY <1>1, <1>2, <1>c, <2>1 DEF NothingSkipped, NoRepeats, AtEnd
  <1> QED BY <1>7, <1>8, <1>9, <1>a, <1>b, <1>d

LEMMA SwitchKeeps ==
  ASSUME FollowInv, Switch
  PROVE  FollowInv'
  <1> USE DEF FollowInv
  <1>1. /\ place = "switch" /\ place' = "wait"
        /\ UNCHANGED <<fs, got, first, found, cut, startAtEnd, opened, closed, temp, local, info>>
    BY DEF Switch, locals, history
  <1>2. content' = content /\ path' = path /\ handle' = handle /\ written' = written
    BY <1>1 DEF fs
  <1>3. FilesInOrder' /\ temp = Nothing
    BY <1>1, FilesLeft DEF ReadAt
  <1>4. FollowTypeOK'
    <2>1. {temp', info', first'} \subseteq [inode : 0 .. Len(content), size : 0 .. ByteBound]
      BY <1>1 DEF FollowTypeOK
    <2>2. startAtEnd' \in BOOLEAN /\ opened' \in BOOLEAN /\ closed' \in BOOLEAN
      BY <1>1 DEF FollowTypeOK
    <2>3. file' \in {file, 0} /\ offset' \in {offset, 0}
      BY DEF Switch
    <2>4. 0 \in 0 .. Len(content) /\ 0 \in 0 .. ByteBound
      BY FileTypes, Bounds
    <2>5. file' \in 0 .. Len(content) /\ offset' \in 0 .. ByteBound
      BY <2>3, <2>4 DEF FollowTypeOK
    <2> QED BY <1>1, <1>2, <2>1, <2>2, <2>5 DEF FollowTypeOK
  <1>5. ReadAt'
    <2>1. file' \in {file, 0}
      BY DEF Switch
    <2> QED BY <1>1, <2>1 DEF ReadAt
  <1>6. CASE closed \/ file = 0 \/ (info.inode = file /\ info.size >= offset)
    <2>1. file' = file /\ offset' = offset
      BY <1>6, ReadTypes DEF Switch
    <2>2. AllAhead'
      BY <1>1, <1>2, <2>1 DEF AllAhead, Ahead, Newer
    <2>3. AtEnd'
      BY <1>1 DEF AtEnd
    <2> QED BY <1>1, <1>3, <1>4, <1>5, <2>1, <2>2, <2>3, TakenLeft
  <1>7. CASE ~closed /\ file # 0 /\ info.inode # file
    <2>1. file' = 0 /\ offset' = 0
      BY <1>7 DEF Switch
    <2>2. Ahead(content[Len(content)])
      <3>1. file =< info.inode /\ info.inode =< Len(content)
        BY <1>1, ReadTypes DEF ReadAt
      <3>2. Len(content) \in file + 1 .. Len(content)
        BY <1>7, <3>1, FileTypes, ReadTypes
      <3> QED BY <1>7, <3>2, OpenFile
    <2>3. AllAhead'
      <3>1. temp'.inode = 0
        BY <1>1, <1>3 DEF Nothing
      <3>2. \A k \in 1 .. Len(got) : got[k] =< written
        BY DEF AllAhead
      <3> QED BY <1>1, <1>2, <2>1, <2>2, <3>1, <3>2 DEF AllAhead, Ahead, Newer
    <2>4. file # 0 /\ file \notin cut => found[file] =< offset
      BY <1>1 DEF AtEnd
    <2>5. AtEnd'
      BY <1>1 DEF AtEnd
    <2> QED BY <1>1, <1>3, <1>4, <1>5, <2>1, <2>3, <2>4, <2>5, TakenLeft
  <1>8. CASE ~closed /\ file # 0 /\ info.inode = file /\ info.size < offset
    <2>1. file' = file /\ offset' = 0
      BY <1>8 DEF Switch
    <2>2. /\ Ahead(content[file]) /\ file \in 1 .. Len(content)
          /\ \A i \in file + 1 .. Len(content) : Ahead(content[i])
      BY <1>1, <1>8, OpenFile
    <2>3. AllAhead'
      <3>1. temp'.inode = 0
        BY <1>1, <1>3 DEF Nothing
      <3>2. \A k \in 1 .. Len(got) : got[k] =< written
        BY DEF AllAhead
      <3>3. \A k \in offset' + 1 .. Len(content[file]) : Newer(content[file][k])
        BY <2>1, <2>2 DEF Ahead
      <3> QED BY <1>1, <1>2, <1>8, <2>1, <2>2, <3>1, <3>2, <3>3 DEF AllAhead, Ahead, Newer
    <2>4. Within'
      <3>1. \A i \in 1 .. Len(content) : 0 =< Len(content[i])
        BY FileTypes
      <3> QED BY <1>1, <1>2, <2>1, <3>1 DEF Within
    <2>5. ASSUME NEW i \in DOMAIN content \ cut
          PROVE  /\ i # file' /\ ~closed' => Due(i, found[i])' \subseteq Range(got)
                 /\ i = file' => Due(i, offset)' \subseteq Range(got)
      <3>1. Due(i, found[i])' = Due(i, found[i])
        BY <1>1, <1>2 DEF Due
      <3>2. first.size \in Nat
        BY ReadTypes
      <3>3. Due(i, offset)' = {}
        BY <1>1, <2>1, <3>2 DEF Due
      <3> QED BY <1>1, <2>1, <3>1, <3>3 DEF NothingSkipped
    <2>6. NothingSkipped' /\ NoRepeats' /\ AtEnd'
      BY <1>1, <1>2, <2>5 DEF NothingSkipped, NoRepeats, AtEnd
    <2> QED BY <1>3, <1>4, <1>5, <2>3, <2>4, <2>6
  <1> QED BY <1>6, <1>7, <1>8, ReadTypes

LEMMA CloseKeeps ==
  ASSUME FollowInv, Close
  PROVE  FollowInv'
  <1> USE DEF FollowInv
  <1>1. /\ closed' = TRUE /\ file' = 0
        /\ UNCHANGED <<fs, place, got, first, found, cut, startAtEnd, offset, opened, temp,
                       local, info>>
    BY DEF Close, locals, history
  <1>2. content' = content /\ path' = path /\ handle' = handle /\ written' = written
    BY <1>1 DEF fs
  <1>3. FollowTypeOK'
    <2>1. {temp', info', first'} \subseteq [inode : 0 .. Len(content), size : 0 .. ByteBound]
      BY <1>1 DEF FollowTypeOK
    <2>2. startAtEnd' \in BOOLEAN /\ opened' \in BOOLEAN /\ closed' \in BOOLEAN
      BY <1>1 DEF FollowTypeOK
    <2>3. 0 \in 0 .. Len(content)
      BY FileTypes
    <2> QED BY <1>1, <1>2, <2>1, <2>2, <2>3 DEF FollowTypeOK
  <1>4. FilesInOrder'
    BY <1>1, FilesLeft
  <1>5. ReadAt'
    <2>1. 0 =< info.inode
      BY ReadTypes
    <2> QED BY <1>1, <2>1 DEF ReadAt
  <1>6. AllAhead' /\ AtEnd'
    BY <1>1, <1>2 DEF AllAhead, AtEnd
  <1> QED BY <1>1, <1>3, <1>4, <1>5, <1>6, TakenLeft

\* What is read lies behind the offset, and is in the order it was written in.
LEMMA ReadBytesKeeps ==
  ASSUME FollowInv, ReadBytes
  PROVE  FollowInv'
  <1> USE DEF FollowInv
  <1>1. /\ place = "read" /\ place' = "check" /\ file = local /\ offset < Len(content[local])
        /\ found' = [found EXCEPT ![local] = Len(content[local])]
        /\ UNCHANGED <<fs, first, cut, startAtEnd, file, opened, closed, temp, local, info>>
    BY DEF ReadBytes, locals
  <1>2. content' = content /\ path' = path /\ handle' = handle /\ written' = written
    BY <1>1 DEF fs
  <1>3. file # 0 /\ local = file
    BY <1>1 DEF ReadAt
  <1>4. /\ ~closed /\ opened /\ temp = Nothing /\ file \in 1 .. Len(content)
        /\ \A k \in offset + 1 .. Len(content[file]) : Newer(content[file][k])
        /\ \A i \in file + 1 .. Len(content) : Ahead(content[i])
    BY <1>3, OpenFile
  <1> DEFINE c == content[file]
  <1>5. /\ c \in Seq(1 .. ByteBound) /\ Len(c) \in Nat /\ Len(c) =< written
        /\ \A k \in 1 .. Len(c) : c[k] \in 1 .. ByteBound /\ c[k] =< written
        /\ \A k \in 1 .. Len(c) : \A l \in k + 1 .. Len(c) : c[k] < c[l]
        /\ \A j \in file + 1 .. Len(content) : \A k \in 1 .. Len(c) :
             \A l \in 1 .. Len(content[j]) :
             c[k] < content[j][l]
    BY <1>4, FileTypes DEF FilesInOrder
  <1>6. PICK n \in 1 .. ReadSize :
          offset + n =< Len(c) /\ got' = got \o SubSeq(c, offset + 1, offset + n)
            /\ offset' = offset + n
    BY <1>3 DEF ReadBytes
  <1> DEFINE s == SubSeq(c, offset + 1, offset + n)
  <1> HIDE DEF c
  <1>7. n \in Nat /\ n >= 1 /\ offset \in Nat /\ Len(got) \in Nat /\ got \in Seq(1 .. ByteBound)
    BY <1>6, ReadTypes, FollowFileAssumption
  <1>8. /\ s \in Seq(1 .. ByteBound) /\ Len(s) = n
        /\ \A k \in 1 .. n : s[k] = c[offset + k]
    <2>1. offset + 1 \in 1 .. offset + n + 1 /\ offset + n \in offset .. Len(c)
      BY <1>5, <1>6, <1>7
    <2> QED BY <1>5, <1>6, <1>7, <2>1, SubSeqProperties
  <1> HIDE DEF s
  <1>9. /\ got' \in Seq(1 .. ByteBound) /\ Len(got') = Len(got) + n
        /\ \A k \in 1 .. Len(got) : got'[k] = got[k]
        /\ \A k \in Len(got) + 1 .. Len(got) + n : got'[k] = c[offset + k - Len(got)]
    <2>1. got' = got \o s
      BY <1>6 DEF s
    <2>2. /\ got' \in Seq(1 .. ByteBound) /\ Len(got') = Len(got) + n
          /\ \A k \in 1 .. Len(got) + n :
               got'[k] = IF k =< Len(got) THEN got[k] ELSE s[k - Len(got)]
      BY <1>7, <1>8, <2>1, ConcatProperties
    <2>3. \A k \in 1 .. Len(got) : got'[k] = got[k]
      BY <1>7, <2>2
    <2>4. ASSUME NEW k \in Len(got) + 1 .. Len(got) + n
          PROVE  got'[k] = c[offset + k - Len(got)]
      <3>1. k \in 1 .. Len(got) + n /\ ~(k =< Len(got)) /\ k - Len(got) \in 1 .. n
        BY <1>7, <2>4
      <3>2. offset + (k - Len(got)) = offset + k - Len(got)
        BY <1>7, <3>1
      <3> QED BY <1>8, <2>2, <3>1, <3>2
    <2> QED BY <2>2, <2>3, <2>4
  <1>n. /\ found' \in [1 .. InodeBound -> 0 .. ByteBound]
        /\ \A i \in 1 .. InodeBound : found'[i] = IF i = file THEN Len(c) ELSE found[i]
    <2>1. found \in [1 .. InodeBound -> 0 .. ByteBound] /\ written \in 0 .. ByteBound
      BY DEF FollowTypeOK
    <2>2. Len(c) \in 0 .. ByteBound
      BY ONLY <1>5, <2>1, Bounds
    <2>3. found' = [found EXCEPT ![file] = Len(c)]
      BY <1>1, <1>3 DEF c
    <2> HIDE DEF c
    <2> QED BY ONLY <2>1, <2>2, <2>3
  <1>a. FollowTypeOK'
    <2>1. {temp', info', first'} \subseteq [inode : 0 .. Len(content), size : 0 .. ByteBound]
      BY <1>1 DEF FollowTypeOK
    <2>2. startAtEnd' \in BOOLEAN /\ opened' \in BOOLEAN /\ closed' \in BOOLEAN
      BY <1>1 DEF FollowTypeOK
    <2>3. written \in 0 .. ByteBound
      BY DEF FollowTypeOK
    <2>4. offset' \in 0 .. ByteBound
      BY ONLY <1>5, <1>6, <1>7, <2>3, Bounds
    <2> QED BY <1>1, <1>2, <1>9, <1>n, <2>1, <2>2, <2>4 DEF FollowTypeOK
  <1>b. FilesInOrder'
    BY <1>1, FilesLeft
  <1>c. ReadAt'
    BY <1>1, <1>4 DEF ReadAt, Nothing
  \* Everything newer than what was delivered and than what is read now stays ahead.
  <1>d. ASSUME NEW b \in Int, Newer(b), \A k \in offset + 1 .. offset + n : c[k] < b
        PROVE  \A k \in 1 .. Len(got') : got'[k] < b
    <2> TAKE k \in 1 .. Len(got')
    <2>1. CASE k \in 1 .. Len(got)
      BY <1>9, <1>d, <2>1 DEF Newer
    <2>2. CASE k \in Len(got) + 1 .. Len(got) + n
      <3>1. offset + k - Len(got) \in offset + 1 .. offset + n
        BY <1>7, <2>2
      <3> QED BY <1>9, <1>d, <2>2, <3>1
    <2> QED BY <1>7, <1>9, <2>1, <2>2
  <1>e. \A k \in offset' + 1 .. Len(c) : \A l \in 1 .. Len(got') : got'[l] < c[k]
    <2> TAKE k \in offset' + 1 .. Len(c)
    <2>1. k \in 1 .. Len(c) /\ k \in offset + 1 .. Len(c)
      BY <1>5, <1>6, <1>7
    <2>2. Newer(c[k]) /\ c[k] \in Int
      BY <1>4, <1>5, <2>1 DEF c
    <2>3. \A l \in offset + 1 .. offset + n : c[l] < c[k]
      <3>1. \A l \in offset + 1 .. offset + n : l \in 1 .. Len(c) /\ k \in l + 1 .. Len(c)
        BY <1>5, <1>6, <1>7, <2>1
      <3> QED BY <1>5, <3>1
    <2> QED BY <1>d, <2>2, <2>3
  <1>f. \A j \in file + 1 .. Len(content) : \A k \in 1 .. Len(content[j]) :
          \A l \in 1 .. Len(got') : got'[l] < content[j][k]
    <2> TAKE j \in file + 1 .. Len(content)
    <2> TAKE k \in 1 .. Len(content[j])
    <2>1. Newer(content[j][k])
      BY <1>4 DEF Ahead
    <2>2. j \in 1 .. Len(content)
      BY <1>4
    <2>3. content[j][k] \in Int
      BY <2>2, FileTypes
    <2>4. \A l \in offset + 1 .. offset + n : l \in 1 .. Len(c)
      BY <1>5, <1>6, <1>7
    <2>5. \A l \in offset + 1 .. offset + n : c[l] < content[j][k]
      BY <1>5, <2>4
    <2> QED BY <1>d, <2>1, <2>3, <2>5
  <1>g. AllAhead'
    <2>1. \A k \in 1 .. Len(got') : got'[k] =< written
      <3> TAKE k \in 1 .. Len(got')
      <3>1. CASE k \in 1 .. Len(got)
        BY <1>9, <3>1 DEF AllAhead
      <3>2. CASE k \in Len(got) + 1 .. Len(got) + n
        <4>1. offset + k - Len(got) \in 1 .. Len(c)
          BY <1>5, <1>6, <1>7, <3>2
        <4> QED BY <1>5, <1>9, <3>2, <4>1
      <3> QED BY <1>7, <1>9, <3>1, <3>2
    <2>2. ~(Len(c) < offset') /\ temp'.inode = 0 /\ place' # "switch"
      BY <1>1, <1>4, <1>5, <1>6, <1>7 DEF Nothing
    <2> QED BY <1>1, <1>2, <1>3, <1>e, <1>f, <2>1, <2>2 DEF AllAhead, Ahead, Newer, c
  <1>h. NoRepeats'
    <2> SUFFICES ASSUME NEW k \in 1 .. Len(got') - 1
                 PROVE  got'[k] < got'[k + 1]
      BY DEF NoRepeats
    <2>1. CASE k + 1 \in 1 .. Len(got)
      <3>1. k \in 1 .. Len(got) /\ k \in 1 .. Len(got) - 1
        BY <1>7, <1>9, <2>1
      <3> QED BY <1>9, <2>1, <3>1 DEF NoRepeats
    <2>2. CASE k = Len(got)
      <3>1. k \in 1 .. Len(got) /\ k + 1 \in Len(got) + 1 .. Len(got) + n
              /\ offset + (k + 1) - Len(got) = offset + 1
        BY <1>7, <1>9, <2>2
      <3>2. got'[k + 1] = c[offset + 1] /\ got'[k] = got[k]
        BY <1>9, <3>1
      <3>3. offset + 1 \in offset + 1 .. Len(c)
        BY <1>5, <1>6, <1>7
      <3>4. Newer(c[offset + 1])
        BY <1>4, <3>3 DEF c
      <3> QED BY <3>1, <3>2, <3>4 DEF Newer
    <2>3. CASE k \in Len(got) + 1 .. Len(got) + n - 1
      <3>1. /\ k \in Len(got) + 1 .. Len(got) + n /\ k + 1 \in Len(got) + 1 .. Len(got) + n
            /\ offset + k - Len(got) \in 1 .. Len(c)
            /\ offset + (k + 1) - Len(got) \in (offset + k - Len(got)) + 1 .. Len(c)
        BY <1>5, <1>6, <1>7, <2>3
      <3> QED BY <1>5, <1>9, <3>1
    <2> QED BY <1>7, <1>9, <2>1, <2>2, <2>3
  <1>i. Within'
    <2>1. \A i \in 1 .. Len(content) : i \notin cut => found'[i] =< Len(content[i])
      <3>1. \A i \in 1 .. Len(content) : i \in 1 .. InodeBound
        BY FileTypes, Bounds
      <3> QED BY <1>5, <1>n, <3>1 DEF Within, c
    <2>2. \A i \in Len(content) + 1 .. InodeBound : found'[i] = 0
      <3>1. \A i \in Len(content) + 1 .. InodeBound : i \in 1 .. InodeBound /\ i # file
        BY <1>4, FileTypes
      <3> QED BY <1>n, <3>1 DEF Within
    <2>3. \A i \in 1 .. Len(content) : i = temp'.inode => temp'.size =< Len(content[i])
      BY <1>1, <1>4 DEF Nothing
    <2>4. offset' =< Len(c)
      BY <1>6
    <2> QED BY <1>1, <1>2, <2>1, <2>2, <2>3, <2>4 DEF Within, c
  <1>j. Range(got) \subseteq Range(got')
    <2>1. DOMAIN got = 1 .. Len(got) /\ DOMAIN got' = 1 .. Len(got')
      BY <1>7, <1>9, LenProperties
    <2>2. 1 .. Len(got) \subseteq 1 .. Len(got')
      BY <1>7, <1>9
    <2> QED BY <1>9, <2>1, <2>2 DEF Range
  <1>k. \A k \in offset + 1 .. offset + n : c[k] \in Range(got')
    <2> TAKE k \in offset + 1 .. offset + n
    <2> DEFINE l == Len(got) + (k - offset)
    <2>1. l \in Len(got) + 1 .. Len(got) + n /\ l \in 1 .. Len(got') /\ offset + l - Len(got) = k
      BY <1>7, <1>9
    <2>2. got'[l] = c[k]
      BY <1>9, <2>1
    <2>3. l \in DOMAIN got'
      BY <1>9, <2>1, LenProperties
    <2> QED BY <2>2, <2>3 DEF Range
  <1>l. ASSUME NEW i \in DOMAIN content \ cut
        PROVE  /\ i # file' /\ ~closed' => Due(i, found[i])' \subseteq Range(got')
               /\ i = file' => Due(i, offset)' \subseteq Range(got')
    <2>1. /\ i # file /\ ~closed => Due(i, found[i]) \subseteq Range(got)
          /\ i = file => Due(i, offset) \subseteq Range(got)
      BY DEF NothingSkipped
    <2>2. i # file => Due(i, found[i])' = Due(i, found[i])
      <3>1. i \in 1 .. InodeBound
        BY FileTypes, Bounds
      <3>2. i # file => found'[i] = found[i]
        BY <1>n, <3>1
      <3> QED BY <1>1, <1>2, <3>2 DEF Due
    <2>3. ASSUME i = file
          PROVE  Due(i, offset)' \subseteq Range(got')
      <3> DEFINE skip == IF i = first.inode THEN first.size ELSE 0
      <3>1. skip \in Nat
        BY ReadTypes
      <3>2. Due(i, offset)' = {c[k] : k \in skip + 1 .. offset + n}
              /\ Due(i, offset) = {c[k] : k \in skip + 1 .. offset}
        BY <1>1, <1>2, <1>6, <2>3 DEF Due, c
      <3> HIDE DEF skip
      <3>3. ASSUME NEW k \in skip + 1 .. offset + n
            PROVE  c[k] \in Range(got')
        <4>1. k \in skip + 1 .. offset \/ k \in offset + 1 .. offset + n
          BY <1>7, <3>1
        <4>2. CASE k \in skip + 1 .. offset
          BY <1>j, <2>1, <2>3, <3>2, <4>2
        <4> QED BY <1>k, <4>1, <4>2
      <3> QED BY <3>2, <3>3
    <2> QED BY <1>1, <1>j, <2>1, <2>2, <2>3
  <1>m. NothingSkipped' /\ AtEnd'
    BY <1>1, <1>2, <1>l DEF NothingSkipped, AtEnd
  <1> QED BY <1>a, <1>b, <1>c, <1>g, <1>h, <1>i, <1>m
----------------------------------------------------------------------------
(***************************************************************************)
(* The theorems.                                                           *)
(***************************************************************************)
LEMMA FollowInitHolds == FollowInit => FollowInv
  <1> SUFFICES ASSUME FollowInit PROVE FollowInv
    OBVIOUS
  <1>1. /\ handle = path /\ place = "check" /\ file = 0 /\ offset = 0 /\ opened = FALSE
        /\ closed = FALSE
        /\ temp = Nothing /\ local = 0 /\ info = Nothing /\ got = << >> /\ first = Nothing
        /\ found = [i \in 1 .. InodeBound |-> 0] /\ cut = {}
        /\ startAtEnd = (StartAtEnd /\ path # 0)
    BY DEF FollowInit
  <1>2. \/ content = << >> /\ path = 0 /\ written = 0
        \/ content = << <<1>> >> /\ path = 1 /\ written = 1
    BY DEF FollowInit
  <1>3. << >> \in Seq(Seq(1 .. ByteBound)) /\ << <<1>> >> \in Seq(Seq(1 .. ByteBound))
    <2>1. 1 \in 1 .. ByteBound
      BY Bounds
    <2> QED BY <2>1
  <1>4. content \in Seq(Seq(1 .. ByteBound)) /\ Len(content) \in {0, 1} /\ path = Len(content)
          /\ written = Len(content)
    BY <1>2, <1>3
  <1>5. \A i \in 1 .. Len(content) : i = 1 /\ content[i] = <<1>> /\ Len(content[i]) = 1
    <2>1. CASE content = << >>
      BY <2>1
    <2>2. CASE content = << <<1>> >>
      <3>1. 1 .. Len(content) = {1} /\ content[1] = <<1>> /\ Len(<<1>>) = 1
        BY <2>2
      <3> QED BY <3>1
    <2> QED BY <1>2, <2>1, <2>2
  <1>6. FollowTypeOK
    <2>1. {temp, info, first} \subseteq [inode : 0 .. Len(content), size : 0 .. ByteBound]
      BY <1>1, <1>4, Bounds DEF Nothing
    <2>2. startAtEnd \in BOOLEAN
      BY <1>1
    <2>3. path \in 0 .. Len(content) /\ 0 \in 0 .. Len(content) /\ written \in 0 .. ByteBound
            /\ Len(content) =< InodeBound
      <3>1. CASE Len(content) = 0
        BY <1>4, <3>1, Bounds
      <3>2. CASE Len(content) = 1
        BY <1>4, <3>2, Bounds
      <3> QED BY <1>4, <3>1, <3>2
    <2>4. found \in [1 .. InodeBound -> 0 .. ByteBound] /\ got \in Seq(1 .. ByteBound)
            /\ 0 \in 0 .. ByteBound
      BY <1>1, Bounds
    <2> QED BY <1>1, <1>4, <2>1, <2>2, <2>3, <2>4 DEF FollowTypeOK
  <1>7. FilesInOrder
    <2>1. \A j \in handle + 1 .. Len(content) : content[j] = << >>
      BY <1>1, <1>4
    <2>2. \A i \in 1 .. Len(content) : Len(content[i]) =< written
      BY <1>4, <1>5
    <2>3. ASSUME NEW i \in 1 .. Len(content), NEW k \in 1 .. Len(content[i])
          PROVE  /\ content[i][k] =< written
                 /\ \A l \in k + 1 .. Len(content[i]) : content[i][k] < content[i][l]
                 /\ \A j \in i + 1 .. Len(content) : \A l \in 1 .. Len(content[j]) :
                      content[i][k] < content[j][l]
      <3>1. i = 1 /\ k = 1 /\ content[i] = <<1>> /\ Len(content[i]) = 1 /\ Len(content) = 1
              /\ written = 1
        BY <1>4, <1>5, <2>3
      <3> QED BY <3>1
    <2> QED BY <1>4, <2>1, <2>2, <2>3 DEF FilesInOrder
  <1>8. ReadAt
    <2>1. \A i \in 1 .. InodeBound : found[i] = 0
      BY <1>1
    <2> QED BY <1>1, <2>1 DEF ReadAt, Nothing
  <1>9. AllAhead
    BY <1>1 DEF AllAhead, Ahead, Newer, Nothing
  <1>a. Within
    <2>1. \A i \in 1 .. InodeBound : found[i] = 0
      BY <1>1
    <2>2. \A i \in 1 .. Len(content) : i # 0 /\ i \in 1 .. InodeBound /\ 0 =< Len(content[i])
      BY <1>4, <1>5, Bounds
    <2>3. \A i \in Len(content) + 1 .. InodeBound : i \in 1 .. InodeBound
      BY <1>4, Bounds
    <2> QED BY <1>1, <2>1, <2>2, <2>3 DEF Within, Nothing
  <1>b. NothingSkipped
    <2>1. ASSUME NEW i \in DOMAIN content \ cut
          PROVE  /\ i # file /\ ~closed => Due(i, found[i]) \subseteq Range(got)
                 /\ i = file => Due(i, offset) \subseteq Range(got)
      <3>1. i \in 1 .. InodeBound /\ i # 0
        BY <1>4, LenProperties, Bounds
      <3>2. found[i] = 0 /\ first.size = 0
        BY <1>1, <3>1 DEF Nothing
      <3>3. Due(i, found[i]) = {}
        BY <3>2 DEF Due
      <3> QED BY <1>1, <3>1, <3>3
    <2> QED BY <2>1 DEF NothingSkipped
  <1>c. NoRepeats /\ AtEnd
    BY <1>1 DEF NoRepeats, AtEnd
  <1> QED BY <1>6, <1>7, <1>8, <1>9, <1>a, <1>b, <1>c DEF FollowInv

LEMMA FollowStep == FollowInv /\ [FollowNext]_followVars => FollowInv'
  <1> SUFFICES ASSUME FollowInv, [FollowNext]_followVars PROVE FollowInv'
    OBVIOUS
  <1>1. CASE AppWrites
    BY <1>1, AppWritesKeeps
  <1>2. CASE MovedAway \/ AppReopens
    BY <1>2, MovesKeep
  <1>3. CASE Created
    BY <1>3, CreatedKeeps
  <1>4. CASE Truncated
    BY <1>4, TruncatedKeeps
  <1>5. CASE Check \/ TestClosed \/ ReadClosed \/ StatPath \/ WaitOver \/ WaitDone
    BY <1>5, ControlKeeps
  <1>6. CASE Open \/ StatOpened \/ CallFails
    BY <1>6, OpeningKeeps
  <1>7. CASE Publish
    BY <1>7, PublishKeeps
  <1>8. CASE ReadBytes
    BY <1>8, ReadBytesKeeps
  <1>9. CASE ReadEOF
    BY <1>9, ReadEOFKeeps
  <1>a. CASE Switch
    BY <1>a, SwitchKeeps
  <1>b. CASE Close
    BY <1>b, CloseKeeps
  <1>c. CASE UNCHANGED followVars
    <2> USE DEF FollowInv
    <2>1. /\ UNCHANGED <<fs, got, first, found, cut, place, startAtEnd, file, offset, opened,
                         closed>>
          /\ UNCHANGED <<temp, local, info>>
      BY <1>c DEF followVars, reader, locals, history
    <2>2. content' = content /\ path' = path /\ handle' = handle /\ written' = written
      BY <2>1 DEF fs
    <2>3. FollowTypeOK'
      <3>1. startAtEnd' \in BOOLEAN /\ opened' \in BOOLEAN /\ closed' \in BOOLEAN
        BY <2>1 DEF FollowTypeOK
      <3> QED BY <2>1, <2>2, <3>1 DEF FollowTypeOK
    <2>4. FilesInOrder'
      BY <2>1, FilesLeft
    <2>5. ReadAt'
      BY <2>1 DEF ReadAt
    <2>6. AllAhead'
      BY <2>1, <2>2 DEF AllAhead, Ahead, Newer
    <2>7. AtEnd'
      BY <2>1 DEF AtEnd
    <2> QED BY <2>1, <2>3, <2>4, <2>5, <2>6, <2>7, TakenLeft
  <1> QED BY <1>1, <1>2, <1>3, <1>4, <1>5, <1>6, <1>7, <1>8, <1>9, <1>a, <1>b, <1>c
       DEF FollowNext, Environment, FollowReader

(***************************************************************************)
(* The inductive invariant holds in every reachable state, whatever the    *)
(* application, the log rotator and Close do between two system calls      *)
(* of Read (source_file.go).                                               *)
(***************************************************************************)
THEOREM FollowInvariant == FollowSpec => []FollowInv
  BY FollowInitHolds, FollowStep, PTL DEF FollowSpec

(***************************************************************************)
(* No byte is delivered twice, and none after a newer one: what Read does  *)
(* when the path names another file, or a shorter one (handleEOF), never   *)
(* takes it back to bytes it has delivered.                                *)
(***************************************************************************)
THEOREM NothingTwice == FollowSpec => []NoRepeats
  <1>1. FollowInv => NoRepeats
    BY DEF FollowInv
  <1> QED BY <1>1, FollowInvariant, PTL

(***************************************************************************)
(* Of a file that is not truncated, nothing that was there at the last     *)
(* read of it is left out when the reader leaves it for another, and       *)
(* nothing before the offset of the file that is open (handleEOF).         *)
(***************************************************************************)
THEOREM NothingLeftOut == FollowSpec => []NothingSkipped
  <1>1. FollowInv => NothingSkipped
    BY DEF FollowInv
  <1> QED BY <1>1, FollowInvariant, PTL

(***************************************************************************)
(* A Read that has returned after Close leaves no descriptor open, not     *)
(* that of the file it was opening when Close came either (ensureOpen).    *)
(***************************************************************************)
THEOREM NoDescriptorStays == FollowSpec => []NoDescriptorLeft
  <1>1. FollowInv => NoDescriptorLeft
    BY DEF FollowInv, ReadAt, NoDescriptorLeft
  <1> QED BY <1>1, FollowInvariant, PTL
============================================================================
