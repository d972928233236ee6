------------------------- MODULE DirectorySinkProofs -------------------------
(***************************************************************************)
(* Proofs about the rotating directory sink, for every size of file,       *)
(* buffer and record, any number of writers, processes and failing calls:  *)
(* whatever directory a power loss leaves, its segments are complete and   *)
(* have the records as written; no rotation takes the name of a segment    *)
(* that exists; no record is split over two files; and read in the order   *)
(* of their names, the files are what was written, in order, less what     *)
(* retention took.                                                         *)
(***************************************************************************)
EXTENDS DirectorySink, SequenceTheorems, FiniteSetTheorems, WellFoundedInduction, TLAPS

Rotating == {"flush", "sync", "close", "rename", "syncdir", "retain", "open"}

(***************************************************************************)
(* The inductive invariant, in parts.                                      *)
(***************************************************************************)

\* What a process has in hand where it stands, and what is ready for the rename.
InHand ==
  /\ writer = "none" <=> file = "none"
  /\ writer # "good" => w = << >>
  /\ file = "open" => Dir.current # 0
  /\ pc \in Rotating \cup {"put"} => writers > 0 /\ pending \in Sizes /\ records < RecordBound
  /\ pc = "flush" => writer # "none"
  /\ pc \in {"sync", "close"} => writer = "good" /\ w = << >>
  /\ pc = "close" => file = "open"
  /\ pc \in {"close", "rename"} => Dir.current # 0 /\ synced[Dir.current] = Len(data[Dir.current])
  /\ pc \in {"rename", "syncdir", "retain", "open", "down"} => writer = "none"
  /\ pc \in {"syncdir", "retain", "open"} => Dir.current = 0
  /\ pc = "put" => file = "open" /\ writer = "good" /\ size = 0

\* A file that has been rotated is never again the current one, in whichever order
\* changes of the directory are undone, and has one name.
Dirs ==
  \A v \in 1 .. Len(versions) :
    /\ IsFiniteSet(versions[v].rotated)
    /\ \A s, t \in versions[v].rotated : s.inode = t.inode => s = t
    /\ \A u \in 1 .. v : \A s \in versions[u].rotated : s.inode # versions[v].current

\* These bytes make a file that is not too long, or are those of one record.
Together(x, y) ==
  Len(x) + Len(y) =< MaxBytes \/ \E r \in 1 .. RecordBound : Range(x) \cup Range(y) \subseteq {r}

\* No file is too long, nor will the current one be when what is buffered reaches it.
NotTooLong ==
  /\ \A i \in 1 .. Len(data) : Together(data[i], << >>)
  /\ file = "open" => Together(data[Dir.current], w)
  /\ writer = "good" /\ file = "open" => size = Len(data[Dir.current]) + Len(w)

\* No record is in two files, or in the buffer and in another file than the current.
NotSplit ==
  /\ \A i, j \in 1 .. Len(data) : i # j => Range(data[i]) \cap Range(data[j]) = {}
  /\ \A i \in 1 .. Len(data) : Range(data[i]) \subseteq 1 .. records
  /\ Range(w) \subseteq 1 .. records
  /\ file = "open" =>
       \A i \in 1 .. Len(data) : i # Dir.current => Range(data[i]) \cap Range(w) = {}

SinkInv == TypeOK /\ InHand /\ Dirs /\ DurableSegments /\ NotTooLong /\ NotSplit
----------------------------------------------------------------------------
(***************************************************************************)
(* Types.                                                                  *)
(***************************************************************************)
Byte == 1 .. RecordBound
Segment(n) == [time : 1 .. TimeBound, suffix : Nat, inode : 1 .. n]
Directory(n) == [current : 0 .. n, rotated : SUBSET Segment(n)]

DiskTypes ==
  /\ data \in Seq(Seq(Byte))
  /\ synced \in Seq(Nat) /\ Len(synced) = Len(data)
  /\ \A i \in DOMAIN data : synced[i] =< Len(data[i])
  /\ versions # << >> /\ versions \in Seq(Directory(Len(data)))

BufferTypes ==
  /\ w \in Seq(Byte) /\ Len(w) =< BufferSize
  /\ size \in Nat /\ records \in 0 .. RecordBound

ControlTypes ==
  /\ time \in 0 .. TimeBound /\ runs \in 0 .. RunBound
  /\ pc \in {"down", "idle", "flush", "sync", "close", "rename", "syncdir", "retain",
             "open", "put", "panicked"}
  /\ file \in {"none", "open", "closed"} /\ writer \in {"none", "good", "broken"}
  /\ pending \in Sizes \cup {0}
  /\ writers \in 0 .. Writers /\ failed \in BOOLEAN /\ steady \in BOOLEAN

LEMMA AllTypes == TypeOK <=> DiskTypes /\ BufferTypes /\ ControlTypes
  BY DEF TypeOK, DiskTypes, BufferTypes, ControlTypes, Byte, Directory, Segment

LEMMA AllTyped ==
  ASSUME DiskTypes', BufferTypes', ControlTypes'
  PROVE  TypeOK'
  BY DEF TypeOK, DiskTypes, BufferTypes, ControlTypes, Byte, Directory, Segment

LEMMA Constants ==
  /\ MaxBytes \in Nat /\ MaxBytes >= 1 /\ BufferSize \in Nat /\ BufferSize >= 1
  /\ Sizes \subseteq Nat \ {0} /\ RecordBound \in Nat /\ TimeBound \in Nat /\ RunBound \in Nat
  /\ Writers \in Nat /\ Writers >= 1
  BY DirectorySinkAssumption

\* A sequence over indices.
LEMMA SeqOver ==
  ASSUME NEW S, NEW s \in Seq(S)
  PROVE  /\ Len(s) \in Nat /\ DOMAIN s = 1 .. Len(s) /\ \A i \in 1 .. Len(s) : s[i] \in S
         /\ Range(s) = {s[i] : i \in 1 .. Len(s)} /\ Range(s) \subseteq S
  <1>1. Len(s) \in Nat /\ DOMAIN s = 1 .. Len(s) /\ \A i \in 1 .. Len(s) : s[i] \in S
    BY LenProperties, ElementOfSeq
  <1> QED BY <1>1 DEF Range

LEMMA DiskOver ==
  ASSUME TypeOK
  PROVE  /\ Len(data) \in Nat /\ DOMAIN data = 1 .. Len(data) /\ DOMAIN synced = 1 .. Len(data)
         /\ \A i \in 1 .. Len(data) :
              /\ data[i] \in Seq(Byte) /\ Len(data[i]) \in Nat
              /\ synced[i] \in Nat /\ synced[i] =< Len(data[i])
         /\ Len(versions) \in Nat /\ Len(versions) >= 1 /\ DOMAIN versions = 1 .. Len(versions)
         /\ \A v \in 1 .. Len(versions) : versions[v] \in Directory(Len(data))
         /\ Dir = versions[Len(versions)] /\ Dir \in Directory(Len(data))
         /\ Dir.current \in 0 .. Len(data) /\ Dir.rotated \subseteq Segment(Len(data))
         /\ w \in Seq(Byte) /\ Len(w) \in Nat
  <1>1. DiskTypes /\ BufferTypes
    BY AllTypes
  <1>2. /\ Len(data) \in Nat /\ DOMAIN data = 1 .. Len(data)
        /\ \A i \in 1 .. Len(data) : data[i] \in Seq(Byte)
    BY <1>1, SeqOver DEF DiskTypes
  <1>3. \A i \in 1 .. Len(data) : Len(data[i]) \in Nat
    BY <1>2, SeqOver
  <1>4. DOMAIN synced = 1 .. Len(data) /\ \A i \in 1 .. Len(data) : synced[i] \in Nat
    BY <1>1, SeqOver DEF DiskTypes
  <1>5. /\ Len(versions) \in Nat /\ DOMAIN versions = 1 .. Len(versions)
        /\ \A v \in 1 .. Len(versions) : versions[v] \in Directory(Len(data))
    BY <1>1, SeqOver DEF DiskTypes
  <1>6. Len(versions) >= 1
    BY <1>1, <1>5, EmptySeq DEF DiskTypes
  <1>7. Dir = versions[Len(versions)]
    BY DEF Dir, Last
  <1>8. Dir \in Directory(Len(data))
    BY <1>5, <1>6, <1>7
  <1>9. w \in Seq(Byte) /\ Len(w) \in Nat
    BY <1>1, SeqOver DEF BufferTypes
  <1> QED BY <1>1, <1>2, <1>3, <1>4, <1>5, <1>6, <1>7, <1>8, <1>9 DEF DiskTypes, Directory
----------------------------------------------------------------------------
(***************************************************************************)
(* Bytes that are moved from the buffer to the current file.               *)
(***************************************************************************)

\* The first n bytes and the rest.
LEMMA Parts ==
  ASSUME NEW S, NEW all \in Seq(S), NEW n \in 0 .. Len(all)
  PROVE  /\ SubSeq(all, 1, n) \in Seq(S) /\ Len(SubSeq(all, 1, n)) = n
         /\ Range(SubSeq(all, 1, n)) \subseteq Range(all)
         /\ SubSeq(all, n + 1, Len(all)) \in Seq(S)
         /\ Len(SubSeq(all, n + 1, Len(all))) = Len(all) - n
         /\ Range(SubSeq(all, n + 1, Len(all))) \subseteq Range(all)
         /\ n = 0 => SubSeq(all, 1, n) = << >>
  <1>1. Len(all) \in Nat /\ \A i \in 1 .. Len(all) : all[i] \in S
    BY SeqOver
  <1> DEFINE a == SubSeq(all, 1, n)
             b == SubSeq(all, n + 1, Len(all))
  <1>2. /\ a \in Seq(S) /\ Len(a) = n /\ \A i \in 1 .. n : a[i] = all[i]
    BY <1>1, SubSeqProperties
  <1>3. /\ b \in Seq(S) /\ Len(b) = Len(all) - n
        /\ \A i \in 1 .. Len(all) - n : b[i] = all[n + i]
    BY <1>1, SubSeqProperties
  <1> HIDE DEF a, b
  <1>4. Range(a) \subseteq Range(all)
    BY <1>1, <1>2, SeqOver
  <1>5. Range(b) \subseteq Range(all)
    <2>1. \A i \in 1 .. Len(all) - n : n + i \in 1 .. Len(all)
      BY <1>1
    <2>2. Range(b) = {b[i] : i \in 1 .. Len(b)} /\ Range(all) = {all[i] : i \in 1 .. Len(all)}
      BY <1>3, SeqOver
    <2> QED BY <1>3, <2>1, <2>2
  <1>6. n = 0 => a = << >>
    BY <1>2, EmptySeq
  <1> QED BY <1>2, <1>3, <1>4, <1>5, <1>6 DEF a, b

LEMMA JoinedOver ==
  ASSUME NEW S, NEW s \in Seq(S), NEW t \in Seq(S)
  PROVE  /\ s \o t \in Seq(S) /\ Len(s \o t) = Len(s) + Len(t)
         /\ Range(s \o t) \subseteq Range(s) \cup Range(t)
  <1> DEFINE u == s \o t
  <1>1. /\ Len(s) \in Nat /\ Len(t) \in Nat
        /\ u \in Seq(S) /\ Len(u) = Len(s) + Len(t)
        /\ \A i \in 1 .. Len(s) + Len(t) : u[i] = IF i =< Len(s) THEN s[i] ELSE t[i - Len(s)]
    BY ConcatProperties, LenProperties
  <1> HIDE DEF u
  <1>2. \A i \in 1 .. Len(u) : u[i] \in Range(s) \cup Range(t)
    <2>1. \A i \in 1 .. Len(u) : ~(i =< Len(s)) => i - Len(s) \in 1 .. Len(t)
      BY <1>1
    <2>2. \A i \in 1 .. Len(u) : i =< Len(s) => i \in 1 .. Len(s)
      BY <1>1
    <2> QED BY <1>1, <2>1, <2>2, SeqOver
  <1>3. Range(u) = {u[i] : i \in 1 .. Len(u)}
    BY <1>1, SeqOver
  <1>4. Range(u) \subseteq Range(s) \cup Range(t)
    BY <1>2, <1>3
  <1> QED BY <1>1, <1>4 DEF u

LEMMA TogetherStill ==
  ASSUME NEW x \in Seq(Byte), NEW y \in Seq(Byte), NEW a \in Seq(Byte), NEW b \in Seq(Byte),
         Together(x, y), Len(a) + Len(b) =< Len(x) + Len(y),
         Range(a) \cup Range(b) \subseteq Range(x) \cup Range(y)
  PROVE  Together(a, b)
  <1>1. Len(x) \in Nat /\ Len(y) \in Nat /\ Len(a) \in Nat /\ Len(b) \in Nat /\ MaxBytes \in Nat
    BY LenProperties, Constants
  <1>2. CASE Len(x) + Len(y) =< MaxBytes
    BY <1>1, <1>2 DEF Together
  <1>3. CASE \E r \in 1 .. RecordBound : Range(x) \cup Range(y) \subseteq {r}
    BY <1>3 DEF Together
  <1> QED BY <1>2, <1>3 DEF Together

LEMMA EmptyRange == Range(<< >>) = {} /\ << >> \in Seq(Byte) /\ Len(<< >>) = 0
  BY EmptySeq DEF Range

\* One more record for a file that has room for it, or nothing in it.
LEMMA TogetherMore ==
  ASSUME NEW x \in Seq(Byte), NEW y \in Seq(Byte), NEW z \in Seq(Byte), NEW r \in Byte,
         Together(x, y), Range(z) \subseteq {r},
         Len(x) + Len(y) = 0 \/ Len(x) + Len(y) + Len(z) =< MaxBytes
  PROVE  Together(x, y \o z)
  <1>1. Len(x) \in Nat /\ Len(y) \in Nat /\ Len(z) \in Nat
    BY LenProperties
  <1>2. Len(y \o z) = Len(y) + Len(z) /\ Range(y \o z) \subseteq Range(y) \cup Range(z)
    BY JoinedOver
  <1>3. CASE Len(x) + Len(y) = 0
    <2>1. x = << >> /\ y = << >>
      BY <1>1, <1>3, EmptySeq
    <2>2. Range(x) \cup Range(y \o z) \subseteq {r}
      BY <1>2, <2>1, EmptyRange
    <2> QED BY <2>2 DEF Together, Byte
  <1>4. CASE Len(x) + Len(y) + Len(z) =< MaxBytes
    BY <1>1, <1>2, <1>4, Constants DEF Together
  <1> QED BY <1>3, <1>4
----------------------------------------------------------------------------
(***************************************************************************)
(* Steps that write: what they keep of disk, files and records.            *)
(***************************************************************************)

\* The current file may have got longer, if it is open; nothing else is written.
Grown ==
  /\ data' \in Seq(Seq(Byte)) /\ Len(data') = Len(data)
  /\ \A i \in 1 .. Len(data) : i # Dir.current => data'[i] = data[i]
  /\ file # "open" => data' = data
  /\ file = "open" => Len(data'[Dir.current]) >= Len(data[Dir.current])

\* The first n of these bytes reach the file.
LEMMA Written ==
  ASSUME SinkInv, NEW all \in Seq(Byte), NEW n \in 0 .. Len(all), Reach(SubSeq(all, 1, n)),
         n > 0 => file = "open"
  PROVE  /\ Grown
         /\ n = 0 => data' = data
         /\ file = "open" =>
              /\ Len(data'[Dir.current]) = Len(data[Dir.current]) + n
              /\ Range(data'[Dir.current]) \subseteq Range(data[Dir.current]) \cup Range(all)
  <1> DEFINE bytes == SubSeq(all, 1, n)
  <1>1. /\ TypeOK
        /\ file = "open" => Dir.current \in 1 .. Len(data)
    BY DiskOver DEF SinkInv, InHand
  <1>2. /\ Len(data) \in Nat /\ DOMAIN data = 1 .. Len(data) /\ data \in Seq(Seq(Byte))
        /\ \A i \in 1 .. Len(data) : data[i] \in Seq(Byte) /\ Len(data[i]) \in Nat
    BY <1>1, DiskOver, AllTypes DEF DiskTypes
  <1>3. bytes \in Seq(Byte) /\ Len(bytes) = n /\ Range(bytes) \subseteq Range(all)
        /\ n \in Nat /\ (n = 0 => bytes = << >>)
    BY Parts, LenProperties
  <1>4. data' = IF bytes = << >> THEN data ELSE [data EXCEPT ![Dir.current] = @ \o bytes]
    BY DEF Reach
  <1> HIDE DEF bytes
  <1>5. CASE bytes = << >>
    <2>1. n = 0
      BY <1>3, <1>5, EmptyRange
    <2> QED BY <1>1, <1>2, <1>4, <1>5, <2>1 DEF Grown
  <1>6. CASE bytes # << >>
    <2>1. file = "open" /\ Dir.current \in 1 .. Len(data) /\ n # 0
      BY <1>1, <1>3, <1>6
    <2> DEFINE old == data[Dir.current]
               new == old \o bytes
    <2>2. /\ new \in Seq(Byte) /\ Len(new) = Len(old) + n /\ Len(old) \in Nat
          /\ Range(new) \subseteq Range(old) \cup Range(all)
      <3>1. old \in Seq(Byte) /\ Len(old) \in Nat
        BY <1>2, <2>1
      <3> HIDE DEF old
      <3>2. /\ new \in Seq(Byte) /\ Len(new) = Len(old) + Len(bytes)
            /\ Range(new) \subseteq Range(old) \cup Range(bytes)
        BY <1>3, <3>1, JoinedOver
      <3> QED BY <1>3, <3>1, <3>2
    <2>3. data' = [data EXCEPT ![Dir.current] = new]
      BY <1>4, <1>6
    <2> HIDE DEF new
    <2>4. /\ data' \in Seq(Seq(Byte)) /\ Len(data') = Len(data)
          /\ \A i \in 1 .. Len(data) : data'[i] = IF i = Dir.current THEN new ELSE data[i]
      BY <1>2, <2>1, <2>2, <2>3, ExceptSeq
    <2>5. data'[Dir.current] = new
      BY <2>1, <2>4
    <2>6. Grown
      <3>1. Len(data'[Dir.current]) >= Len(data[Dir.current])
        BY <1>3, <2>2, <2>5
      <3> QED BY <2>1, <2>4, <3>1 DEF Grown
    <2> QED BY <1>3, <2>1, <2>2, <2>5, <2>6
  <1> QED BY <1>5, <1>6

\* A directory that may come back has the same files.
LEMMA GrownDisk ==
  ASSUME SinkInv, Grown, UNCHANGED <<versions, synced>>, pc' = "open" => pc = "open"
  PROVE  DiskTypes' /\ Dirs' /\ DurableSegments' /\ Dir' = Dir
  <1>1. /\ DiskTypes /\ Dirs /\ DurableSegments /\ TypeOK
        /\ file = "open" => Dir.current \in 1 .. Len(data)
    BY AllTypes, DiskOver DEF SinkInv, InHand
  <1>2. Dir' = Dir
    BY DEF Dir
  <1>3. Dirs'
    BY <1>1 DEF Dirs
  <1>4. DOMAIN data = 1 .. Len(data) /\ DOMAIN data' = 1 .. Len(data)
    BY <1>1, SeqOver DEF Grown, DiskTypes
  <1>5. \A i \in 1 .. Len(data) : Len(data[i]) \in Nat /\ Len(data'[i]) \in Nat
    BY <1>1, <1>4, DiskOver, SeqOver DEF Grown
  <1>6. \A i \in 1 .. Len(data) : synced'[i] =< Len(data'[i])
    <2>1. \A i \in 1 .. Len(data) : synced[i] \in Nat /\ synced[i] =< Len(data[i])
      BY <1>1, DiskOver
    <2>2. \A i \in 1 .. Len(data) : Len(data'[i]) >= Len(data[i])
      <3>1. \A i \in 1 .. Len(data) : data'[i] = data[i] => Len(data'[i]) >= Len(data[i])
        BY <1>5
      <3>2. \A i \in 1 .. Len(data) : i # Dir.current => data'[i] = data[i]
        BY DEF Grown
      <3>3. \/ data' = data
            \/ Len(data'[Dir.current]) >= Len(data[Dir.current])
        BY DEF Grown
      <3> QED BY <3>1, <3>2, <3>3
    <2> QED BY <1>5, <2>1, <2>2
  <1>7. DiskTypes'
    BY <1>1, <1>4, <1>6 DEF DiskTypes, Grown
  <1>8. DurableSegments'
    <2>1. ASSUME NEW v \in DOMAIN versions, NEW s \in versions[v].rotated
          PROVE  synced[s.inode] = Len(data'[s.inode])
      <3>1. v \in 1 .. Len(versions) /\ versions[v] \in Directory(Len(data))
        BY <1>1, DiskOver
      <3>2. s.inode \in 1 .. Len(data) /\ s.inode # Dir.current
        BY <1>1, <3>1, DiskOver DEF Directory, Segment, Dirs
      <3> QED BY <1>1, <3>2 DEF DurableSegments, Grown
    <2>2. pc' = "open" => Len(versions) = 1
      BY <1>1 DEF DurableSegments
    <2> QED BY <2>1, <2>2 DEF DurableSegments
  <1> QED BY <1>2, <1>3, <1>7, <1>8

\* A record stays in one file: what is written was buffered for this file, or is new.
LEMMA RecordsApart ==
  ASSUME SinkInv, Grown, UNCHANGED versions, file' = "open" => file = "open",
         records' \in Nat, records' >= records, NEW new, new \subseteq records + 1 .. records',
         file = "open" =>
           Range(data'[Dir.current]) \subseteq Range(data[Dir.current]) \cup Range(w) \cup new,
         Range(w') \subseteq Range(w) \cup new
  PROVE  NotSplit'
  <1> DEFINE cur == Dir.current
  <1>1. /\ TypeOK /\ NotSplit /\ Len(data) \in Nat /\ Len(data') = Len(data) /\ records \in Nat
        /\ Dir' = Dir
    BY DiskOver, AllTypes DEF SinkInv, Grown, Dir, BufferTypes
  <1>2. \A i \in 1 .. Len(data) : i # cur \/ file # "open" => data'[i] = data[i]
    BY DEF Grown
  <1>3. /\ \A i \in 1 .. Len(data) : Range(data[i]) \subseteq 1 .. records
        /\ Range(w) \subseteq 1 .. records
        /\ \A i, j \in 1 .. Len(data) : i # j => Range(data[i]) \cap Range(data[j]) = {}
    BY <1>1 DEF NotSplit
  <1>4. /\ \A i \in 1 .. Len(data) : Range(data[i]) \cap new = {}
        /\ \A r \in 1 .. records : r \in 1 .. records'
        /\ new \subseteq 1 .. records'
    <2>1. \A r \in 1 .. records : r \notin new
      BY <1>1
    <2> QED BY <1>1, <1>3, <2>1
  <1> HIDE DEF cur
  <1>5. /\ \A i \in 1 .. Len(data) : Range(data'[i]) \subseteq 1 .. records'
        /\ Range(w') \subseteq 1 .. records'
    BY <1>1, <1>2, <1>3, <1>4 DEF cur
  <1>6. ASSUME NEW i \in 1 .. Len(data), i # cur, file = "open"
        PROVE  Range(data[i]) \cap (Range(data'[cur]) \cup Range(w')) = {}
    <2>1. Range(data[i]) \cap Range(w) = {}
      BY <1>1, <1>6 DEF NotSplit, cur
    <2>2. cur \in 1 .. Len(data)
      BY <1>1, <1>6, DiskOver DEF cur, SinkInv, InHand
    <2>3. Range(data[i]) \cap Range(data[cur]) = {}
      BY <1>3, <1>6, <2>2
    <2> QED BY <1>4, <1>6, <2>1, <2>3 DEF cur
  <1>7. \A i, j \in 1 .. Len(data) : i # j => Range(data'[i]) \cap Range(data'[j]) = {}
    <2>1. CASE file # "open"
      BY <1>2, <1>3, <2>1
    <2>2. CASE file = "open"
      BY <1>2, <1>3, <1>6, <2>2
    <2> QED BY <2>1, <2>2
  <1>8. file' = "open" => \A i \in 1 .. Len(data) : i # cur => Range(data'[i]) \cap Range(w') = {}
    BY <1>2, <1>6
  <1> QED BY <1>1, <1>5, <1>7, <1>8 DEF NotSplit, cur

\* Files stay short: what is written was to be in this file, or is one record.
LEMMA FilesShort ==
  ASSUME SinkInv, Grown, UNCHANGED versions, w' \in Seq(Byte), file' = "open" => file = "open",
         file = "open" => /\ Together(data'[Dir.current], << >>)
                          /\ file' = "open" => Together(data'[Dir.current], w'),
         file' = "open" /\ writer' = "good" => size' = Len(data'[Dir.current]) + Len(w')
  PROVE  NotTooLong'
  <1>1. Len(data') = Len(data) /\ Dir' = Dir /\ NotTooLong
    BY DEF SinkInv, Grown, Dir
  <1>2. \A i \in 1 .. Len(data) : Together(data'[i], << >>)
    <2>1. \A i \in 1 .. Len(data) : i # Dir.current \/ file # "open" => data'[i] = data[i]
      BY DEF Grown
    <2> QED BY <1>1, <2>1 DEF NotTooLong
  <1> QED BY <1>1, <1>2 DEF NotTooLong, Together

\* The first n of these bytes reach the file, the rest or less of it is in the buffer.
LEMMA BytesKept ==
  ASSUME SinkInv, NEW all \in Seq(Byte), NEW n \in 0 .. Len(all), Reach(SubSeq(all, 1, n)),
         n > 0 => file = "open",
         UNCHANGED versions, file' = "open" => file = "open",
         file = "open" => Together(data[Dir.current], all),
         records' \in Nat, records' >= records, NEW new, new \subseteq records + 1 .. records',
         Range(all) \subseteq Range(w) \cup new,
         w' \in Seq(Byte), Len(w') =< Len(all) - n, Range(w') \subseteq Range(all),
         file' = "open" /\ writer' = "good" => size' = Len(data[Dir.current]) + n + Len(w')
  PROVE  Grown /\ NotTooLong' /\ NotSplit' /\ (n = 0 => data' = data)
  <1> DEFINE cur == Dir.current
  <1>1. /\ Grown
        /\ n = 0 => data' = data
        /\ file = "open" =>
             /\ Len(data'[cur]) = Len(data[cur]) + n
             /\ Range(data'[cur]) \subseteq Range(data[cur]) \cup Range(all)
    BY Written
  <1>2. NotSplit'
    <2>1. file = "open" => Range(data'[cur]) \subseteq Range(data[cur]) \cup Range(w) \cup new
      BY <1>1
    <2>2. Range(w') \subseteq Range(w) \cup new
      OBVIOUS
    <2> HIDE DEF cur
    <2> QED BY <1>1, <2>1, <2>2, RecordsApart DEF cur
  <1>3. ASSUME file = "open"
        PROVE  Together(data'[cur], << >>) /\ Together(data'[cur], w')
    <2>1. cur \in 1 .. Len(data) /\ TypeOK
      BY <1>3, DiskOver DEF SinkInv, InHand
    <2>2. data[cur] \in Seq(Byte) /\ data'[cur] \in Seq(Byte)
      <3>1. cur \in 1 .. Len(data') /\ data' \in Seq(Seq(Byte))
        BY <1>1, <2>1 DEF Grown
      <3> QED BY <2>1, <3>1, DiskOver, SeqOver
    <2>3. Len(data[cur]) \in Nat /\ Len(data'[cur]) \in Nat /\ Len(w') \in Nat /\ Len(all) \in Nat
          /\ n \in Nat
      BY <2>2, LenProperties
    <2> HIDE DEF cur
    <2>4. /\ Len(data'[cur]) + Len(w') =< Len(data[cur]) + Len(all)
          /\ Len(data'[cur]) + 0 =< Len(data[cur]) + Len(all)
      BY <1>1, <1>3, <2>3
    <2>5. /\ Range(data'[cur]) \cup Range(w') \subseteq Range(data[cur]) \cup Range(all)
          /\ Range(data'[cur]) \cup {} \subseteq Range(data[cur]) \cup Range(all)
      BY <1>1, <1>3
    <2>6. Together(data[cur], all)
      BY <1>3 DEF cur
    <2>7. Together(data'[cur], w')
      BY <2>2, <2>4, <2>5, <2>6, TogetherStill
    <2>8. Together(data'[cur], << >>)
      BY <2>2, <2>4, <2>5, <2>6, TogetherStill, EmptyRange
    <2> QED BY <2>7, <2>8
  <1>4. NotTooLong'
    <2>1. file' = "open" /\ writer' = "good" => size' = Len(data'[cur]) + Len(w')
      BY <1>1
    <2> QED BY <1>1, <1>3, <2>1, FilesShort
  <1> QED BY <1>1, <1>2, <1>4

LEMMA WriteKeeps ==
  ASSUME SinkInv, NEW all \in Seq(Byte), NEW n \in 0 .. Len(all), Reach(SubSeq(all, 1, n)),
         n > 0 => file = "open",
         UNCHANGED <<versions, synced, file>>, pc' = "open" => pc = "open",
         file = "open" => Together(data[Dir.current], all),
         records' \in Nat, records' >= records, NEW new, new \subseteq records + 1 .. records',
         Range(all) \subseteq Range(w) \cup new,
         w' \in Seq(Byte), Len(w') =< Len(all) - n, Range(w') \subseteq Range(all),
         file = "open" /\ writer' = "good" => size' = Len(data[Dir.current]) + n + Len(w')
  PROVE  /\ DiskTypes' /\ Dirs' /\ DurableSegments' /\ NotTooLong' /\ NotSplit' /\ Dir' = Dir
         /\ n = 0 => data' = data
  <1>1. Grown /\ NotTooLong' /\ NotSplit' /\ (n = 0 => data' = data)
    BY BytesKept
  <1> QED BY <1>1, GrownDisk

\* A process between two calls holds nothing but its file and buffer.
LEMMA IdleHands ==
  ASSUME pc' \in {"idle", "panicked"}, writer' = "none" <=> file' = "none",
         writer' # "good" => w' = << >>, file' = "open" => Dir'.current # 0
  PROVE  InHand'
  BY DEF InHand, Rotating

LEMMA PutKeeps ==
  ASSUME SinkInv, NEW n \in Sizes, Put(n), pc \in {"idle", "put"}, writers > 0,
         records < RecordBound, writer # "none",
         file = "open" /\ writer = "good" => size = 0 \/ size + n =< MaxBytes
  PROVE  SinkInv'
  <1> DEFINE bytes == [i \in 1 .. n |-> records + 1]
             all   == w \o bytes
             out   == Spilled(bytes)
             cur   == Dir.current
             new   == {records + 1}
  <1>1. /\ TypeOK /\ DiskTypes /\ BufferTypes /\ ControlTypes /\ InHand /\ NotTooLong
        /\ w \in Seq(Byte) /\ Len(w) \in Nat
    BY AllTypes, DiskOver DEF SinkInv
  <1>2. /\ n \in Nat /\ n >= 1 /\ BufferSize \in Nat /\ records \in Nat /\ records + 1 \in Byte
        /\ size \in Nat
    BY <1>1, Constants DEF BufferTypes, Byte
  <1>3. /\ bytes \in Seq(Byte) /\ Len(bytes) = n /\ Range(bytes) \subseteq new
    <2>1. bytes \in [1 .. n -> Byte]
      BY <1>2
    <2>2. bytes \in Seq(Byte) /\ Len(bytes) = n
      BY <1>2, <2>1, IsASeq
    <2> QED BY <2>1, <2>2 DEF Range
  <1>4. /\ records' = records + 1 /\ pc' = "idle" /\ pending' = 0
        /\ UNCHANGED <<synced, versions, time, runs, file, steady>>
    BY DEF Put
  <1>5. \/ /\ writer = "good"
           /\ IF out = 0 THEN w' = all /\ UNCHANGED <<data, writer>> ELSE WriteOut(all, out)
           /\ size' = size + n /\ UNCHANGED <<writers, failed>>
        \/ /\ writer = "good" /\ out > 0 /\ WriteOutFails(all, out)
           /\ \E taken \in 0 .. n : size' = size + taken
           /\ WriterFails
        \/ /\ writer = "broken"
           /\ WriterFails
           /\ UNCHANGED <<data, writer, w, size>>
    BY DEF Put
  <1> HIDE DEF bytes
  <1>6. /\ all \in Seq(Byte) /\ Len(all) = Len(w) + n /\ Range(all) \subseteq Range(w) \cup new
    BY <1>1, <1>3, JoinedOver
  <1>7. out \in 0 .. Len(all) /\ Len(all) - out =< BufferSize
    <2>1. out = IF Len(all) - BufferSize =< 0 THEN 0
                ELSE IF w = << >> \/ Len(all) - BufferSize > BufferSize THEN Len(all)
                ELSE BufferSize
      BY DEF Spilled
    <2> HIDE DEF all, out
    <2> QED BY <1>1, <1>2, <1>6, <2>1
  <1>8. file = "open" /\ writer = "good" => Together(data[cur], all)
    <2> SUFFICES ASSUME file = "open", writer = "good"
                 PROVE  Together(data[cur], all)
      OBVIOUS
    <2>1. cur \in 1 .. Len(data)
      BY <1>1, DiskOver DEF InHand
    <2>2. data[cur] \in Seq(Byte) /\ Len(data[cur]) \in Nat
      BY <1>1, <2>1, DiskOver
    <2>3. Together(data[cur], w) /\ size = Len(data[cur]) + Len(w)
      BY <1>1 DEF NotTooLong
    <2>4. Len(data[cur]) + Len(w) = 0 \/ Len(data[cur]) + Len(w) + Len(bytes) =< MaxBytes
      BY <1>3, <2>3
    <2> HIDE DEF cur
    <2> QED BY <1>1, <1>2, <1>3, <2>2, <2>3, <2>4, TogetherMore
  <1> HIDE DEF all, out
  <1>9. /\ records' \in Nat /\ records' >= records /\ new \subseteq records + 1 .. records'
        /\ records' \in 0 .. RecordBound
    BY <1>2, <1>4 DEF Byte
  <1> HIDE DEF new
  <1>a. CASE /\ writer = "good" /\ size' = size + n /\ UNCHANGED <<writers, failed>>
             /\ IF out = 0 THEN w' = all /\ UNCHANGED <<data, writer>> ELSE WriteOut(all, out)
    <2>1. /\ Reach(SubSeq(all, 1, out)) /\ (out > 0 => file = "open") /\ writer' = writer
          /\ w' \in Seq(Byte) /\ Len(w') = Len(all) - out /\ Range(w') \subseteq Range(all)
      <3>1. CASE out = 0
        <4>1. SubSeq(all, 1, out) = << >>
          BY <1>6, <1>7, <3>1, Parts
        <4> QED BY <1>1, <1>2, <1>6, <1>a, <3>1, <4>1 DEF Reach
      <3>2. CASE out # 0
        <4>1. /\ file = "open" /\ Reach(SubSeq(all, 1, out)) /\ writer' = writer
              /\ w' = SubSeq(all, out + 1, Len(all))
          BY <1>a, <3>2 DEF WriteOut
        <4> QED BY <1>6, <1>7, <4>1, Parts
      <3> QED BY <3>1, <3>2
    <2>2. file = "open" /\ writer' = "good" => size' = Len(data[cur]) + out + Len(w')
      <3> SUFFICES ASSUME file = "open" PROVE size' = Len(data[cur]) + out + Len(w')
        OBVIOUS
      <3>1. size = Len(data[cur]) + Len(w) /\ cur \in 1 .. Len(data)
        BY <1>1, <1>a, DiskOver DEF NotTooLong, InHand
      <3>2. Len(data[cur]) \in Nat
        BY <1>1, <3>1, DiskOver
      <3>3. size' = size + n
        BY <1>a
      <3> HIDE DEF cur
      <3>4. /\ Len(all) = Len(w) + n /\ Len(w) \in Nat /\ n \in Nat /\ out \in Int
            /\ Len(w') = Len(all) - out
        BY <1>1, <1>2, <1>6, <1>7, <2>1
      <3>5. ASSUME NEW x \in Nat, NEW y \in Nat, NEW z \in Int, NEW m \in Nat
            PROVE  x + y + m = x + z + ((y + m) - z)
        OBVIOUS
      <3>6. size' = Len(data[cur]) + Len(w) + n
        BY <3>1, <3>3
      <3>7. Len(w') = (Len(w) + n) - out
        BY <3>4
      <3>8. Len(data[cur]) + Len(w) + n = Len(data[cur]) + out + ((Len(w) + n) - out)
        BY ONLY <3>2, <3>4, <3>5
      <3>9. size' = Len(data[cur]) + out + ((Len(w) + n) - out)
        BY ONLY <3>6, <3>8
      <3> QED BY ONLY <3>7, <3>9
    <2>3. DiskTypes' /\ Dirs' /\ DurableSegments' /\ NotTooLong' /\ NotSplit' /\ Dir' = Dir
      <3>1. file = "open" => Together(data[cur], all)
        BY <1>8, <1>a
      <3>2. Len(w') =< Len(all) - out
        BY <1>1, <1>2, <1>6, <1>7, <2>1
      <3> QED BY <1>4, <1>6, <1>7, <1>9, <2>1, <2>2, <3>1, <3>2, WriteKeeps
    <2>4. BufferTypes'
      BY <1>2, <1>7, <1>9, <1>a, <2>1 DEF BufferTypes
    <2>5. ControlTypes'
      BY <1>1, <1>4, <1>a, <2>1 DEF ControlTypes
    <2>6. InHand'
      BY <1>1, <1>4, <1>a, <2>1, <2>3, IdleHands DEF InHand
    <2> QED BY <2>3, <2>4, <2>5, <2>6, AllTyped DEF SinkInv
  <1>b. CASE /\ writer = "good" /\ out > 0 /\ WriteOutFails(all, out)
             /\ \E taken \in 0 .. n : size' = size + taken
             /\ WriterFails
    <2>1. PICK part \in 0 .. out - 1 : (part > 0 => file = "open") /\ Reach(SubSeq(all, 1, part))
      BY <1>b DEF WriteOutFails
    <2>2. /\ part \in 0 .. Len(all) /\ part =< Len(all)
          /\ writer' = "broken" /\ w' = << >>
          /\ w' \in Seq(Byte) /\ Len(w') = 0 /\ Range(w') = {}
      BY <1>1, <1>2, <1>6, <1>7, <1>b, EmptyRange DEF WriteOutFails
    <2>3. DiskTypes' /\ Dirs' /\ DurableSegments' /\ NotTooLong' /\ NotSplit' /\ Dir' = Dir
      <3>1. file = "open" => Together(data[cur], all)
        BY <1>8, <1>b
      <3>2. Len(w') =< Len(all) - part /\ Range(w') \subseteq Range(all)
        BY <1>1, <1>2, <1>6, <2>2
      <3>3. writer' # "good"
        BY <2>2
      <3> QED BY <1>4, <1>6, <1>9, <2>1, <2>2, <3>1, <3>2, <3>3, WriteKeeps
    <2>4. BufferTypes'
      <3>1. size' \in Nat
        BY <1>2, <1>b
      <3> QED BY <1>2, <1>9, <2>2, <3>1 DEF BufferTypes
    <2>5. ControlTypes'
      BY <1>1, <1>4, <1>b, <2>2, Constants DEF ControlTypes, WriterFails
    <2>6. InHand'
      BY <1>1, <1>4, <1>b, <2>2, <2>3, IdleHands DEF InHand
    <2> QED BY <2>3, <2>4, <2>5, <2>6, AllTyped DEF SinkInv
  <1>c. CASE writer = "broken" /\ WriterFails /\ UNCHANGED <<data, writer, w, size>>
    <2>1. PICK part \in 0 .. Len(w) : part = 0 /\ Reach(SubSeq(w, 1, part))
      <3>1. SubSeq(w, 1, 0) = << >> /\ 0 \in 0 .. Len(w)
        BY <1>1, Parts
      <3> QED BY <1>c, <3>1 DEF Reach
    <2>2. DiskTypes' /\ Dirs' /\ DurableSegments' /\ NotTooLong' /\ NotSplit' /\ Dir' = Dir
      <3>1. file = "open" => Together(data[cur], w)
        BY <1>1 DEF NotTooLong
      <3>2. Range(w) \subseteq Range(w) \cup new /\ Len(w') =< Len(w) - part
        BY <1>1, <1>c, <2>1
      <3>3. ~(part > 0) /\ w' = w /\ writer' # "good"
        BY <1>c, <2>1
      <3> QED BY <1>1, <1>4, <1>9, <2>1, <3>1, <3>2, <3>3, WriteKeeps
    <2>3. BufferTypes' /\ ControlTypes'
      BY <1>1, <1>4, <1>9, <1>c, Constants DEF BufferTypes, ControlTypes, WriterFails
    <2>4. InHand'
      BY <1>1, <1>4, <1>c, <2>2, IdleHands DEF InHand
    <2> QED BY <2>2, <2>3, <2>4, AllTyped DEF SinkInv
  <1> QED BY <1>5, <1>a, <1>b, <1>c

\* A step that writes nothing.
LEMMA QuietKeeps ==
  ASSUME SinkInv, UNCHANGED <<disk, records>>, w' \in {w, << >>}, pc' = "open" => pc = "open",
         file' = "open" => file = "open",
         file' = "open" /\ writer' = "good" => writer = "good" /\ w' = w /\ size' = size
  PROVE  DiskTypes' /\ Dirs' /\ DurableSegments' /\ NotTooLong' /\ NotSplit' /\ Dir' = Dir
  <1>1. /\ TypeOK /\ DiskTypes /\ Dirs /\ DurableSegments /\ NotTooLong /\ NotSplit
        /\ UNCHANGED <<data, synced, versions, records>>
        /\ file = "open" => Dir.current \in 1 .. Len(data)
    BY AllTypes, DiskOver DEF SinkInv, disk, InHand
  <1>2. DiskTypes' /\ Dirs' /\ DurableSegments' /\ Dir' = Dir
    BY <1>1 DEF DiskTypes, Dirs, DurableSegments, Dir
  <1>3. NotTooLong'
    <2>1. Together(data[Dir.current], w') \/ file # "open"
      BY <1>1 DEF NotTooLong
    <2> QED BY <1>1, <1>2, <2>1 DEF NotTooLong, Together
  <1>4. NotSplit'
    <2>1. Range(w') \subseteq Range(w)
      BY EmptyRange
    <2> QED BY <1>1, <1>2, <2>1 DEF NotSplit
  <1> QED BY <1>2, <1>3, <1>4

\* The buffer is written out, or some of it is and the rest is lost.
LEMMA BufferOut ==
  ASSUME SinkInv, WriteOut(w, Len(w)) \/ WriteOutFails(w, Len(w)),
         UNCHANGED <<versions, synced, file, records, size>>, pc' = "open" => pc = "open"
  PROVE  /\ DiskTypes' /\ Dirs' /\ DurableSegments' /\ NotTooLong' /\ NotSplit' /\ Dir' = Dir
         /\ w' = << >> /\ writer' \in {writer, "broken"} /\ BufferTypes'
  <1>1. /\ TypeOK /\ BufferTypes /\ NotTooLong /\ w \in Seq(Byte) /\ Len(w) \in Nat
        /\ records \in Nat
    BY AllTypes, DiskOver DEF SinkInv, BufferTypes
  <1>2. PICK n \in 0 .. Len(w) :
          /\ Reach(SubSeq(w, 1, n)) /\ (n > 0 => file = "open")
          /\ n = Len(w) \/ writer' # "good"
    <2>1. CASE WriteOut(w, Len(w))
      BY <1>1, <2>1 DEF WriteOut
    <2>2. CASE WriteOutFails(w, Len(w))
      BY <1>1, <2>2 DEF WriteOutFails
    <2> QED BY <2>1, <2>2
  <1>3. w' = << >> /\ writer' \in {writer, "broken"}
    <2>1. CASE WriteOut(w, Len(w))
      <3>1. w' = SubSeq(w, Len(w) + 1, Len(w)) /\ writer' = writer
        BY <2>1 DEF WriteOut
      <3>2. w' \in Seq(Byte) /\ Len(w') = Len(w) - Len(w) /\ Len(w) \in 0 .. Len(w)
        BY <1>1, <3>1, Parts
      <3> QED BY <1>1, <3>1, <3>2, EmptySeq
    <2>2. CASE WriteOutFails(w, Len(w))
      BY <2>2 DEF WriteOutFails
    <2> QED BY <2>1, <2>2
  <1>4. /\ w' \in Seq(Byte) /\ Len(w') = 0 /\ Range(w') = {}
    BY <1>3, EmptyRange
  <1>5. file = "open" /\ writer' = "good" => size' = Len(data[Dir.current]) + n + Len(w')
    <2> SUFFICES ASSUME file = "open", writer' = "good"
                 PROVE  size' = Len(data[Dir.current]) + n + Len(w')
      OBVIOUS
    <2>1. writer = "good" /\ n = Len(w) /\ size' = size
      BY <1>2, <1>3
    <2>2. size = Len(data[Dir.current]) + Len(w) /\ Dir.current \in 1 .. Len(data)
      BY <1>1, <2>1, DiskOver DEF NotTooLong, SinkInv, InHand
    <2>3. Len(data[Dir.current]) \in Nat
      BY <1>1, <2>2, DiskOver
    <2> QED BY <1>1, <1>4, <2>1, <2>2, <2>3
  <1>6. file = "open" => Together(data[Dir.current], w)
    BY <1>1 DEF NotTooLong
  <1>7. DiskTypes' /\ Dirs' /\ DurableSegments' /\ NotTooLong' /\ NotSplit' /\ Dir' = Dir
    <2> DEFINE new == {}
    <2>1. new \subseteq records + 1 .. records' /\ Range(w) \subseteq Range(w) \cup new
      OBVIOUS
    <2>2. records' \in Nat /\ records' >= records /\ Len(w') =< Len(w) - n
          /\ Range(w') \subseteq Range(w)
      BY <1>1, <1>2, <1>4
    <2> HIDE DEF new
    <2> QED BY <1>1, <1>2, <1>4, <1>5, <1>6, <2>1, <2>2, WriteKeeps
  <1>8. BufferTypes'
    BY <1>1, <1>4, Constants DEF BufferTypes
  <1> QED BY <1>3, <1>7, <1>8
----------------------------------------------------------------------------
(***************************************************************************)
(* The steps that leave the directory alone.                               *)
(***************************************************************************)
LEMMA WriteRecordKeeps ==
  ASSUME SinkInv, NEW n \in Sizes, WriteRecord(n)
  PROVE  SinkInv'
  <1>1. /\ TypeOK /\ BufferTypes /\ ControlTypes /\ InHand /\ n \in Nat /\ size \in Nat
    BY AllTypes, Constants DEF SinkInv, BufferTypes
  <1>2. pc = "idle" /\ writers > 0 /\ records < RecordBound
    BY DEF WriteRecord
  <1>3. CASE /\ writer = "none" /\ pc' = "panicked"
             /\ UNCHANGED <<disk, time, runs, sinkVars, pending, writers, failed, history>>
    <2>1. UNCHANGED <<disk, records, w, writer, file, size, steady, stream>>
      BY <1>3 DEF sinkVars, history
    <2>2. DiskTypes' /\ Dirs' /\ DurableSegments' /\ NotTooLong' /\ NotSplit' /\ Dir' = Dir
      BY <1>3, <2>1, QuietKeeps
    <2>3. InHand'
      BY <1>1, <1>3, <2>1, <2>2, IdleHands DEF InHand
    <2>4. BufferTypes' /\ ControlTypes'
      BY <1>1, <1>3, <2>1 DEF BufferTypes, ControlTypes
    <2> QED BY <2>2, <2>3, <2>4, AllTyped DEF SinkInv
  <1>4. CASE /\ writer # "none" /\ pc' = "flush" /\ pending' = n
             /\ UNCHANGED <<disk, time, runs, sinkVars, writers, failed, history>>
    <2>1. UNCHANGED <<disk, records, w, writer, file, size, steady, stream, data, synced, versions>>
      BY <1>4 DEF sinkVars, history, disk
    <2>2. DiskTypes' /\ Dirs' /\ DurableSegments' /\ NotTooLong' /\ NotSplit' /\ Dir' = Dir
      BY <1>4, <2>1, QuietKeeps
    <2>3. InHand'
      BY <1>1, <1>2, <1>4, <2>1, <2>2 DEF InHand, Rotating
    <2>4. BufferTypes' /\ ControlTypes'
      BY <1>1, <1>4, <2>1 DEF BufferTypes, ControlTypes
    <2> QED BY <2>2, <2>3, <2>4, AllTyped DEF SinkInv
  <1>5. CASE writer # "none" /\ ~(size > 0 /\ size + n > MaxBytes) /\ Put(n)
    <2>1. size = 0 \/ size + n =< MaxBytes
      BY <1>1, <1>5, Constants
    <2> QED BY <1>2, <1>5, <2>1, PutKeeps
  <1> QED BY <1>3, <1>4, <1>5 DEF WriteRecord

LEMMA FlushKeeps == ASSUME SinkInv, Flush PROVE SinkInv'
  <1>1. /\ TypeOK /\ BufferTypes /\ ControlTypes /\ InHand
    BY AllTypes DEF SinkInv
  <1>2. /\ pc = "idle" /\ writers > 0
        /\ UNCHANGED <<synced, versions, time, runs, pc, file, size, pending, records, steady>>
    BY DEF Flush
  <1>3. CASE /\ w # << >> /\ (WriteOut(w, Len(w)) \/ WriteOutFails(w, Len(w)))
             /\ UNCHANGED <<writers, failed>> \/ WriterFails
    <2>1. /\ DiskTypes' /\ Dirs' /\ DurableSegments' /\ NotTooLong' /\ NotSplit' /\ Dir' = Dir
          /\ w' = << >> /\ writer' \in {writer, "broken"} /\ BufferTypes'
      BY <1>2, <1>3, BufferOut
    <2>2. writer # "none"
      BY <1>1, <1>3 DEF InHand
    <2>3. InHand'
      BY <1>1, <1>2, <2>1, <2>2, IdleHands DEF InHand
    <2>4. writers' \in 0 .. Writers /\ failed' \in BOOLEAN
      <3>1. CASE UNCHANGED <<writers, failed>>
        BY <1>1, <3>1 DEF ControlTypes
      <3>2. CASE WriterFails
        BY <1>1, <1>2, <3>2, Constants DEF ControlTypes, WriterFails
      <3> QED BY <1>3, <3>1, <3>2
    <2>5. ControlTypes'
      BY <1>1, <1>2, <2>1, <2>4 DEF ControlTypes
    <2> QED BY <2>1, <2>3, <2>5, AllTyped DEF SinkInv
  <1>4. CASE writer = "broken" /\ WriterFails /\ UNCHANGED <<data, writer, w, stream>>
    <2>1. UNCHANGED <<disk, records, w, writer, file, size>>
      BY <1>2, <1>4 DEF disk
    <2>2. DiskTypes' /\ Dirs' /\ DurableSegments' /\ NotTooLong' /\ NotSplit' /\ Dir' = Dir
      BY <1>2, <2>1, QuietKeeps
    <2>3. InHand'
      BY <1>1, <1>2, <2>1, <2>2, IdleHands DEF InHand
    <2>4. BufferTypes' /\ ControlTypes'
      BY <1>1, <1>2, <1>4, <2>1, Constants DEF BufferTypes, ControlTypes, WriterFails
    <2> QED BY <2>2, <2>3, <2>4, AllTyped DEF SinkInv
  <1> QED BY <1>3, <1>4 DEF Flush

LEMMA RotateFlushKeeps == ASSUME SinkInv, RotateFlush PROVE SinkInv'
  <1>1. /\ TypeOK /\ BufferTypes /\ ControlTypes /\ InHand
    BY AllTypes DEF SinkInv
  <1>2. /\ pc = "flush" /\ writer = "good" /\ pc' = "sync"
        /\ UNCHANGED <<synced, versions, time, runs, file, size, pending, writers, failed>>
        /\ UNCHANGED <<records, stream, steady>>
    BY DEF RotateFlush, history
  <1>3. /\ DiskTypes' /\ Dirs' /\ DurableSegments' /\ NotTooLong' /\ NotSplit' /\ Dir' = Dir
        /\ w' = << >> /\ writer' = "good" /\ BufferTypes'
    <2>1. CASE w = << >> /\ UNCHANGED <<data, w, writer>>
      <3>1. UNCHANGED <<disk, records>>
        BY <1>2, <2>1 DEF disk
      <3>2. DiskTypes' /\ Dirs' /\ DurableSegments' /\ NotTooLong' /\ NotSplit' /\ Dir' = Dir
        BY <1>2, <2>1, <3>1, QuietKeeps
      <3> QED BY <1>1, <1>2, <2>1, <3>2 DEF BufferTypes
    <2>2. CASE WriteOut(w, Len(w))
      <3>1. writer' = writer
        BY <2>2 DEF WriteOut
      <3> QED BY <1>2, <2>2, <3>1, BufferOut
    <2> QED BY <2>1, <2>2 DEF RotateFlush
  <1>4. InHand'
    BY <1>1, <1>2, <1>3 DEF InHand, Rotating
  <1>5. ControlTypes'
    BY <1>1, <1>2, <1>3 DEF ControlTypes
  <1> QED BY <1>3, <1>4, <1>5, AllTyped DEF SinkInv

LEMMA RotateCloseKeeps == ASSUME SinkInv, RotateClose PROVE SinkInv'
  <1>1. /\ TypeOK /\ BufferTypes /\ ControlTypes /\ InHand
    BY AllTypes DEF SinkInv
  <1>2. /\ pc = "close" /\ file' = "none" /\ writer' = "none" /\ pc' = "rename"
        /\ UNCHANGED <<disk, data, synced, versions, time, runs, w, size, pending, writers, failed>>
        /\ UNCHANGED <<records, stream, steady>>
    BY DEF RotateClose, history, disk
  <1>3. DiskTypes' /\ Dirs' /\ DurableSegments' /\ NotTooLong' /\ NotSplit' /\ Dir' = Dir
    BY <1>2, QuietKeeps
  <1>4. InHand'
    BY <1>1, <1>2, <1>3 DEF InHand, Rotating
  <1>5. BufferTypes' /\ ControlTypes'
    BY <1>1, <1>2 DEF BufferTypes, ControlTypes
  <1> QED BY <1>3, <1>4, <1>5, AllTyped DEF SinkInv

LEMMA RotateFailsKeeps == ASSUME SinkInv, RotateFails PROVE SinkInv'
  <1>1. /\ TypeOK /\ BufferTypes /\ ControlTypes /\ InHand
    BY AllTypes DEF SinkInv
  <1>2. /\ pc \in Rotating /\ pc' = "idle" /\ pending' = 0 /\ WriterFails
        /\ UNCHANGED <<synced, versions, time, runs, size, records, steady>>
    BY DEF RotateFails, Rotating
  <1>3. /\ DiskTypes' /\ Dirs' /\ DurableSegments' /\ NotTooLong' /\ NotSplit' /\ Dir' = Dir
        /\ w' \in {w, << >>} /\ writer' \in {writer, "broken"} /\ BufferTypes'
        /\ (file' = file \/ (pc = "close" /\ file' = "closed"))
        /\ writer' # writer => w' = << >> /\ pc = "flush"
    <2>1. CASE pc = "flush" /\ w # << >> /\ WriteOutFails(w, Len(w)) /\ UNCHANGED file
      BY <1>2, <2>1, BufferOut
    <2>2. CASE /\ file' = file \/ (pc = "close" /\ file' = "closed")
               /\ UNCHANGED <<data, writer, w, stream>>
      <3>1. UNCHANGED <<disk, records>>
        BY <1>2, <2>2 DEF disk
      <3>2. DiskTypes' /\ Dirs' /\ DurableSegments' /\ NotTooLong' /\ NotSplit' /\ Dir' = Dir
        BY <1>2, <2>2, <3>1, QuietKeeps
      <3> QED BY <1>1, <1>2, <2>2, <3>2 DEF BufferTypes
    <2> QED BY <2>1, <2>2 DEF RotateFails
  <1>4. InHand'
    <2>1. writer' = "none" <=> file' = "none"
      BY <1>1, <1>3 DEF InHand
    <2>2. (writer' # "good" => w' = << >>) /\ (file' = "open" => Dir'.current # 0)
      BY <1>1, <1>3 DEF InHand
    <2> QED BY <1>2, <2>1, <2>2, IdleHands
  <1>5. ControlTypes'
    <2>1. writers > 0
      BY <1>1, <1>2 DEF InHand
    <2> QED BY <1>1, <1>2, <1>3, <2>1, Constants DEF ControlTypes, WriterFails
  <1> QED BY <1>3, <1>4, <1>5, AllTyped DEF SinkInv

LEMMA WriterEndsKeeps == ASSUME SinkInv, WriterEnds PROVE SinkInv'
  <1>1. /\ TypeOK /\ BufferTypes /\ ControlTypes /\ InHand
    BY AllTypes DEF SinkInv
  <1>2. /\ pc = "idle" /\ pc' = "idle" /\ writers > 0 /\ writers' = writers - 1
        /\ UNCHANGED <<disk, time, runs, file, writer, w, size, pending, failed>>
        /\ UNCHANGED <<records, stream, steady>>
    BY DEF WriterEnds, sinkVars, history
  <1>3. DiskTypes' /\ Dirs' /\ DurableSegments' /\ NotTooLong' /\ NotSplit' /\ Dir' = Dir
    BY <1>2, QuietKeeps
  <1>4. InHand'
    BY <1>1, <1>2, <1>3, IdleHands DEF InHand
  <1>5. BufferTypes' /\ ControlTypes'
    BY <1>1, <1>2, Constants DEF BufferTypes, ControlTypes
  <1> QED BY <1>3, <1>4, <1>5, AllTyped DEF SinkInv

\* Nothing is open in a process that is gone.
LEMMA DownHands ==
  ASSUME pc' = "down", writer' = "none", file' = "none", w' = << >>
  PROVE  InHand'
  BY DEF InHand, Rotating

LEMMA KillKeeps == ASSUME SinkInv, Kill PROVE SinkInv'
  <1>1. /\ TypeOK /\ BufferTypes /\ ControlTypes
    BY AllTypes DEF SinkInv
  <1>2. /\ pc' = "down" /\ file' = "none" /\ writer' = "none" /\ w' = << >>
        /\ UNCHANGED <<disk, time, runs, size, pending, writers, failed, records, steady>>
    BY DEF Kill
  <1>3. DiskTypes' /\ Dirs' /\ DurableSegments' /\ NotTooLong' /\ NotSplit' /\ Dir' = Dir
    BY <1>2, QuietKeeps
  <1>4. InHand'
    BY <1>2, DownHands
  <1>5. BufferTypes' /\ ControlTypes'
    BY <1>1, <1>2, EmptyRange, Constants DEF BufferTypes, ControlTypes
  <1> QED BY <1>3, <1>4, <1>5, AllTyped DEF SinkInv

\* A directory known to be stable is the only version there is.
LEMMA OnlyOne ==
  ASSUME NEW S, NEW d \in S
  PROVE  <<d>> \in Seq(S) /\ Len(<<d>>) = 1 /\ <<d>>[1] = d /\ <<d>> # << >> /\ Last(<<d>>) = d
  BY DEF Last

\* The current file is synced, and may have been written to before.
LEMMA SyncedFile ==
  ASSUME SinkInv, Grown, UNCHANGED versions, file = "open", pc' # "open",
         synced' = [synced EXCEPT ![Dir.current] = Len(data'[Dir.current])]
  PROVE  /\ DiskTypes' /\ Dirs' /\ DurableSegments' /\ Dir' = Dir
         /\ synced'[Dir.current] = Len(data'[Dir.current])
  <1> DEFINE cur == Dir.current
             len == Len(data'[cur])
  <1>1. /\ TypeOK /\ DiskTypes /\ Dirs /\ DurableSegments /\ cur \in 1 .. Len(data)
        /\ Len(data) \in Nat /\ DOMAIN data = 1 .. Len(data)
    BY AllTypes, DiskOver DEF SinkInv, InHand
  <1>2. Dir' = Dir
    BY DEF Dir
  <1>3. /\ data' \in Seq(Seq(Byte)) /\ Len(data') = Len(data) /\ DOMAIN data' = 1 .. Len(data)
        /\ \A i \in 1 .. Len(data) : i # cur => data'[i] = data[i]
        /\ \A i \in 1 .. Len(data) : Len(data'[i]) \in Nat
    <2>1. data' \in Seq(Seq(Byte)) /\ Len(data') = Len(data)
      BY DEF Grown
    <2>2. \A i \in 1 .. Len(data) : data'[i] \in Seq(Byte)
      BY <2>1, SeqOver
    <2> QED BY <2>1, <2>2, SeqOver DEF Grown
  <1>4. /\ synced \in Seq(Nat) /\ Len(synced) = Len(data)
        /\ \A i \in 1 .. Len(data) : synced[i] =< Len(data[i])
    BY <1>1 DEF DiskTypes
  <1> HIDE DEF cur
  <1>5. /\ synced' \in Seq(Nat) /\ Len(synced') = Len(synced)
        /\ \A i \in 1 .. Len(data) : synced'[i] = IF i = cur THEN len ELSE synced[i]
    <2>1. PICK n \in Nat : n = len
      BY <1>1, <1>3
    <2>2. synced' = [synced EXCEPT ![cur] = n]
      BY <2>1 DEF cur
    <2>3. cur \in 1 .. Len(synced)
      BY <1>1, <1>4
    <2> HIDE DEF len
    <2>4. DOMAIN synced = 1 .. Len(data)
      BY <1>4, SeqOver
    <2>5. synced' \in Seq(Nat) /\ Len(synced') = Len(synced)
      <3>1. synced \in Seq(Nat) /\ cur \in 1 .. Len(synced) /\ n \in Nat
        BY <1>4, <2>3
      <3>2. [synced EXCEPT ![cur] = n] \in Seq(Nat)
        BY ONLY <3>1, ExceptSeq
      <3>3. Len([synced EXCEPT ![cur] = n]) = Len(synced)
        BY ONLY <3>1, ExceptSeq
      <3> QED BY <2>2, <3>2, <3>3
    <2>6. \A i \in 1 .. Len(data) : synced'[i] = IF i = cur THEN len ELSE synced[i]
      BY <2>1, <2>2, <2>4
    <2> QED BY <2>5, <2>6
  <1>6. \A i \in 1 .. Len(data) : synced'[i] =< Len(data'[i])
    <2>1. \A i \in 1 .. Len(data) : i # cur => synced'[i] =< Len(data'[i])
      BY <1>3, <1>4, <1>5
    <2>2. synced'[cur] =< Len(data'[cur])
      <3>1. synced'[cur] = len /\ len \in Nat
        BY <1>1, <1>3, <1>5
      <3> QED BY <3>1
    <2> QED BY <2>1, <2>2
  <1>7. DiskTypes'
    BY <1>1, <1>3, <1>4, <1>5, <1>6 DEF DiskTypes
  <1>8. DurableSegments'
    <2>1. ASSUME NEW v \in DOMAIN versions, NEW s \in versions[v].rotated
          PROVE  synced'[s.inode] = Len(data'[s.inode])
      <3>1. v \in 1 .. Len(versions) /\ versions[v] \in Directory(Len(data))
        BY <1>1, DiskOver
      <3>2. s.inode \in 1 .. Len(data)
        BY <3>1 DEF Directory, Segment
      <3>3. synced[s.inode] = Len(data[s.inode])
        BY <1>1 DEF DurableSegments
      <3> QED BY <1>3, <1>5, <3>2, <3>3
    <2> QED BY <2>1 DEF DurableSegments
  <1>9. Dirs'
    BY <1>1 DEF Dirs
  <1> QED BY <1>1, <1>2, <1>5, <1>7, <1>8, <1>9 DEF cur

LEMMA RotateSyncKeeps == ASSUME SinkInv, RotateSync PROVE SinkInv'
  <1>1. /\ TypeOK /\ DiskTypes /\ BufferTypes /\ ControlTypes /\ InHand /\ NotTooLong /\ NotSplit
    BY AllTypes DEF SinkInv
  <1>2. /\ pc = "sync" /\ file = "open" /\ pc' = "close"
        /\ synced' = [synced EXCEPT ![Dir.current] = Len(data[Dir.current])]
        /\ UNCHANGED <<data, versions, time, runs, file, writer, w, size, pending>>
        /\ UNCHANGED <<writers, failed, records, stream, steady>>
    BY DEF RotateSync, sinkVars, history
  <1>3. Grown
    <2>1. Dir.current \in 1 .. Len(data) /\ Len(data[Dir.current]) \in Nat
      BY <1>1, <1>2, DiskOver DEF InHand
    <2> QED BY <1>1, <1>2, <2>1 DEF Grown, DiskTypes
  <1>4. /\ DiskTypes' /\ Dirs' /\ DurableSegments' /\ Dir' = Dir
        /\ synced'[Dir.current] = Len(data'[Dir.current])
    BY <1>2, <1>3, SyncedFile
  <1>5. NotTooLong' /\ NotSplit'
    BY <1>1, <1>2, <1>4 DEF NotTooLong, NotSplit, Together
  <1>6. InHand'
    BY <1>1, <1>2, <1>4 DEF InHand, Rotating
  <1>7. BufferTypes' /\ ControlTypes'
    BY <1>1, <1>2 DEF BufferTypes, ControlTypes
  <1> QED BY <1>4, <1>5, <1>6, <1>7, AllTyped DEF SinkInv

LEMMA CloseKeeps == ASSUME SinkInv, Close PROVE SinkInv'
  <1>1. /\ TypeOK /\ BufferTypes /\ ControlTypes /\ NotTooLong /\ w \in Seq(Byte)
        /\ Len(w) \in Nat /\ records \in Nat
    BY AllTypes, DiskOver DEF SinkInv, BufferTypes
  <1>2. /\ pc' = "down" /\ file' = "none" /\ writer' = "none" /\ w' = << >>
        /\ UNCHANGED <<versions, time, runs, size, pending, writers, failed, records, steady>>
    BY DEF Close
  <1>3. PICK n \in 0 .. Len(w) :
          /\ Reach(SubSeq(w, 1, n)) /\ (n > 0 => file = "open")
          /\ \/ /\ file = "open"
                /\ synced' = [synced EXCEPT ![Dir.current] = Len(data'[Dir.current])]
             \/ UNCHANGED synced
    <2>1. SubSeq(w, 1, Len(w)) = w /\ Len(w) \in 0 .. Len(w)
      <3>1. \A i \in 1 .. Len(w) : w[i] \in Byte
        BY <1>1, SeqOver
      <3>2. /\ SubSeq(w, 1, Len(w)) \in Seq(Byte) /\ Len(SubSeq(w, 1, Len(w))) = Len(w)
            /\ \A i \in 1 .. Len(w) : SubSeq(w, 1, Len(w))[i] = w[i]
        BY <1>1, <3>1, SubSeqProperties
      <3> QED BY <1>1, <3>2, SeqEqual
    <2>2. CASE /\ file = "open" /\ Reach(w)
               /\ synced' = [synced EXCEPT ![Dir.current] = Len(data'[Dir.current])]
      BY <2>1, <2>2
    <2>3. CASE /\ \E part \in 0 .. Len(w) : /\ part > 0 => file = "open"
                                            /\ Reach(SubSeq(w, 1, part))
               /\ UNCHANGED synced
      BY <2>3
    <2> QED BY <2>2, <2>3 DEF Close
  <1>4. Grown /\ NotTooLong' /\ NotSplit'
    <2> DEFINE new == {}
    <2>1. new \subseteq records + 1 .. records' /\ Range(w) \subseteq Range(w) \cup new
      OBVIOUS
    <2>2. /\ records' \in Nat /\ records' >= records /\ w' \in Seq(Byte)
          /\ Len(w') =< Len(w) - n /\ Range(w') \subseteq Range(w)
      BY <1>1, <1>2, <1>3, EmptyRange
    <2>3. file = "open" => Together(data[Dir.current], w)
      BY <1>1 DEF NotTooLong
    <2> HIDE DEF new
    <2> QED BY <1>1, <1>2, <1>3, <2>1, <2>2, <2>3, BytesKept
  <1>5. DiskTypes' /\ Dirs' /\ DurableSegments'
    BY <1>2, <1>3, <1>4, SyncedFile, GrownDisk
  <1>6. InHand'
    BY <1>2, DownHands
  <1>7. BufferTypes' /\ ControlTypes'
    BY <1>1, <1>2, EmptyRange, Constants DEF BufferTypes, ControlTypes
  <1> QED BY <1>4, <1>5, <1>6, <1>7, AllTyped DEF SinkInv
----------------------------------------------------------------------------
(***************************************************************************)
(* The steps that change the directory.                                    *)
(***************************************************************************)

\* A new file, empty.
Created == data' = Append(data, << >>) /\ synced' = Append(synced, 0)

LEMMA CreatedDisk ==
  ASSUME TypeOK, UNCHANGED <<data, synced>> \/ Created
  PROVE  /\ data' \in Seq(Seq(Byte)) /\ synced' \in Seq(Nat) /\ Len(synced') = Len(data')
         /\ DOMAIN data' = 1 .. Len(data')
         /\ Len(data) \in Nat /\ Len(data') \in {Len(data), Len(data) + 1}
         /\ \A i \in 1 .. Len(data) : data'[i] = data[i] /\ synced'[i] = synced[i]
         /\ \A i \in 1 .. Len(data') : i > Len(data) => data'[i] = << >> /\ synced'[i] = 0
         /\ \A i \in 1 .. Len(data') : synced'[i] =< Len(data'[i])
         /\ Created => Len(data') = Len(data) + 1
  <1>1. /\ Len(data) \in Nat /\ DOMAIN data = 1 .. Len(data) /\ DOMAIN synced = 1 .. Len(data)
        /\ \A i \in 1 .. Len(data) : synced[i] =< Len(data[i])
        /\ data \in Seq(Seq(Byte)) /\ synced \in Seq(Nat) /\ Len(synced) = Len(data)
    BY DiskOver, AllTypes DEF DiskTypes
  <1>2. CASE Created
    <2>1. PICK zero \in Nat, empty \in Seq(Byte) : zero = 0 /\ empty = << >>
      BY EmptyRange
    <2>2. data' = Append(data, empty) /\ synced' = Append(synced, zero)
      BY <1>2, <2>1 DEF Created
    <2>3. /\ data' \in Seq(Seq(Byte)) /\ Len(data') = Len(data) + 1
          /\ \A i \in 1 .. Len(data) : data'[i] = data[i]
          /\ data'[Len(data) + 1] = empty
      <3>1. data \in Seq(Seq(Byte)) /\ empty \in Seq(Byte)
        BY <1>1
      <3>2. /\ Append(data, empty) \in Seq(Seq(Byte))
            /\ Len(Append(data, empty)) = Len(data) + 1
            /\ \A i \in 1 .. Len(data) : Append(data, empty)[i] = data[i]
            /\ Append(data, empty)[Len(data) + 1] = empty
        BY ONLY <3>1, AppendProperties
      <3> QED BY <2>2, <3>2
    <2>4. /\ synced' \in Seq(Nat) /\ Len(synced') = Len(data) + 1
          /\ \A i \in 1 .. Len(data) : synced'[i] = synced[i]
          /\ synced'[Len(data) + 1] = zero
      <3>1. synced \in Seq(Nat) /\ zero \in Nat
        BY <1>1
      <3>2. /\ Append(synced, zero) \in Seq(Nat)
            /\ Len(Append(synced, zero)) = Len(synced) + 1
            /\ \A i \in 1 .. Len(synced) : Append(synced, zero)[i] = synced[i]
            /\ Append(synced, zero)[Len(synced) + 1] = zero
        BY ONLY <3>1, AppendProperties
      <3> QED BY <1>1, <2>2, <3>2
    <2>5. DOMAIN data' = 1 .. Len(data')
      BY <2>3, SeqOver
    <2>6. \A i \in 1 .. Len(data') : i > Len(data) => i = Len(data) + 1
      BY <1>1, <2>3
    <2>7. \A i \in 1 .. Len(data') : synced'[i] =< Len(data'[i])
      <3>1. \A i \in 1 .. Len(data') : i \in 1 .. Len(data) \/ i = Len(data) + 1
        BY <1>1, <2>3
      <3>2. synced'[Len(data) + 1] =< Len(data'[Len(data) + 1])
        BY <2>1, <2>3, <2>4, EmptyRange
      <3> QED BY <1>1, <2>3, <2>4, <3>1, <3>2
    <2> QED BY <1>1, <2>1, <2>3, <2>4, <2>5, <2>6, <2>7
  <1>3. CASE UNCHANGED <<data, synced>>
    <2>1. \A i \in 1 .. Len(data) : ~(i > Len(data))
      BY <1>1
    <2>2. ~Created
      <3>1. PICK empty \in Seq(Byte) : empty = << >>
        BY EmptyRange
      <3>2. data \in Seq(Seq(Byte)) /\ empty \in Seq(Byte)
        BY <1>1
      <3>3. Len(Append(data, empty)) = Len(data) + 1
        BY ONLY <3>2, AppendProperties
      <3>4. Created => Len(data) = Len(data) + 1
        BY <1>3, <3>1, <3>3 DEF Created
      <3>5. Len(data) \in Nat
        BY <1>1
      <3>6. Len(data) # Len(data) + 1
        BY ONLY <3>5
      <3> QED BY ONLY <3>4, <3>6
    <2> QED BY <1>1, <1>3, <2>1, <2>2
  <1> QED BY <1>2, <1>3

\* What the files hold stays together and apart while nothing is buffered.
LEMMA EmptyBuffer ==
  ASSUME SinkInv, UNCHANGED <<data, synced>> \/ Created, UNCHANGED records, w' = << >>,
         file' = "open" =>
           Dir'.current \in 1 .. Len(data') /\ size' = Len(data'[Dir'.current])
  PROVE  NotTooLong' /\ NotSplit'
  <1>1. /\ TypeOK /\ NotTooLong /\ NotSplit
        /\ Len(data) \in Nat /\ Len(data') \in {Len(data), Len(data) + 1}
        /\ \A i \in 1 .. Len(data) : data'[i] = data[i]
        /\ \A i \in 1 .. Len(data') : i > Len(data) => data'[i] = << >>
    BY CreatedDisk DEF SinkInv
  <1>2. \A i \in 1 .. Len(data') : i \in 1 .. Len(data) \/ data'[i] = << >>
    BY <1>1
  <1>3. Together(<< >>, << >>)
    BY EmptyRange, Constants DEF Together
  <1>4. NotTooLong'
    <2>1. \A i \in 1 .. Len(data') : Together(data'[i], << >>)
      BY <1>1, <1>2, <1>3 DEF NotTooLong
    <2>2. \A i \in 1 .. Len(data') : Len(data'[i]) \in Nat
      BY <1>1, <1>2, DiskOver, EmptyRange
    <2>3. file' = "open" => size' = Len(data'[Dir'.current]) + Len(w')
      BY <2>2, EmptyRange
    <2> QED BY <2>1, <2>3 DEF NotTooLong, Together
  <1>5. NotSplit'
    <2>1. \A i, j \in 1 .. Len(data') : i # j => Range(data'[i]) \cap Range(data'[j]) = {}
      BY <1>1, <1>2, EmptyRange DEF NotSplit
    <2>2. \A i \in 1 .. Len(data') : Range(data'[i]) \subseteq 1 .. records'
      BY <1>1, <1>2, EmptyRange DEF NotSplit
    <2> QED BY <2>1, <2>2, EmptyRange DEF NotSplit
  <1> QED BY <1>4, <1>5

\* A directory that may follow those a power loss may leave.
Follows(d) ==
  /\ d \in Directory(Len(data')) /\ IsFiniteSet(d.rotated)
  /\ \A s, t \in d.rotated : s.inode = t.inode => s = t
  /\ \A s \in d.rotated : s.inode \in 1 .. Len(data) /\ synced[s.inode] = Len(data[s.inode])
  /\ \A s \in d.rotated : s.inode # d.current
  /\ \A v \in 1 .. Len(versions) : \A s \in versions[v].rotated : s.inode # d.current

LEMMA ChangedDir ==
  ASSUME SinkInv, NEW d, ChangeDir(d), Follows(d), UNCHANGED <<data, synced>> \/ Created,
         pc' # "open"
  PROVE  DiskTypes' /\ Dirs' /\ DurableSegments' /\ Dir' = d
  <1>1. /\ TypeOK /\ Dirs /\ DurableSegments /\ versions \in Seq(Directory(Len(data)))
        /\ Len(data) \in Nat /\ Len(versions) \in Nat
        /\ \A v \in 1 .. Len(versions) : versions[v] \in Directory(Len(data))
    BY AllTypes, DiskOver DEF SinkInv, DiskTypes
  <1>2. /\ data' \in Seq(Seq(Byte)) /\ synced' \in Seq(Nat) /\ Len(synced') = Len(data')
        /\ DOMAIN data' = 1 .. Len(data') /\ Len(data') \in {Len(data), Len(data) + 1}
        /\ \A i \in 1 .. Len(data) : data'[i] = data[i] /\ synced'[i] = synced[i]
        /\ \A i \in 1 .. Len(data') : synced'[i] =< Len(data'[i])
    BY <1>1, CreatedDisk
  <1>3. versions \in Seq(Directory(Len(data')))
    <2>1. \A v \in 1 .. Len(versions) : versions[v] \in Directory(Len(data'))
      <3>1. Directory(Len(data)) \subseteq Directory(Len(data'))
        BY <1>1, <1>2 DEF Directory, Segment
      <3> QED BY <1>1, <3>1
    <2>2. /\ DOMAIN versions = 1 .. Len(versions)
          /\ versions = [v \in 1 .. Len(versions) |-> versions[v]]
      BY <1>1, SeqOver
    <2> QED BY <1>1, <2>1, <2>2, IsASeq
  <1>4. /\ versions' \in Seq(Directory(Len(data'))) /\ versions' # << >>
        /\ Len(versions') = Len(versions) + 1
        /\ \A v \in 1 .. Len(versions) : versions'[v] = versions[v]
        /\ versions'[Len(versions) + 1] = d
    BY <1>3, AppendProperties DEF ChangeDir, Follows
  <1>5. Dir' = d
    BY <1>4 DEF Dir, Last
  <1>6. DiskTypes'
    BY <1>2, <1>4 DEF DiskTypes
  <1>7. \A v \in 1 .. Len(versions') :
          v \in 1 .. Len(versions) \/ (v = Len(versions) + 1 /\ versions'[v] = d)
    BY <1>1, <1>4
  <1>8. Dirs'
    <2> SUFFICES ASSUME NEW v \in 1 .. Len(versions')
                 PROVE  /\ IsFiniteSet(versions'[v].rotated)
                        /\ \A s, t \in versions'[v].rotated : s.inode = t.inode => s = t
                        /\ \A u \in 1 .. v : \A s \in versions'[u].rotated :
                             s.inode # versions'[v].current
      BY DEF Dirs
    <2>1. CASE v \in 1 .. Len(versions)
      <3>1. \A u \in 1 .. v : u \in 1 .. Len(versions)
        BY <1>1, <2>1
      <3> QED BY <1>1, <1>4, <2>1, <3>1 DEF Dirs
    <2>2. CASE v = Len(versions) + 1 /\ versions'[v] = d
      <3>1. \A u \in 1 .. v : u \in 1 .. Len(versions) \/ versions'[u] = d
        BY <1>1, <1>4, <2>2
      <3> QED BY <1>4, <2>2, <3>1 DEF Follows
    <2> QED BY <1>7, <2>1, <2>2
  <1>9. DurableSegments'
    <2> SUFFICES ASSUME NEW v \in 1 .. Len(versions'), NEW s \in versions'[v].rotated
                 PROVE  synced'[s.inode] = Len(data'[s.inode])
      <3>1. DOMAIN versions' = 1 .. Len(versions')
        BY <1>4, SeqOver
      <3> QED BY <3>1 DEF DurableSegments
    <2>1. s.inode \in 1 .. Len(data) /\ synced[s.inode] = Len(data[s.inode])
      <3>1. CASE v \in 1 .. Len(versions)
        <4>1. s \in versions[v].rotated /\ v \in DOMAIN versions
          BY <1>1, <1>4, <3>1, SeqOver
        <4>2. synced[s.inode] = Len(data[s.inode])
          BY <1>1, <4>1 DEF DurableSegments
        <4> QED BY <1>1, <3>1, <4>1, <4>2 DEF Directory, Segment
      <3>2. CASE versions'[v] = d
        BY <3>2 DEF Follows
      <3> QED BY <1>7, <3>1, <3>2
    <2> QED BY <1>2, <2>1
  <1> QED BY <1>5, <1>6, <1>8, <1>9

\* The steps of rotate between Close and openCurrent: nothing is open or buffered.
LEMMA DirectoryStep ==
  ASSUME SinkInv, pc \in {"rename", "syncdir", "retain"},
         pc' \in {"syncdir", "retain", "open"}, pc' # "open" \/ Len(versions') = 1,
         UNCHANGED <<data, synced, sinkVars, pending, writers, failed, records, runs>>,
         time' \in 0 .. TimeBound, steady' \in BOOLEAN,
         DiskTypes', Dirs', Dir'.current = 0,
         \A v \in DOMAIN versions' : \A s \in versions'[v].rotated :
           synced[s.inode] = Len(data[s.inode])
  PROVE  SinkInv'
  <1>1. /\ TypeOK /\ BufferTypes /\ ControlTypes /\ InHand
        /\ UNCHANGED <<data, synced, records, w, writer, file, size, pending, writers>>
        /\ UNCHANGED <<failed, runs>>
    BY AllTypes DEF SinkInv, sinkVars
  <1>2. writer = "none" /\ file = "none" /\ w = << >>
    BY <1>1 DEF InHand
  <1>3. NotTooLong' /\ NotSplit'
    BY <1>1, <1>2, EmptyBuffer
  <1>4. DurableSegments'
    BY <1>1 DEF DurableSegments
  <1>5. InHand'
    BY <1>1, <1>2 DEF InHand, Rotating
  <1>6. BufferTypes' /\ ControlTypes'
    BY <1>1 DEF BufferTypes, ControlTypes
  <1> QED BY <1>3, <1>4, <1>5, <1>6, AllTyped DEF SinkInv

\* After syncDir a power loss leaves the directory as it is.
LEMMA SyncedDir ==
  ASSUME SinkInv, NEW v \in 1 .. Len(versions),
         versions' = <<versions[v]>>
  PROVE  /\ versions' \in Seq(Directory(Len(data))) /\ versions' # << >> /\ Len(versions') = 1
         /\ Dirs' /\ Dir' = versions[v]
         /\ \A u \in DOMAIN versions' : \A s \in versions'[u].rotated :
              synced[s.inode] = Len(data[s.inode])
  <1>1. /\ TypeOK /\ Dirs /\ DurableSegments /\ Len(versions) \in Nat
        /\ versions[v] \in Directory(Len(data)) /\ DOMAIN versions = 1 .. Len(versions)
    BY DiskOver DEF SinkInv
  <1>2. /\ versions' \in Seq(Directory(Len(data))) /\ versions' # << >> /\ Len(versions') = 1
        /\ versions'[1] = versions[v] /\ Last(versions') = versions[v]
    BY <1>1, OnlyOne
  <1>3. Dir' = versions[v]
    BY <1>2 DEF Dir
  <1>4. \A u \in 1 .. Len(versions') : u = 1 /\ versions'[u] = versions[v]
    BY <1>2
  <1>5. Dirs'
    <2>1. v \in 1 .. v
      BY <1>1
    <2> QED BY <1>1, <1>2, <1>4, <2>1 DEF Dirs
  <1>6. DOMAIN versions' = 1 .. Len(versions')
    BY <1>2, SeqOver
  <1> QED BY <1>1, <1>2, <1>3, <1>4, <1>5, <1>6 DEF DurableSegments

LEMMA SyncDirKeeps == ASSUME SinkInv, RotateSyncDir \/ RetainSyncDir PROVE SinkInv'
  <1>1. /\ TypeOK /\ DiskTypes /\ ControlTypes /\ InHand /\ pc \in {"syncdir", "retain"}
        /\ Dir = versions[Len(versions)] /\ Len(versions) \in 1 .. Len(versions)
    <2>1. TypeOK /\ InHand
      BY DEF SinkInv
    <2>2. Dir = versions[Len(versions)] /\ Len(versions) \in 1 .. Len(versions)
      BY <2>1, DiskOver
    <2> QED BY <2>1, <2>2, AllTypes DEF RotateSyncDir, RetainSyncDir
  <1>2. /\ versions' = <<Dir>> /\ pc' \in {"retain", "open"}
        /\ UNCHANGED <<data, synced, sinkVars, pending, writers, failed, time, runs>>
        /\ UNCHANGED <<records, stream, steady>>
    BY DEF RotateSyncDir, RetainSyncDir, SyncDir, history
  <1>3. /\ versions' \in Seq(Directory(Len(data))) /\ versions' # << >> /\ Len(versions') = 1
        /\ Dirs' /\ Dir' = Dir
        /\ \A u \in DOMAIN versions' : \A s \in versions'[u].rotated :
             synced[s.inode] = Len(data[s.inode])
    BY <1>1, <1>2, SyncedDir
  <1>4. DiskTypes'
    BY <1>1, <1>2, <1>3 DEF DiskTypes
  <1>5. Dir'.current = 0
    BY <1>1, <1>3 DEF InHand
  <1>6. time' \in 0 .. TimeBound /\ steady' \in BOOLEAN
    BY <1>1, <1>2 DEF ControlTypes
  <1> QED BY <1>1, <1>2, <1>3, <1>4, <1>5, <1>6, DirectoryStep

LEMMA RetainKeeps == ASSUME SinkInv, Retain PROVE SinkInv'
  <1> DEFINE d == [Dir EXCEPT !.rotated = @ \ {RotatedFiles(Dir)[1]}]
  <1>1. /\ TypeOK /\ ControlTypes /\ InHand /\ Dirs /\ DurableSegments
        /\ Dir = versions[Len(versions)] /\ Len(versions) \in 1 .. Len(versions)
        /\ Dir \in Directory(Len(data)) /\ DOMAIN versions = 1 .. Len(versions)
    <2>1. TypeOK /\ InHand /\ Dirs /\ DurableSegments
      BY DEF SinkInv
    <2> QED BY <2>1, DiskOver, AllTypes
  <1>2. /\ pc = "retain" /\ pc' = "retain" /\ ChangeDir(d)
        /\ UNCHANGED <<data, synced, sinkVars, pending, writers, failed, time, runs>>
        /\ UNCHANGED <<records, stream, steady>>
    BY DEF Retain, history
  <1>3. d \in Directory(Len(data)) /\ d.rotated \subseteq Dir.rotated /\ d.current = 0
    BY <1>1, <1>2 DEF Directory, InHand
  <1> HIDE DEF d
  <1>4. Follows(d)
    <2>1. \A s \in d.rotated :
            s.inode \in 1 .. Len(data) /\ s.inode # 0 /\ synced[s.inode] = Len(data[s.inode])
      BY <1>1, <1>3 DEF Directory, Segment, DurableSegments
    <2>2. IsFiniteSet(d.rotated)
      BY <1>1, <1>3, FS_Subset DEF Dirs
    <2>3. \A v \in 1 .. Len(versions) : \A s \in versions[v].rotated : s.inode # 0
      BY <1>1, DiskOver DEF Directory, Segment
    <2>4. \A s, t \in d.rotated : s.inode = t.inode => s = t
      BY <1>1, <1>3 DEF Dirs
    <2> QED BY <1>2, <1>3, <2>1, <2>2, <2>3, <2>4 DEF Follows
  <1>5. DiskTypes' /\ Dirs' /\ DurableSegments' /\ Dir' = d
    BY <1>2, <1>4, ChangedDir
  <1>6. /\ time' \in 0 .. TimeBound /\ steady' \in BOOLEAN
        /\ \A v \in DOMAIN versions' : \A s \in versions'[v].rotated :
             synced[s.inode] = Len(data[s.inode])
    BY <1>1, <1>2, <1>5 DEF ControlTypes, DurableSegments
  <1> QED BY <1>2, <1>3, <1>5, <1>6, DirectoryStep

\* A set of naturals that is not empty has a least element,
LEMMA Least ==
  ASSUME NEW S, S \subseteq Nat, S # {}
  PROVE  Min(S) \in S /\ \A n \in S : Min(S) =< n
  <1>1. PICK m \in S : \A n \in S : ~(<<n, m>> \in OpToRel(<, Nat))
    BY NatLessThanWellFounded, WFMin
  <1>2. \A n \in S : ~(n < m)
    BY <1>1 DEF OpToRel
  <1>3. \A n \in S : m =< n
    BY <1>2
  <1> QED BY <1>3 DEF Min

\* and as many names as there are segments and one more are not all taken:
\* rotationPath finds a name that no segment has.
LEMMA UnusedName ==
  ASSUME SinkInv, NEW t
  PROVE  /\ RotationPath(t) \in Nat
         /\ \A s \in Dir.rotated : ~(s.time = t /\ s.suffix = RotationPath(t))
  <1> DEFINE R     == {r \in Dir.rotated : r.time = t}
             taken == {s.suffix : s \in R}
             free  == {k \in 0 .. Cardinality(taken) : k \notin taken}
             f     == [s \in R |-> s.suffix]
  <1>1. TypeOK /\ Dir.rotated \subseteq Segment(Len(data)) /\ IsFiniteSet(Dir.rotated)
    BY DiskOver DEF SinkInv, Dirs
  <1>2. IsFiniteSet(R)
    BY <1>1, FS_Subset
  <1>3. f \in Surjection(R, taken)
    BY DEF Surjection
  <1> HIDE DEF f
  <1>4. IsFiniteSet(taken) /\ Cardinality(taken) \in Nat
    <2>1. IsFiniteSet(taken)
      BY <1>2, <1>3, FS_Surjection
    <2> QED BY <2>1, FS_CardinalityType
  <1> HIDE DEF taken
  <1>5. free # {}
    <2> SUFFICES ASSUME free = {} PROVE FALSE
      OBVIOUS
    <2>1. 0 .. Cardinality(taken) \subseteq taken
      OBVIOUS
    <2>2. Cardinality(0 .. Cardinality(taken)) =< Cardinality(taken)
      BY <1>4, <2>1, FS_Subset
    <2>3. Cardinality(0 .. Cardinality(taken)) = Cardinality(taken) + 1
      <3>1. 0 \in Int /\ Cardinality(taken) \in Int /\ ~(0 > Cardinality(taken))
        BY <1>4
      <3>2. Cardinality(0 .. Cardinality(taken)) =
              IF 0 > Cardinality(taken) THEN 0 ELSE Cardinality(taken) - 0 + 1
        BY <3>1, FS_Interval
      <3> QED BY <1>4, <3>1, <3>2
    <2> QED BY <1>4, <2>2, <2>3
  <1>6. free \subseteq Nat
    BY <1>4
  <1>7. Min(free) \in free /\ RotationPath(t) = Min(free)
    <2>1. Min(free) \in free
      <3> HIDE DEF free
      <3> QED BY <1>5, <1>6, Least
    <2> QED BY <2>1 DEF RotationPath, taken
  <1>8. RotationPath(t) \in Nat /\ RotationPath(t) \notin taken
    BY <1>6, <1>7
  <1> QED BY <1>8 DEF taken

LEMMA RotateRenameKeeps ==
  ASSUME SinkInv, RotateRename
  PROVE  SinkInv' /\ Dir.rotated \subseteq Dir'.rotated
  <1>1. /\ TypeOK /\ ControlTypes /\ InHand /\ Dirs /\ DurableSegments
        /\ Dir = versions[Len(versions)] /\ Len(versions) \in 1 .. Len(versions)
        /\ Dir \in Directory(Len(data)) /\ DOMAIN versions = 1 .. Len(versions)
        /\ Len(data) \in Nat
    <2>1. TypeOK /\ InHand /\ Dirs /\ DurableSegments
      BY DEF SinkInv
    <2> QED BY <2>1, DiskOver, AllTypes
  <1>2. PICK t \in 1 .. TimeBound :
          /\ time' = t /\ steady' = (steady /\ t > time)
          /\ ChangeDir([current |-> 0,
                        rotated |->
                          {s \in Dir.rotated : s.time # t \/ s.suffix # RotationPath(t)} \cup
                            {[time |-> t, suffix |-> RotationPath(t), inode |-> Dir.current]}])
    BY DEF RotateRename
  <1> DEFINE new == [time |-> t, suffix |-> RotationPath(t), inode |-> Dir.current]
             d   == [current |-> 0, rotated |-> Dir.rotated \cup {new}]
  <1>3. RotationPath(t) \in Nat
        /\ \A s \in Dir.rotated : ~(s.time = t /\ s.suffix = RotationPath(t))
    BY UnusedName
  <1>4. ChangeDir(d)
    <2>1. {s \in Dir.rotated : s.time # t \/ s.suffix # RotationPath(t)} = Dir.rotated
      BY <1>3
    <2> QED BY <1>2, <2>1
  <1>5. /\ pc = "rename" /\ pc' = "syncdir"
        /\ UNCHANGED <<data, synced, sinkVars, pending, writers, failed, runs>>
        /\ UNCHANGED <<records, stream>>
    BY DEF RotateRename
  <1>6. /\ Dir.current \in 1 .. Len(data) /\ synced[Dir.current] = Len(data[Dir.current])
        /\ new \in Segment(Len(data)) /\ new.inode = Dir.current
    <2>1. Dir.current \in 1 .. Len(data) /\ synced[Dir.current] = Len(data[Dir.current])
      BY <1>1, <1>5 DEF InHand, Directory
    <2> QED BY <1>3, <2>1 DEF Segment
  <1> HIDE DEF new
  <1>7. d \in Directory(Len(data)) /\ d.current = 0 /\ d.rotated = Dir.rotated \cup {new}
    BY <1>1, <1>6 DEF Directory
  <1> HIDE DEF d
  <1>8. Follows(d)
    <2>1. \A s \in d.rotated :
            s.inode \in 1 .. Len(data) /\ s.inode # 0 /\ synced[s.inode] = Len(data[s.inode])
      <3>1. \A s \in Dir.rotated :
              s.inode \in 1 .. Len(data) /\ synced[s.inode] = Len(data[s.inode])
        BY <1>1 DEF Directory, Segment, DurableSegments
      <3> QED BY <1>6, <1>7, <3>1
    <2>2. IsFiniteSet(d.rotated)
      BY <1>1, <1>7, FS_AddElement DEF Dirs
    <2>3. \A v \in 1 .. Len(versions) : \A s \in versions[v].rotated : s.inode # 0
      BY <1>1, DiskOver DEF Directory, Segment
    <2>4. \A s, u \in d.rotated : s.inode = u.inode => s = u
      <3>1. \A s \in Dir.rotated : s.inode # Dir.current
        BY <1>1 DEF Dirs
      <3>2. \A s, u \in Dir.rotated : s.inode = u.inode => s = u
        BY <1>1 DEF Dirs
      <3> QED BY <1>6, <1>7, <3>1, <3>2
    <2> QED BY <1>5, <1>7, <2>1, <2>2, <2>3, <2>4 DEF Follows
  <1>9. DiskTypes' /\ Dirs' /\ DurableSegments' /\ Dir' = d
    BY <1>4, <1>5, <1>8, ChangedDir
  <1>10. /\ time' \in 0 .. TimeBound /\ steady' \in BOOLEAN
         /\ \A v \in DOMAIN versions' : \A s \in versions'[v].rotated :
              synced[s.inode] = Len(data[s.inode])
    <2>1. steady' \in BOOLEAN
      BY <1>2
    <2>2. time' \in 0 .. TimeBound
      BY <1>2, Constants
    <2> QED BY <1>5, <1>9, <2>1, <2>2 DEF DurableSegments
  <1> QED BY <1>5, <1>7, <1>9, <1>10, DirectoryStep

----------------------------------------------------------------------------
(***************************************************************************)
(* The steps that open a file.                                             *)
(***************************************************************************)
LEMMA OpenCurrentKeeps ==
  ASSUME SinkInv, OpenCurrent, pc' \in {"idle", "put"}, UNCHANGED <<records, time, steady>>,
         runs' \in 0 .. RunBound, writers' \in 0 .. Writers, failed' \in BOOLEAN,
         pending' \in Sizes \cup {0},
         pc' = "put" => /\ Dir.current = 0 /\ records < RecordBound
                        /\ writers' > 0 /\ pending' \in Sizes
  PROVE  SinkInv' /\ Dir'.rotated = Dir.rotated
  <1> DEFINE d == [Dir EXCEPT !.current = Len(data) + 1]
  <1>1. /\ TypeOK /\ DiskTypes /\ BufferTypes /\ ControlTypes /\ Dirs /\ DurableSegments
        /\ Dir = versions[Len(versions)] /\ Len(versions) \in 1 .. Len(versions)
        /\ Dir \in Directory(Len(data)) /\ Len(data) \in Nat /\ DOMAIN versions = 1 .. Len(versions)
    <2>1. TypeOK /\ Dirs /\ DurableSegments
      BY DEF SinkInv
    <2> QED BY <2>1, DiskOver, AllTypes
  <1>2. file' = "open" /\ writer' = "good" /\ w' = << >>
    BY DEF OpenCurrent
  <1>3. /\ DiskTypes' /\ Dirs' /\ DurableSegments' /\ NotTooLong' /\ NotSplit'
        /\ Dir'.current # 0 /\ size' \in Nat /\ (pc' = "put" => size' = 0)
        /\ Dir'.rotated = Dir.rotated
    <2>1. CASE Dir.current # 0
      <3>1. /\ size' = Len(data[Dir.current]) /\ UNCHANGED <<data, synced, versions>>
            /\ Dir.current \in 1 .. Len(data)
        BY <1>1, <2>1 DEF OpenCurrent, disk, Directory
      <3>2. DiskTypes' /\ Dirs' /\ DurableSegments' /\ Dir' = Dir
        BY <1>1, <3>1 DEF DiskTypes, Dirs, DurableSegments, Dir
      <3>3. NotTooLong' /\ NotSplit'
        BY <1>2, <3>1, <3>2, EmptyBuffer
      <3>4. size' \in Nat
        BY <1>1, <3>1, DiskOver
      <3> QED BY <2>1, <3>2, <3>3, <3>4
    <2>2. CASE Dir.current = 0
      <3>1. Created /\ ChangeDir(d) /\ size' = 0
        BY <2>2 DEF OpenCurrent, Created
      <3>2. Len(data') = Len(data) + 1 /\ data'[Len(data) + 1] = << >>
        <4>1. /\ Len(data') = Len(data) + 1
              /\ \A i \in 1 .. Len(data') : i > Len(data) => data'[i] = << >>
          BY <1>1, <3>1, CreatedDisk
        <4>2. Len(data) + 1 \in 1 .. Len(data') /\ Len(data) + 1 > Len(data)
          BY <1>1, <4>1
        <4> QED BY <4>1, <4>2
      <3>3. d \in Directory(Len(data')) /\ d.current = Len(data) + 1 /\ d.rotated = Dir.rotated
        BY <1>1, <3>2 DEF Directory, Segment
      <3> HIDE DEF d
      <3>4. Follows(d)
        <4>1. \A v \in 1 .. Len(versions) : \A s \in versions[v].rotated :
                s.inode \in 1 .. Len(data) /\ synced[s.inode] = Len(data[s.inode])
          BY <1>1, DiskOver DEF Directory, Segment, DurableSegments
        <4>2. Len(data) + 1 \notin 1 .. Len(data)
          BY <1>1
        <4>3. IsFiniteSet(Dir.rotated) /\ \A s, t \in Dir.rotated : s.inode = t.inode => s = t
          BY <1>1 DEF Dirs
        <4> QED BY <1>1, <3>3, <4>1, <4>2, <4>3 DEF Follows
      <3>5. DiskTypes' /\ Dirs' /\ DurableSegments' /\ Dir' = d
        BY <3>1, <3>4, ChangedDir
      <3>6. NotTooLong' /\ NotSplit'
        <4>1. Len(data) + 1 \in 1 .. Len(data')
          BY <1>1, <3>2
        <4> QED BY <1>2, <3>1, <3>2, <3>3, <3>5, <4>1, EmptyBuffer, EmptyRange
      <3> QED BY <1>1, <3>1, <3>3, <3>5, <3>6
    <2> QED BY <2>1, <2>2
  <1>4. BufferTypes'
    BY <1>1, <1>2, <1>3, EmptyRange, Constants DEF BufferTypes
  <1>5. ControlTypes'
    BY <1>1, <1>2 DEF ControlTypes
  <1>6. InHand'
    BY <1>2, <1>3 DEF InHand, Rotating
  <1> QED BY <1>3, <1>4, <1>5, <1>6, AllTyped DEF SinkInv

LEMMA StartKeeps == ASSUME SinkInv, Start PROVE SinkInv'
  <1>1. ControlTypes
    BY AllTypes DEF SinkInv
  <1>2. /\ runs < RunBound /\ runs' = runs + 1 /\ OpenCurrent
        /\ pc' = "idle" /\ writers' = Writers /\ failed' = FALSE /\ pending' = 0
        /\ UNCHANGED <<time, records, stream, steady>>
    BY DEF Start, history
  <1>3. runs' \in 0 .. RunBound /\ writers' \in 0 .. Writers
    BY <1>1, <1>2, Constants DEF ControlTypes
  <1> QED BY <1>2, <1>3, OpenCurrentKeeps

LEMMA ReopenKeeps == ASSUME SinkInv, Reopen PROVE SinkInv'
  <1>1. ControlTypes /\ InHand
    BY AllTypes DEF SinkInv
  <1>2. /\ pc = "open" /\ OpenCurrent /\ pc' = "put"
        /\ UNCHANGED <<time, runs, pending, writers, failed, records, stream, steady>>
    BY DEF Reopen, history
  <1> QED BY <1>1, <1>2, OpenCurrentKeeps DEF ControlTypes, InHand, Rotating

LEMMA WriteAfterRotationKeeps == ASSUME SinkInv, WriteAfterRotation PROVE SinkInv'
  <1>1. InHand
    BY DEF SinkInv
  <1> QED BY <1>1, PutKeeps DEF WriteAfterRotation, InHand, Rotating
----------------------------------------------------------------------------
(***************************************************************************)
(* A power loss: of every file the beginning is left.                      *)
(***************************************************************************)
LEMMA PowerLossKeeps == ASSUME SinkInv, PowerLoss PROVE SinkInv'
  <1>1. /\ TypeOK /\ DiskTypes /\ BufferTypes /\ ControlTypes /\ NotTooLong /\ NotSplit
        /\ Len(data) \in Nat /\ DOMAIN data = 1 .. Len(data) /\ DOMAIN versions = 1 .. Len(versions)
        /\ \A i \in 1 .. Len(data) : data[i] \in Seq(Byte) /\ Len(data[i]) \in Nat
    <2>1. TypeOK /\ NotTooLong /\ NotSplit
      BY DEF SinkInv
    <2> QED BY <2>1, DiskOver, AllTypes
  <1>2. /\ pc' = "down" /\ file' = "none" /\ writer' = "none" /\ w' = << >>
        /\ UNCHANGED <<time, runs, size, pending, writers, failed, records, steady>>
    BY DEF PowerLoss
  <1> DEFINE M == Max({Len(data[i]) : i \in DOMAIN data} \cup {0})
  <1>3. PICK v \in DOMAIN versions, keep \in [DOMAIN data -> 0 .. M] :
          /\ \A i \in DOMAIN data : synced[i] =< keep[i] /\ keep[i] =< Len(data[i])
          /\ versions' = <<versions[v]>>
          /\ data' = [i \in DOMAIN data |-> SubSeq(data[i], 1, keep[i])]
          /\ synced' = keep
    BY DEF PowerLoss
  <1> HIDE DEF M
  <1>4. \A i \in 1 .. Len(data) : keep[i] \in 0 .. Len(data[i])
    <2> SUFFICES ASSUME NEW i \in 1 .. Len(data) PROVE keep[i] \in 0 .. Len(data[i])
      OBVIOUS
    <2>1. keep[i] \in 0 .. M /\ keep[i] =< Len(data[i])
      BY <1>1, <1>3
    <2>2. keep[i] \in Int /\ keep[i] >= 0
      BY ONLY <2>1
    <2> QED BY <1>1, <2>1, <2>2
  <1>5. \A i \in 1 .. Len(data) :
          /\ data'[i] \in Seq(Byte) /\ Len(data'[i]) = keep[i]
          /\ Range(data'[i]) \subseteq Range(data[i])
    <2> SUFFICES ASSUME NEW i \in 1 .. Len(data)
                 PROVE  /\ data'[i] \in Seq(Byte) /\ Len(data'[i]) = keep[i]
                        /\ Range(data'[i]) \subseteq Range(data[i])
      OBVIOUS
    <2>1. data'[i] = SubSeq(data[i], 1, keep[i])
      BY <1>1, <1>3
    <2> QED BY <1>1, <1>4, <2>1, Parts
  <1>6. data' \in Seq(Seq(Byte)) /\ Len(data') = Len(data) /\ DOMAIN data' = 1 .. Len(data)
    <2>1. PICK f \in [1 .. Len(data) -> Seq(Byte)] : data' = f
      BY <1>1, <1>3, <1>5
    <2>2. f \in Seq(Seq(Byte)) /\ Len(f) = Len(data)
      BY <1>1, IsASeq
    <2> QED BY <2>1, <2>2
  <1>7. synced' \in Seq(Nat) /\ Len(synced') = Len(data)
    <2>1. synced' \in [1 .. Len(data) -> Nat]
      BY <1>1, <1>3, <1>4
    <2> QED BY <1>1, <2>1, IsASeq
  <1>8. /\ versions' \in Seq(Directory(Len(data))) /\ versions' # << >> /\ Dirs'
        /\ \A u \in DOMAIN versions' : versions'[u] \in Directory(Len(data))
    <2>1. /\ versions' \in Seq(Directory(Len(data))) /\ versions' # << >> /\ Dirs'
      BY <1>1, <1>3, SyncedDir
    <2> QED BY <2>1, SeqOver
  <1>9. DiskTypes'
    <2>1. \A i \in 1 .. Len(data) : synced'[i] =< Len(data'[i])
      BY <1>3, <1>4, <1>5
    <2> QED BY <1>6, <1>7, <1>8, <2>1 DEF DiskTypes
  <1>10. DurableSegments'
    <2>1. \A u \in DOMAIN versions' : \A s \in versions'[u].rotated : s.inode \in 1 .. Len(data)
      BY <1>8 DEF Directory, Segment
    <2> QED BY <1>2, <1>3, <1>5, <2>1 DEF DurableSegments
  <1>11. NotTooLong'
    <2> SUFFICES ASSUME NEW i \in 1 .. Len(data) PROVE Together(data'[i], << >>)
      BY <1>2, <1>6 DEF NotTooLong, Together
    <2>1. Together(data[i], << >>)
      BY <1>1 DEF NotTooLong
    <2>2. Len(data'[i]) + 0 =< Len(data[i]) + 0
      BY <1>1, <1>4, <1>5
    <2>3. Range(data'[i]) \cup {} \subseteq Range(data[i]) \cup {}
      BY <1>5
    <2> QED BY <1>1, <1>5, <2>1, <2>2, <2>3, EmptyRange, TogetherStill
  <1>12. NotSplit'
    <2>1. \A i, j \in 1 .. Len(data) : i # j => Range(data'[i]) \cap Range(data'[j]) = {}
      BY <1>1, <1>5 DEF NotSplit
    <2>2. \A i \in 1 .. Len(data) : Range(data'[i]) \subseteq 1 .. records
      BY <1>1, <1>5 DEF NotSplit
    <2> QED BY <1>2, <1>6, <2>1, <2>2, EmptyRange DEF NotSplit
  <1>13. InHand'
    BY <1>2, DownHands
  <1>14. BufferTypes' /\ ControlTypes'
    BY <1>1, <1>2, EmptyRange, Constants DEF BufferTypes, ControlTypes
  <1> QED BY <1>8, <1>9, <1>10, <1>11, <1>12, <1>13, <1>14, AllTyped DEF SinkInv
----------------------------------------------------------------------------
(***************************************************************************)
(* Every reachable state.                                                  *)
(***************************************************************************)
LEMMA SinkInit == Init => SinkInv
  <1> SUFFICES ASSUME Init PROVE SinkInv
    OBVIOUS
  <1>1. data = << >> /\ synced = << >> /\ w = << >> /\ Len(data) = 0
    BY EmptyRange DEF Init
  <1>2. data \in Seq(Seq(Byte)) /\ synced \in Seq(Nat) /\ Len(synced) = 0 /\ 1 .. Len(data) = {}
    BY <1>1, EmptySeq
  <1>3. PICK d \in Directory(0) : d.current = 0 /\ d.rotated = {} /\ versions = <<d>>
    BY DEF Init, Directory
  <1>4. /\ versions \in Seq(Directory(Len(data))) /\ Len(versions) = 1 /\ versions[1] = d
        /\ versions # << >> /\ Dir = d
    BY <1>1, <1>3, OnlyOne DEF Dir
  <1>5. \A v \in 1 .. Len(versions) : versions[v] = d
    BY <1>4
  <1>6. DOMAIN data = {} /\ DOMAIN versions = 1 .. Len(versions)
    BY <1>2, <1>4, SeqOver
  <1>7. DiskTypes
    BY <1>1, <1>2, <1>4, <1>6 DEF DiskTypes
  <1>8. BufferTypes /\ ControlTypes
    <2>1. w \in Seq(Byte) /\ Len(w) = 0
      BY <1>1, EmptyRange
    <2>2. BufferTypes
      BY <2>1, Constants DEF Init, BufferTypes
    <2>3. time \in 0 .. TimeBound /\ runs \in 0 .. RunBound /\ writers \in 0 .. Writers
      BY Constants DEF Init
    <2>4. failed \in BOOLEAN /\ steady \in BOOLEAN
      BY DEF Init
    <2>5. ControlTypes
      BY <2>3, <2>4 DEF Init, ControlTypes
    <2> QED BY <2>2, <2>5
  <1>9. Dirs /\ DurableSegments
    <2>1. \A v \in 1 .. Len(versions) : versions[v].rotated = {}
      BY <1>3, <1>5
    <2>2. \A v \in 1 .. Len(versions) : \A u \in 1 .. v : u \in 1 .. Len(versions)
      BY <1>4
    <2>3. Dirs
      BY <2>1, <2>2, FS_EmptySet DEF Dirs
    <2>4. DurableSegments
      BY <1>6, <2>1 DEF Init, DurableSegments
    <2> QED BY <2>3, <2>4
  <1>10. InHand
    BY DEF Init, InHand, Rotating
  <1>11. NotTooLong /\ NotSplit
    BY <1>1, <1>2, EmptyRange DEF Init, NotTooLong, NotSplit
  <1> QED BY <1>7, <1>8, <1>9, <1>10, <1>11, AllTypes DEF SinkInv

LEMMA SinkStutter == ASSUME SinkInv, UNCHANGED vars PROVE SinkInv'
  <1>1. UNCHANGED <<data, synced, versions, time, runs, pc, file, writer, w, size, pending>>
        /\ UNCHANGED <<writers, failed, records, stream, steady>>
    BY DEF vars, disk, sinkVars, history
  <1>2. TypeOK' /\ InHand' /\ Dirs'
    BY <1>1 DEF SinkInv, TypeOK, InHand, Dirs, Dir
  <1>3. DurableSegments' /\ NotTooLong' /\ NotSplit'
    BY <1>1 DEF SinkInv, DurableSegments, NotTooLong, Together, NotSplit, Dir
  <1> QED BY <1>2, <1>3 DEF SinkInv

LEMMA SinkStep == ASSUME SinkInv, [Next]_vars PROVE SinkInv'
  <1>1. CASE Start
    BY <1>1, StartKeeps
  <1>2. CASE \E n \in Sizes : WriteRecord(n)
    BY <1>2, WriteRecordKeeps
  <1>3. CASE Flush
    BY <1>3, FlushKeeps
  <1>4. CASE RotateFlush
    BY <1>4, RotateFlushKeeps
  <1>5. CASE RotateSync
    BY <1>5, RotateSyncKeeps
  <1>6. CASE RotateClose
    BY <1>6, RotateCloseKeeps
  <1>7. CASE RotateRename
    BY <1>7, RotateRenameKeeps
  <1>8. CASE RotateSyncDir \/ RetainSyncDir
    BY <1>8, SyncDirKeeps
  <1>9. CASE Retain
    BY <1>9, RetainKeeps
  <1>10. CASE Reopen
    BY <1>10, ReopenKeeps
  <1>11. CASE WriteAfterRotation
    BY <1>11, WriteAfterRotationKeeps
  <1>12. CASE RotateFails
    BY <1>12, RotateFailsKeeps
  <1>13. CASE WriterEnds
    BY <1>13, WriterEndsKeeps
  <1>14. CASE Close
    BY <1>14, CloseKeeps
  <1>15. CASE Kill
    BY <1>15, KillKeeps
  <1>16. CASE PowerLoss
    BY <1>16, PowerLossKeeps
  <1>17. CASE UNCHANGED vars
    BY <1>17, SinkStutter
  <1> QED BY <1>1, <1>2, <1>3, <1>4, <1>5, <1>6, <1>7, <1>8, <1>9, <1>10, <1>11, <1>12, <1>13,
             <1>14, <1>15, <1>16, <1>17 DEF Next

\* In every reachable state the invariant holds: whatever has failed, wherever a process
\* was killed or the power lost.
THEOREM SinkInvariant == Spec => []SinkInv
  <1> QED BY SinkInit, SinkStep, PTL DEF Spec

\* What the steps keep says what Segments does.
LEMMA SegmentsWhole == SinkInv => Segments
  <1> SUFFICES ASSUME SinkInv PROVE Segments
    OBVIOUS
  <1>1. /\ TypeOK /\ Dirs /\ NotTooLong /\ NotSplit
        /\ DOMAIN data = 1 .. Len(data) /\ Dir = versions[Len(versions)]
        /\ Len(versions) \in 1 .. Len(versions)
        /\ Dir \in Directory(Len(data))
    <2>1. TypeOK /\ Dirs /\ NotTooLong /\ NotSplit
      BY DEF SinkInv
    <2> QED BY <2>1, DiskOver
  <1>2. ASSUME NEW i \in 1 .. Len(data), ~(Len(data[i]) =< MaxBytes)
        PROVE  Cardinality(Range(data[i])) = 1
    <2>1. data[i] \in Seq(Byte) /\ Len(data[i]) \in Nat /\ MaxBytes \in Nat
      BY <1>1, DiskOver, Constants
    <2>2. PICK r \in 1 .. RecordBound : Range(data[i]) \subseteq {r}
      <3>1. Together(data[i], << >>)
        BY <1>1 DEF NotTooLong
      <3>2. ~(Len(data[i]) + Len(<< >>) =< MaxBytes)
        BY <1>2, <2>1, EmptyRange
      <3> QED BY <3>1, <3>2 DEF Together
    <2>3. data[i][1] \in Range(data[i])
      <3>1. 1 \in 1 .. Len(data[i])
        BY <1>2, <2>1
      <3> QED BY <2>1, <3>1, SeqOver
    <2>4. Range(data[i]) = {r}
      BY <2>2, <2>3
    <2> QED BY <2>4, FS_Singleton
  <1>3. ASSUME NEW s \in Dir.rotated, NEW t \in Dir.rotated \ {s}
        PROVE  Range(data[s.inode]) \cap Range(data[t.inode]) = {}
    <2>1. s.inode \in 1 .. Len(data) /\ t.inode \in 1 .. Len(data) /\ s.inode # t.inode
      BY <1>1, <1>3 DEF Directory, Segment, Dirs
    <2> QED BY <1>1, <2>1 DEF NotSplit
  <1>4. ASSUME NEW s \in Dir.rotated, Dir.current # 0
        PROVE  Range(data[s.inode]) \cap Range(data[Dir.current]) = {}
    <2>1. s.inode \in 1 .. Len(data) /\ Dir.current \in 1 .. Len(data) /\ s.inode # Dir.current
      BY <1>1, <1>4 DEF Directory, Segment, Dirs
    <2> QED BY <1>1, <2>1 DEF NotSplit
  <1> QED BY <1>1, <1>2, <1>3, <1>4 DEF Segments, NotTooLong

\* For every MaxBytes, buffer and record: a file grows past MaxBytes for a single record
\* only, no record is split over two files, and size, which WriteRecord decides to rotate
\* by, is the length the current file will have.
THEOREM SegmentsHold == Spec => []Segments
  <1> QED BY SinkInvariant, SegmentsWhole, PTL

\* Every rotated segment is complete on stable storage, under every directory that a power
\* loss may leave, and rotate opens the next file only after the directory is synced too.
THEOREM SegmentsDurable == Spec => []DurableSegments
  <1>1. SinkInv => DurableSegments
    BY DEF SinkInv
  <1> QED BY <1>1, SinkInvariant, PTL

\* What one step does to the segments of the directory.
LEMMA SegmentsKept ==
  ASSUME SinkInv, Next, pc \notin {"retain", "down"}, pc' # "down"
  PROVE  Dir.rotated \subseteq Dir'.rotated
  <1>1. CASE UNCHANGED versions
    BY <1>1 DEF Dir
  <1>2. CASE RotateRename
    BY <1>2, RotateRenameKeeps
  <1>3. CASE RotateSyncDir
    <2>1. versions' = <<Dir>> /\ Last(<<Dir>>) = Dir
      BY <1>3, OnlyOne DEF RotateSyncDir, SyncDir
    <2> QED BY <2>1 DEF Dir
  <1>4. CASE Reopen
    <2>1. ControlTypes /\ InHand
      BY AllTypes DEF SinkInv
    <2>2. /\ pc = "open" /\ OpenCurrent /\ pc' = "put"
          /\ UNCHANGED <<time, runs, pending, writers, failed, records, stream, steady>>
      BY <1>4 DEF Reopen, history
    <2> QED BY <2>1, <2>2, OpenCurrentKeeps DEF ControlTypes, InHand, Rotating
  <1>5. CASE \E n \in Sizes : WriteRecord(n)
    BY <1>1, <1>5 DEF WriteRecord, Put, disk
  <1>6. CASE Flush \/ RotateFlush \/ RotateSync \/ RotateClose \/ WriteAfterRotation \/ RotateFails
    BY <1>1, <1>6 DEF Flush, RotateFlush, RotateSync, RotateClose, WriteAfterRotation, Put,
                      RotateFails, disk
  <1>7. CASE WriterEnds \/ Close \/ Kill
    BY <1>1, <1>7 DEF WriterEnds, Close, Kill, disk
  <1>8. ~(Start \/ Retain \/ RetainSyncDir \/ PowerLoss)
    BY DEF Start, Retain, RetainSyncDir, PowerLoss
  <1> QED BY <1>2, <1>3, <1>4, <1>5, <1>6, <1>7, <1>8 DEF Next

\* A rotation never takes the name of a segment that exists, whatever the clock says: a
\* process that runs removes a segment through retention only.
THEOREM SegmentsStay == Spec => SegmentsSurvive
  <1>1. SinkInv /\ [Next]_vars =>
          [pc \notin {"retain", "down"} /\ pc' # "down" =>
             \A s \in Dir.rotated : s \in Dir'.rotated]_vars
    BY SegmentsKept
  <1> QED BY <1>1, SinkInvariant, PTL DEF Spec, SegmentsSurvive
----------------------------------------------------------------------------
(***************************************************************************)
(* The order of records.                                                   *)
(***************************************************************************)
Ascending(x) == \A i, j \in 1 .. Len(x) : i < j => x[i] =< x[j]
NotAfter(x, y) == \A a \in Range(x), b \in Range(y) : a =< b
Before(x, y) == \A a \in Range(x), b \in Range(y) : a < b

\* The segments of a directory come before its current file and the buffer, and,
\* while the clock moves forward, one before the other as their names say.
InTurn(d) ==
  \A s \in d.rotated :
    /\ d.current # 0 => Before(data[s.inode], data[d.current])
    /\ Before(data[s.inode], w)
    /\ steady => /\ s.time =< time
                 /\ \A t \in d.rotated : Earlier(s, t) => Before(data[s.inode], data[t.inode])

\* Files, buffer and every directory that may come back have the records as written.
Order ==
  /\ \A i \in 1 .. Len(data) : Ascending(data[i])
  /\ Ascending(w)
  /\ Dir.current # 0 => NotAfter(data[Dir.current], w)
  /\ \A v \in 1 .. Len(versions) : InTurn(versions[v])

LEMMA EmptyInOrder ==
  /\ Ascending(<< >>)
  /\ \A x : NotAfter(x, << >>) /\ Before(x, << >>) /\ Before(<< >>, x)
  BY EmptyRange DEF Ascending, NotAfter, Before

LEMMA AscendingParts ==
  ASSUME NEW all \in Seq(Byte), NEW n \in 0 .. Len(all), Ascending(all)
  PROVE  /\ Ascending(SubSeq(all, 1, n)) /\ Ascending(SubSeq(all, n + 1, Len(all)))
         /\ NotAfter(SubSeq(all, 1, n), SubSeq(all, n + 1, Len(all)))
  <1> DEFINE a == SubSeq(all, 1, n)
             b == SubSeq(all, n + 1, Len(all))
  <1>1. Len(all) \in Nat /\ \A i \in 1 .. Len(all) : all[i] \in Byte
    BY SeqOver
  <1>2. /\ a \in Seq(Byte) /\ Len(a) = n /\ \A i \in 1 .. n : a[i] = all[i]
    BY <1>1, SubSeqProperties
  <1>3. /\ b \in Seq(Byte) /\ Len(b) = Len(all) - n
        /\ \A i \in 1 .. Len(all) - n : b[i] = all[n + i]
    BY <1>1, SubSeqProperties
  <1> HIDE DEF a, b
  <1>4. Ascending(a)
    BY <1>1, <1>2 DEF Ascending
  <1>5. Ascending(b)
    <2> SUFFICES ASSUME NEW i \in 1 .. Len(b), NEW j \in 1 .. Len(b), i < j PROVE b[i] =< b[j]
      BY DEF Ascending
    <2>1. n + i \in 1 .. Len(all) /\ n + j \in 1 .. Len(all) /\ n + i < n + j
      BY <1>1, <1>3
    <2>2. all[n + i] =< all[n + j]
      BY <2>1 DEF Ascending
    <2> QED BY <1>3, <2>2
  <1>6. NotAfter(a, b)
    <2>1. ASSUME NEW i \in 1 .. n, NEW j \in 1 .. Len(all) - n
          PROVE  a[i] =< b[j]
      <3>1. i \in 1 .. Len(all) /\ n + j \in 1 .. Len(all) /\ i < n + j
        BY <1>1
      <3>2. all[i] =< all[n + j]
        BY <3>1 DEF Ascending
      <3> QED BY <1>2, <1>3, <3>2
    <2>2. Range(a) = {a[i] : i \in 1 .. n} /\ Range(b) = {b[j] : j \in 1 .. Len(all) - n}
      BY <1>2, <1>3, SeqOver
    <2> QED BY <2>1, <2>2 DEF NotAfter
  <1> QED BY <1>4, <1>5, <1>6 DEF a, b

LEMMA AscendingJoined ==
  ASSUME NEW x \in Seq(Byte), NEW y \in Seq(Byte), Ascending(x), Ascending(y), NotAfter(x, y)
  PROVE  Ascending(x \o y)
  <1> DEFINE u == x \o y
  <1>1. /\ Len(x) \in Nat /\ Len(y) \in Nat /\ u \in Seq(Byte) /\ Len(u) = Len(x) + Len(y)
        /\ \A i \in 1 .. Len(x) + Len(y) : u[i] = IF i =< Len(x) THEN x[i] ELSE y[i - Len(x)]
    BY ConcatProperties, LenProperties
  <1> HIDE DEF u
  <1> SUFFICES ASSUME NEW i \in 1 .. Len(u), NEW j \in 1 .. Len(u), i < j PROVE u[i] =< u[j]
    BY DEF Ascending, u
  <1>2. CASE j =< Len(x)
    <2>1. i \in 1 .. Len(x) /\ j \in 1 .. Len(x) /\ u[i] = x[i] /\ u[j] = x[j]
      BY <1>1, <1>2
    <2> QED BY <2>1 DEF Ascending
  <1>3. CASE i > Len(x)
    <2>1. /\ i - Len(x) \in 1 .. Len(y) /\ j - Len(x) \in 1 .. Len(y) /\ i - Len(x) < j - Len(x)
          /\ u[i] = y[i - Len(x)] /\ u[j] = y[j - Len(x)]
      BY <1>1, <1>3
    <2>2. y[i - Len(x)] =< y[j - Len(x)]
      BY <2>1 DEF Ascending
    <2> QED BY <2>1, <2>2
  <1>4. CASE i =< Len(x) /\ j > Len(x)
    <2>1. /\ i \in 1 .. Len(x) /\ j - Len(x) \in 1 .. Len(y)
          /\ u[i] = x[i] /\ u[j] = y[j - Len(x)]
      BY <1>1, <1>4
    <2>2. x[i] \in Range(x) /\ y[j - Len(x)] \in Range(y)
      BY <2>1, SeqOver
    <2> QED BY <2>1, <2>2 DEF NotAfter
  <1> QED BY <1>1, <1>2, <1>3, <1>4

LEMMA WholeSeq ==
  ASSUME NEW S, NEW x \in Seq(S)
  PROVE  SubSeq(x, 1, Len(x)) = x /\ Len(x) \in 0 .. Len(x)
  <1>1. Len(x) \in Nat /\ \A i \in 1 .. Len(x) : x[i] \in S
    BY SeqOver
  <1>2. /\ SubSeq(x, 1, Len(x)) \in Seq(S) /\ Len(SubSeq(x, 1, Len(x))) = Len(x)
        /\ \A i \in 1 .. Len(x) : SubSeq(x, 1, Len(x))[i] = x[i]
    BY <1>1, SubSeqProperties
  <1> QED BY <1>1, <1>2, SeqEqual

\* Whatever is written, a directory stays in order: only its current file gets
\* longer, by what was buffered or is new.
LEMMA OrderKept ==
  ASSUME SinkInv, Order, time' \in Int, steady' => steady /\ time =< time',
         NEW new, \A a \in 1 .. records : \A b \in new : a < b,
         \A i \in 1 .. Len(data) :
           Range(data'[i]) \subseteq Range(data[i]) \cup (IF i = Dir.current THEN Range(w) \cup new
                                                                          ELSE {}),
         Range(w') \subseteq Range(w) \cup new,
         NEW v \in 1 .. Len(versions), NEW d, d = versions[v]
  PROVE  InTurn(d)'
  <1>1. /\ d \in Directory(Len(data)) /\ Len(versions) \in Nat /\ InTurn(d)
        /\ \A s \in d.rotated : s.inode \in 1 .. Len(data) /\ s.inode # Dir.current
                                /\ s.time \in 1 .. TimeBound
        /\ d.current \in 0 .. Len(data) /\ time \in 0 .. TimeBound
        /\ TypeOK
    <2>1. TypeOK /\ Dirs
      BY DEF SinkInv
    <2>2. /\ d \in Directory(Len(data)) /\ Len(versions) \in Nat /\ Dir = versions[Len(versions)]
          /\ Len(versions) \in 1 .. Len(versions) /\ v \in 1 .. Len(versions)
      BY <2>1, DiskOver
    <2>3. \A s \in d.rotated : s.inode # Dir.current
      BY <2>1, <2>2 DEF Dirs
    <2>4. InTurn(d)
      BY DEF Order
    <2>5. time \in 0 .. TimeBound
      BY <2>1 DEF TypeOK
    <2> QED BY <2>1, <2>2, <2>3, <2>4, <2>5 DEF Directory, Segment
  <1>2. /\ \A i \in 1 .. Len(data) : Range(data[i]) \subseteq 1 .. records
        /\ Range(w) \subseteq 1 .. records
    BY DEF SinkInv, NotSplit
  <1> SUFFICES ASSUME NEW s \in d.rotated
               PROVE  /\ d.current # 0 => Before(data'[s.inode], data'[d.current])
                      /\ Before(data'[s.inode], w')
                      /\ steady' => /\ s.time =< time'
                                    /\ \A t \in d.rotated :
                                         Earlier(s, t) => Before(data'[s.inode], data'[t.inode])
    BY DEF InTurn, Before
  <1>3. /\ Range(data'[s.inode]) \subseteq Range(data[s.inode])
        /\ \A a \in Range(data[s.inode]) : a \in 1 .. records
    BY <1>1, <1>2
  <1>4. Before(data[s.inode], w) /\ (d.current # 0 => Before(data[s.inode], data[d.current]))
    BY <1>1 DEF InTurn
  <1>5. Before(data'[s.inode], w')
    BY <1>3, <1>4 DEF Before
  <1>6. ASSUME d.current # 0
        PROVE  Before(data'[s.inode], data'[d.current])
    <2>1. Range(data'[d.current]) \subseteq Range(data[d.current]) \cup Range(w) \cup new
      BY <1>1, <1>6
    <2> QED BY <1>3, <1>4, <1>6, <2>1 DEF Before
  <1>7. ASSUME steady'
        PROVE  s.time =< time'
    BY <1>1, <1>7 DEF InTurn
  <1>8. ASSUME steady', NEW t \in d.rotated, Earlier(s, t)
        PROVE  Before(data'[s.inode], data'[t.inode])
    <2>1. Before(data[s.inode], data[t.inode])
      BY <1>1, <1>8 DEF InTurn
    <2>2. Range(data'[t.inode]) \subseteq Range(data[t.inode])
      BY <1>1
    <2> QED BY <1>3, <2>1, <2>2 DEF Before
  <1> QED BY <1>5, <1>6, <1>7, <1>8

\* The first n of these bytes reach the file, the rest is buffered or lost.
LEMMA WriteInOrder ==
  ASSUME SinkInv, Order, NEW all \in Seq(Byte), NEW n \in 0 .. Len(all),
         Reach(SubSeq(all, 1, n)), n > 0 => file = "open",
         UNCHANGED <<versions, time, steady>>,
         Ascending(all), Dir.current # 0 => NotAfter(data[Dir.current], all),
         NEW new, \A a \in 1 .. records : \A b \in new : a < b,
         Range(all) \subseteq Range(w) \cup new,
         w' = << >> \/ w' = SubSeq(all, n + 1, Len(all))
  PROVE  Order'
  <1> DEFINE cur  == Dir.current
             head == SubSeq(all, 1, n)
             rest == SubSeq(all, n + 1, Len(all))
  <1>1. /\ TypeOK /\ Dir' = Dir /\ cur \in 0 .. Len(data) /\ time \in 0 .. TimeBound
        /\ file = "open" => cur \in 1 .. Len(data)
    <2>1. TypeOK /\ (file = "open" => cur # 0)
      BY DEF SinkInv, InHand
    <2> QED BY <2>1, DiskOver DEF Dir, TypeOK
  <1>2. /\ Len(data) \in Nat /\ DOMAIN data = 1 .. Len(data) /\ data \in Seq(Seq(Byte))
        /\ \A i \in 1 .. Len(data) : data[i] \in Seq(Byte) /\ Len(data[i]) \in Nat
        /\ \A i \in 1 .. Len(data) : Ascending(data[i])
    BY <1>1, DiskOver, AllTypes DEF DiskTypes, Order
  <1>3. /\ head \in Seq(Byte) /\ Range(head) \subseteq Range(all) /\ (n = 0 => head = << >>)
        /\ rest \in Seq(Byte) /\ Range(rest) \subseteq Range(all)
        /\ Ascending(head) /\ Ascending(rest) /\ NotAfter(head, rest)
        /\ Len(head) = n
    BY Parts, AscendingParts
  <1> HIDE DEF rest, head
  <1>4. Ascending(w') /\ Range(w') \subseteq Range(all) /\ \A x : NotAfter(x, rest) => NotAfter(x, w')
    BY <1>3, EmptyInOrder, EmptyRange DEF rest
  <1>5. /\ Len(data') = Len(data)
        /\ \A i \in 1 .. Len(data) : i # cur => data'[i] = data[i]
        /\ cur # 0 => /\ Ascending(data'[cur]) /\ NotAfter(data'[cur], w')
                      /\ Range(data'[cur]) \subseteq Range(data[cur]) \cup Range(all)
    <2>1. CASE head = << >>
      <3>1. data' = data
        BY <2>1 DEF Reach, head
      <3>2. cur # 0 => NotAfter(data[cur], rest)
        BY <1>3 DEF NotAfter
      <3> QED BY <1>1, <1>2, <1>4, <3>1, <3>2
    <2>2. CASE head # << >>
      <3>1. file = "open" /\ cur \in 1 .. Len(data) /\ data[cur] \in Seq(Byte) /\ cur # 0
        BY <1>1, <1>2, <1>3, <2>2
      <3> DEFINE old  == data[cur]
                 more == old \o head
      <3>2. data' = [data EXCEPT ![cur] = more]
        BY <2>2 DEF Reach, head
      <3>3. NotAfter(old, all) /\ NotAfter(old, head) /\ NotAfter(old, rest) /\ Ascending(old)
        BY <1>2, <1>3, <3>1 DEF NotAfter
      <3>4. old \in Seq(Byte)
        BY <3>1
      <3> HIDE DEF old
      <3>5. /\ more \in Seq(Byte) /\ Range(more) \subseteq Range(old) \cup Range(head)
            /\ Ascending(more)
        BY <1>3, <3>3, <3>4, JoinedOver, AscendingJoined
      <3> HIDE DEF more, cur
      <3>6. /\ Len(data') = Len(data)
            /\ \A i \in 1 .. Len(data) : data'[i] = IF i = cur THEN more ELSE data[i]
        BY <1>2, <3>1, <3>2, <3>5, ExceptSeq
      <3>7. NotAfter(more, rest)
        BY <1>3, <3>3, <3>5 DEF NotAfter
      <3> QED BY <1>3, <1>4, <3>1, <3>5, <3>6, <3>7 DEF old
    <2> QED BY <2>1, <2>2
  <1>6. \A i \in 1 .. Len(data) : Ascending(data'[i])
    BY <1>2, <1>5
  <1>7. \A i \in 1 .. Len(data) :
          Range(data'[i]) \subseteq Range(data[i]) \cup (IF i = Dir.current THEN Range(w) \cup new
                                                                         ELSE {})
    BY <1>5
  <1>8. Range(w') \subseteq Range(w) \cup new
    BY <1>4
  <1>9. ASSUME NEW v \in 1 .. Len(versions)
        PROVE  InTurn(versions[v])'
    <2>1. PICK d : d = versions[v]
      OBVIOUS
    <2>2. time' \in Int /\ (steady' => steady /\ time =< time')
      BY <1>1
    <2>3. InTurn(d)'
      BY <1>7, <1>8, <2>1, <2>2, OrderKept
    <2>4. versions'[v] = d
      BY <2>1
    <2> QED BY <2>3, <2>4 DEF InTurn
  <1> QED BY <1>1, <1>4, <1>5, <1>6, <1>9 DEF Order

\* A step after which nothing is buffered and no file is longer, and that may leave
\* another directory.
LEMMA DirsInOrder ==
  ASSUME SinkInv, Order, w' = << >>, time' \in Int, steady' => steady /\ time =< time',
         \A i \in 1 .. Len(data') : Ascending(data'[i]),
         \A i \in 1 .. Len(data) : Range(data'[i]) \subseteq Range(data[i]),
         \A u \in 1 .. Len(versions') :
           \/ \E v \in 1 .. Len(versions) : versions'[u] = versions[v]
           \/ InTurn(versions[u])'
  PROVE  Order'
  <1>1. ASSUME NEW u \in 1 .. Len(versions'), NEW v \in 1 .. Len(versions),
               versions'[u] = versions[v]
        PROVE  InTurn(versions[u])'
    <2>1. PICK d : d = versions[v]
      OBVIOUS
    <2> DEFINE new == {}
    <2>2. /\ \A a \in 1 .. records : \A b \in new : a < b
          /\ \A i \in 1 .. Len(data) :
               Range(data'[i]) \subseteq Range(data[i]) \cup (IF i = Dir.current THEN Range(w) \cup new
                                                                              ELSE {})
          /\ Range(w') \subseteq Range(w) \cup new
      BY EmptyRange
    <2> HIDE DEF new
    <2>3. InTurn(d)'
      BY <2>1, <2>2, OrderKept
    <2> QED BY <1>1, <2>1, <2>3 DEF InTurn
  <1>2. Ascending(w') /\ NotAfter(data'[Dir'.current], w')
    BY EmptyInOrder
  <1> QED BY <1>1, <1>2 DEF Order

\* A step that leaves files, buffer and directories as they are.
LEMMA QuietOrder ==
  ASSUME Order, UNCHANGED <<data, w, versions, time, steady>>
  PROVE  Order'
  <1>1. Dir' = Dir
    BY DEF Dir
  <1> QED BY <1>1 DEF Order, InTurn, Ascending, NotAfter, Before

\* The record that Put adds is the newest.
LEMMA PutInOrder ==
  ASSUME SinkInv, Order, NEW n \in Sizes, Put(n), records < RecordBound
  PROVE  Order'
  <1> DEFINE bytes == [i \in 1 .. n |-> records + 1]
             all   == w \o bytes
             out   == Spilled(bytes)
             new   == {records + 1}
  <1>1. /\ TypeOK /\ w \in Seq(Byte) /\ Len(w) \in Nat
        /\ n \in Nat /\ n >= 1 /\ BufferSize \in Nat /\ records \in Nat /\ records + 1 \in Byte
    <2>1. TypeOK
      BY DEF SinkInv
    <2> QED BY <2>1, DiskOver, AllTypes, Constants DEF BufferTypes, Byte
  <1>2. /\ \A i \in 1 .. Len(data) : Range(data[i]) \subseteq 1 .. records
        /\ Range(w) \subseteq 1 .. records
        /\ Dir.current \in 0 .. Len(data)
    BY <1>1, DiskOver DEF SinkInv, NotSplit
  <1>3. /\ bytes \in Seq(Byte) /\ Len(bytes) = n /\ Range(bytes) \subseteq new
        /\ Ascending(bytes)
    <2>1. bytes \in [1 .. n -> Byte]
      BY <1>1
    <2>2. bytes \in Seq(Byte) /\ Len(bytes) = n
      BY <1>1, <2>1, IsASeq
    <2> QED BY <1>1, <2>1, <2>2 DEF Range, Ascending
  <1>4. UNCHANGED <<versions, time, file, steady>>
    BY DEF Put
  <1>5. \/ writer = "good" /\ (IF out = 0 THEN w' = all /\ UNCHANGED <<data, writer>>
                                          ELSE WriteOut(all, out))
        \/ writer = "good" /\ out > 0 /\ WriteOutFails(all, out)
        \/ UNCHANGED <<data, w>>
    BY DEF Put
  <1> HIDE DEF bytes
  <1>6. /\ all \in Seq(Byte) /\ Len(all) = Len(w) + n /\ Range(all) \subseteq Range(w) \cup new
    BY <1>1, <1>3, JoinedOver
  <1>7. Ascending(all)
    <2>1. NotAfter(w, bytes)
      BY <1>1, <1>2, <1>3 DEF NotAfter
    <2> QED BY <1>1, <1>3, <2>1, AscendingJoined DEF Order
  <1>8. Dir.current # 0 => NotAfter(data[Dir.current], all)
    <2> SUFFICES ASSUME Dir.current # 0 PROVE NotAfter(data[Dir.current], all)
      OBVIOUS
    <2>1. NotAfter(data[Dir.current], w) /\ Range(data[Dir.current]) \subseteq 1 .. records
      BY <1>2 DEF Order
    <2>2. \A a \in 1 .. records : \A b \in new : a =< b
      BY <1>1
    <2> HIDE DEF all, new
    <2> QED BY <1>6, <2>1, <2>2 DEF NotAfter
  <1>9. out \in 0 .. Len(all)
    <2>1. out = IF Len(all) - BufferSize =< 0 THEN 0
                ELSE IF w = << >> \/ Len(all) - BufferSize > BufferSize THEN Len(all)
                ELSE BufferSize
      BY DEF Spilled
    <2> HIDE DEF all, out
    <2> QED BY <1>1, <1>6, <2>1
  <1>10. \A a \in 1 .. records : \A b \in new : a < b
    BY <1>1
  <1> HIDE DEF all, out, new
  <1>11. CASE writer = "good" /\ out = 0 /\ w' = all /\ UNCHANGED <<data, writer>>
    <2>1. PICK m \in 0 .. Len(all) : m = 0
      BY <1>1, <1>6
    <2>2. SubSeq(all, 1, m) = << >>
      BY <1>6, <2>1, Parts
    <2>3. Reach(SubSeq(all, 1, m)) /\ ~(m > 0)
      BY <1>11, <2>1, <2>2 DEF Reach
    <2>4. w' = SubSeq(all, m + 1, Len(all))
      <3>1. SubSeq(all, 1, Len(all)) = all /\ m + 1 = 1
        BY <1>6, <2>1, WholeSeq
      <3> QED BY <1>11, <3>1
    <2> QED BY <1>4, <1>6, <1>7, <1>8, <1>10, <2>3, <2>4, WriteInOrder
  <1>12. CASE WriteOut(all, out)
    <2>1. file = "open" /\ Reach(SubSeq(all, 1, out)) /\ w' = SubSeq(all, out + 1, Len(all))
      BY <1>12 DEF WriteOut
    <2> QED BY <1>4, <1>6, <1>7, <1>8, <1>9, <1>10, <2>1, WriteInOrder
  <1>13. CASE out > 0 /\ WriteOutFails(all, out)
    <2>1. PICK part \in 0 .. out - 1 : (part > 0 => file = "open") /\ Reach(SubSeq(all, 1, part))
      BY <1>13 DEF WriteOutFails
    <2>2. part \in 0 .. Len(all) /\ w' = << >>
      BY <1>1, <1>6, <1>9, <1>13 DEF WriteOutFails
    <2> QED BY <1>4, <1>6, <1>7, <1>8, <1>10, <2>1, <2>2, WriteInOrder
  <1>14. CASE UNCHANGED <<data, w>>
    BY <1>4, <1>14, QuietOrder
  <1> QED BY <1>5, <1>11, <1>12, <1>13, <1>14

\* So does what Flush, rotate and Close write of the buffer.
LEMMA BufferInOrder ==
  ASSUME SinkInv, Order, NEW n \in 0 .. Len(w), Reach(SubSeq(w, 1, n)), n > 0 => file = "open",
         UNCHANGED <<versions, time, steady>>, w' = << >> \/ w' = SubSeq(w, n + 1, Len(w))
  PROVE  Order'
  <1>1. w \in Seq(Byte)
    BY DiskOver DEF SinkInv
  <1>2. Ascending(w) /\ (Dir.current # 0 => NotAfter(data[Dir.current], w))
    BY DEF Order
  <1> DEFINE new == {}
  <1>3. (\A a \in 1 .. records : \A b \in new : a < b) /\ Range(w) \subseteq Range(w) \cup new
    OBVIOUS
  <1> HIDE DEF new
  <1> QED BY <1>1, <1>2, <1>3, WriteInOrder

LEMMA BufferOutInOrder ==
  ASSUME SinkInv, Order, WriteOut(w, Len(w)) \/ WriteOutFails(w, Len(w)),
         UNCHANGED <<versions, time, steady>>
  PROVE  Order'
  <1>1. w \in Seq(Byte) /\ Len(w) \in Nat
    BY DiskOver DEF SinkInv
  <1>2. CASE WriteOut(w, Len(w))
    <2>1. PICK n \in 0 .. Len(w) : n = Len(w)
      BY <1>1
    <2>2. file = "open" /\ Reach(SubSeq(w, 1, n)) /\ w' = SubSeq(w, n + 1, Len(w))
      BY <1>2, <2>1 DEF WriteOut
    <2> QED BY <2>2, BufferInOrder
  <1>3. CASE WriteOutFails(w, Len(w))
    <2>1. PICK part \in 0 .. Len(w) - 1 :
            (part > 0 => file = "open") /\ Reach(SubSeq(w, 1, part))
      BY <1>3 DEF WriteOutFails
    <2>2. part \in 0 .. Len(w) /\ w' = << >>
      BY <1>1, <1>3 DEF WriteOutFails
    <2> QED BY <2>1, <2>2, BufferInOrder
  <1> QED BY <1>2, <1>3

\* A step of a process that has nothing in its buffer.
LEMMA EmptyStays ==
  ASSUME SinkInv, Order, w' = << >>, UNCHANGED <<data, versions, time, steady>>
  PROVE  Order'
  <1>1. time' \in Int /\ (steady' => steady /\ time =< time')
    <2>1. time \in 0 .. TimeBound
      BY DEF SinkInv, TypeOK
    <2> QED BY <2>1
  <1>2. \A i \in 1 .. Len(data') : Ascending(data'[i])
    BY DEF Order
  <1>3. \A u \in 1 .. Len(versions') : \E v \in 1 .. Len(versions) : versions'[u] = versions[v]
    OBVIOUS
  <1> QED BY <1>1, <1>2, <1>3, DirsInOrder

LEMMA RotateInOrder ==
  ASSUME SinkInv, Order,
         RotateFlush \/ RotateSync \/ RotateClose \/ RotateFails
  PROVE  Order'
  <1>1. CASE RotateFlush
    <2>1. UNCHANGED <<versions, time, steady>>
      BY <1>1 DEF RotateFlush, history
    <2>2. CASE w = << >> /\ UNCHANGED <<data, w, writer>>
      BY <2>1, <2>2, QuietOrder
    <2>3. CASE WriteOut(w, Len(w))
      BY <2>1, <2>3, BufferOutInOrder
    <2> QED BY <1>1, <2>2, <2>3 DEF RotateFlush
  <1>2. CASE RotateSync \/ RotateClose
    BY <1>2, QuietOrder DEF RotateSync, RotateClose, sinkVars, history, disk
  <1>3. CASE RotateFails
    <2>1. UNCHANGED <<versions, time, steady>>
      BY <1>3 DEF RotateFails
    <2>2. CASE WriteOutFails(w, Len(w))
      BY <2>1, <2>2, BufferOutInOrder
    <2>3. CASE UNCHANGED <<data, w>>
      BY <2>1, <2>3, QuietOrder
    <2> QED BY <1>3, <2>2, <2>3 DEF RotateFails
  <1> QED BY <1>1, <1>2, <1>3

LEMMA WriteRecordInOrder ==
  ASSUME SinkInv, Order, NEW n \in Sizes, WriteRecord(n)
  PROVE  Order'
  <1>1. CASE UNCHANGED <<disk, time, runs, sinkVars, writers, failed, history>>
    BY <1>1, QuietOrder DEF disk, sinkVars, history
  <1>2. CASE Put(n) /\ records < RecordBound
    BY <1>2, PutInOrder
  <1> QED BY <1>1, <1>2 DEF WriteRecord

LEMMA FlushInOrder == ASSUME SinkInv, Order, Flush PROVE Order'
  <1>1. UNCHANGED <<versions, time, steady>>
    BY DEF Flush
  <1>2. CASE WriteOut(w, Len(w)) \/ WriteOutFails(w, Len(w))
    BY <1>1, <1>2, BufferOutInOrder
  <1>3. CASE UNCHANGED <<data, w>>
    BY <1>1, <1>3, QuietOrder
  <1> QED BY <1>2, <1>3 DEF Flush

LEMMA EndInOrder == ASSUME SinkInv, Order, WriterEnds \/ Close \/ Kill PROVE Order'
  <1>1. CASE WriterEnds
    BY <1>1, QuietOrder DEF WriterEnds, disk, sinkVars, history
  <1>2. CASE Close
    <2>1. w' = << >> /\ UNCHANGED <<versions, time, steady>>
      BY <1>2 DEF Close
    <2>2. PICK n \in 0 .. Len(w) : Reach(SubSeq(w, 1, n)) /\ (n > 0 => file = "open")
      <3>1. SubSeq(w, 1, Len(w)) = w /\ Len(w) \in 0 .. Len(w)
        BY DiskOver, WholeSeq DEF SinkInv
      <3> QED BY <1>2, <3>1 DEF Close
    <2> QED BY <2>1, <2>2, BufferInOrder
  <1>3. CASE Kill
    BY <1>3, EmptyStays DEF Kill, disk
  <1> QED BY <1>1, <1>2, <1>3

\* Where the changes of a directory are noted, one more is.
LEMMA OneMore ==
  ASSUME SinkInv, NEW d, ChangeDir(d)
  PROVE  \A u \in 1 .. Len(versions') :
           (\E v \in 1 .. Len(versions) : versions'[u] = versions[v]) \/ versions'[u] = d
  <1>1. versions \in Seq(Directory(Len(data))) /\ Len(versions) \in Nat
    BY AllTypes, SeqOver DEF SinkInv, DiskTypes
  <1>2. PICK S : S = Directory(Len(data)) \cup {d}
    OBVIOUS
  <1>3. versions \in Seq(S) /\ d \in S
    <2>1. \A v \in 1 .. Len(versions) : versions[v] \in S
      BY <1>1, <1>2, SeqOver
    <2>2. versions = [v \in 1 .. Len(versions) |-> versions[v]]
      BY <1>1, SeqOver
    <2> QED BY <1>1, <1>2, <2>1, <2>2, IsASeq
  <1>4. /\ Len(versions') = Len(versions) + 1
        /\ \A v \in 1 .. Len(versions) : versions'[v] = versions[v]
        /\ versions'[Len(versions) + 1] = d
    BY <1>3, AppendProperties DEF ChangeDir
  <1>5. \A u \in 1 .. Len(versions') : u \in 1 .. Len(versions) \/ u = Len(versions) + 1
    BY <1>1, <1>4
  <1> QED BY <1>4, <1>5

\* Where rotate renames and removes, nothing is open or buffered.
LEMMA NoBuffer ==
  ASSUME SinkInv
  PROVE  pc \in {"rename", "syncdir", "retain", "open", "down"} => w = << >>
  BY DEF SinkInv, InHand

LEMMA SyncDirInOrder == ASSUME SinkInv, Order, RotateSyncDir \/ RetainSyncDir PROVE Order'
  <1>1. /\ w' = << >> /\ versions' = <<Dir>> /\ UNCHANGED <<data, time, steady>>
    BY NoBuffer DEF RotateSyncDir, RetainSyncDir, SyncDir, sinkVars, history
  <1>2. time' \in Int /\ (steady' => steady /\ time =< time')
    <2>1. time \in 0 .. TimeBound
      BY DEF SinkInv, TypeOK
    <2> QED BY <1>1, <2>1
  <1>3. \A u \in 1 .. Len(versions') : \E v \in 1 .. Len(versions) : versions'[u] = versions[v]
    <2>1. Dir = versions[Len(versions)] /\ Len(versions) \in 1 .. Len(versions)
      BY DiskOver DEF SinkInv
    <2>2. Len(versions') = 1 /\ versions'[1] = Dir
      BY <1>1
    <2>3. \A u \in 1 .. Len(versions') : versions'[u] = Dir
      BY <2>2
    <2> QED BY <2>1, <2>3
  <1>4. \A i \in 1 .. Len(data') : Ascending(data'[i])
    BY <1>1 DEF Order
  <1> QED BY <1>1, <1>2, <1>3, <1>4, DirsInOrder

\* The directory that processes see is one of them.
LEMMA LastInTurn ==
  ASSUME SinkInv, Order
  PROVE  InTurn(Dir)
  BY DiskOver DEF SinkInv, Order

LEMMA RetainInOrder == ASSUME SinkInv, Order, Retain PROVE Order'
  <1> DEFINE d == [Dir EXCEPT !.rotated = @ \ {RotatedFiles(Dir)[1]}]
  <1>1. /\ w' = << >> /\ ChangeDir(d) /\ UNCHANGED <<data, time, steady>>
    BY NoBuffer DEF Retain, sinkVars, history
  <1>2. d.rotated \subseteq Dir.rotated /\ d.current = Dir.current
    BY DiskOver DEF SinkInv, Directory
  <1> HIDE DEF d
  <1>3. PICK e : e = d
    OBVIOUS
  <1>4. InTurn(e)'
    <2>1. InTurn(Dir)
      BY LastInTurn
    <2>2. \A x : Before(x, << >>)
      BY EmptyInOrder
    <2> QED BY <1>1, <1>2, <1>3, <2>1, <2>2 DEF InTurn, Before
  <1>5. \A u \in 1 .. Len(versions') :
          (\E v \in 1 .. Len(versions) : versions'[u] = versions[v]) \/ versions'[u] = e
    BY <1>1, <1>3, OneMore
  <1>6. \A u \in 1 .. Len(versions') : versions'[u] = e => InTurn(versions[u])'
    BY <1>4 DEF InTurn
  <1>7. time' \in Int /\ (steady' => steady /\ time =< time')
    <2>1. time \in 0 .. TimeBound
      BY DEF SinkInv, TypeOK
    <2> QED BY <1>1, <2>1
  <1>8. \A i \in 1 .. Len(data') : Ascending(data'[i])
    BY <1>1 DEF Order
  <1> QED BY <1>1, <1>5, <1>6, <1>7, <1>8, DirsInOrder

\* The new segment has the latest records and, while the clock moves forward, the
\* latest name.
LEMMA RenameInOrder == ASSUME SinkInv, Order, RotateRename PROVE Order'
  <1>1. PICK t \in 1 .. TimeBound :
          /\ time' = t /\ steady' = (steady /\ t > time)
          /\ ChangeDir([current |-> 0,
                        rotated |->
                          {s \in Dir.rotated : s.time # t \/ s.suffix # RotationPath(t)} \cup
                            {[time |-> t, suffix |-> RotationPath(t), inode |-> Dir.current]}])
    BY DEF RotateRename
  <1> DEFINE kept == {s \in Dir.rotated : s.time # t \/ s.suffix # RotationPath(t)}
             new  == [time |-> t, suffix |-> RotationPath(t), inode |-> Dir.current]
             d    == [current |-> 0, rotated |-> kept \cup {new}]
  <1>2. ChangeDir(d)
    BY <1>1
  <1>3. /\ w' = << >> /\ UNCHANGED data /\ Dir.current # 0
    BY NoBuffer DEF RotateRename, sinkVars, SinkInv, InHand
  <1>4. /\ d.current = 0 /\ d.rotated = kept \cup {new} /\ kept \subseteq Dir.rotated
        /\ new.time = t /\ new.inode = Dir.current
    OBVIOUS
  <1>5. /\ time \in Int /\ t \in Int /\ \A s \in Dir.rotated : s.time \in Int
        /\ steady' => steady /\ t > time
    <2>1. TypeOK /\ time \in 0 .. TimeBound /\ TimeBound \in Nat
      BY Constants DEF SinkInv, TypeOK
    <2>2. Dir.rotated \subseteq Segment(Len(data))
      BY <2>1, DiskOver
    <2>3. steady' => steady /\ t > time
      BY <1>1, Zenon
    <2> QED BY <2>1, <2>2, <2>3 DEF Segment
  <1> HIDE DEF d, kept, new
  <1>6. PICK e : e = d
    OBVIOUS
  <1>7. InTurn(e)'
    <2>1. InTurn(Dir)
      BY LastInTurn
    <2>2. \A x : Before(x, << >>)
      BY EmptyInOrder
    <2>3. ASSUME NEW s \in d.rotated, steady'
          PROVE  s.time =< t
      <3>1. CASE s = new
        BY <1>4, <1>5, <3>1
      <3>2. CASE s \in Dir.rotated
        <4>1. s.time =< time
          BY <1>5, <2>1, <2>3, <3>2 DEF InTurn
        <4> QED BY <1>5, <2>3, <3>2, <4>1
      <3> QED BY <1>4, <3>1, <3>2
    <2>4. ASSUME NEW s \in d.rotated, NEW u \in d.rotated, steady', Earlier(s, u)
          PROVE  Before(data[s.inode], data[u.inode])
      <3>1. s # new
        <4>1. s.time =< u.time
          <5>1. s.time < u.time \/ s.time = u.time
            BY <2>4 DEF Earlier
          <5> QED BY <1>4, <1>5, <5>1
        <4>2. u # new => u.time =< time /\ time < t /\ u.time \in Int
          BY <1>4, <1>5, <2>1, <2>4 DEF InTurn
        <4>3. u = new => s.time < t \/ (s.time = t /\ s.suffix < new.suffix)
          BY <1>4, <2>4 DEF Earlier
        <4>4. ~(u = new /\ s = new)
          <5> SUFFICES ASSUME u = new, s = new PROVE FALSE
            OBVIOUS
          <5>1. Earlier(new, new) /\ new.suffix = RotationPath(t)
            BY <2>4 DEF new
          <5>2. RotationPath(t) \in Nat
            BY UnusedName
          <5> QED BY <1>4, <1>5, <5>1, <5>2 DEF Earlier
        <4> QED BY <1>4, <1>5, <4>1, <4>2, <4>4
      <3>2. s \in Dir.rotated
        BY <1>4, <3>1
      <3>3. CASE u = new
        BY <1>3, <1>4, <2>1, <3>2, <3>3 DEF InTurn
      <3>4. CASE u \in Dir.rotated
        BY <1>5, <2>1, <2>4, <3>2, <3>4 DEF InTurn
      <3> QED BY <1>4, <3>3, <3>4
    <2> QED BY <1>1, <1>3, <1>4, <1>6, <2>2, <2>3, <2>4 DEF InTurn, Before
  <1>8. \A u \in 1 .. Len(versions') :
          (\E v \in 1 .. Len(versions) : versions'[u] = versions[v]) \/ versions'[u] = e
    BY <1>2, <1>6, OneMore
  <1>9. \A u \in 1 .. Len(versions') : versions'[u] = e => InTurn(versions[u])'
    BY <1>7 DEF InTurn
  <1>10. time' \in Int /\ (steady' => steady /\ time =< time')
    BY <1>1, <1>5
  <1>11. \A i \in 1 .. Len(data') : Ascending(data'[i])
    BY <1>3 DEF Order
  <1> QED BY <1>3, <1>8, <1>9, <1>10, <1>11, DirsInOrder

LEMMA OpenInOrder == ASSUME SinkInv, Order, Start \/ Reopen PROVE Order'
  <1> DEFINE d == [Dir EXCEPT !.current = Len(data) + 1]
  <1>1. /\ OpenCurrent /\ w' = << >> /\ UNCHANGED <<time, steady>>
    BY DEF Start, Reopen, OpenCurrent, history
  <1>2. time' \in Int /\ (steady' => steady /\ time =< time')
    <2>1. time \in 0 .. TimeBound
      BY DEF SinkInv, TypeOK
    <2> QED BY <1>1, <2>1
  <1>3. CASE UNCHANGED disk
    BY <1>1, <1>3, EmptyStays DEF disk
  <1>4. CASE Created /\ ChangeDir(d)
    <2>1. /\ TypeOK /\ Len(data) \in Nat /\ Dir \in Directory(Len(data))
          /\ Dir.rotated \subseteq Segment(Len(data))
      BY DiskOver DEF SinkInv
    <2>2. /\ Len(data') \in {Len(data), Len(data) + 1}
          /\ \A i \in 1 .. Len(data) : data'[i] = data[i]
          /\ \A i \in 1 .. Len(data') : i > Len(data) => data'[i] = << >>
      BY <1>4, <2>1, CreatedDisk
    <2>3. Len(data') = Len(data) + 1
      <3>1. data \in Seq(Seq(Byte)) /\ << >> \in Seq(Byte)
        BY <2>1, AllTypes, EmptyRange DEF DiskTypes
      <3> QED BY <1>4, <3>1, AppendProperties DEF Created
    <2>4. data'[Len(data) + 1] = << >>
      <3>1. Len(data) + 1 \in 1 .. Len(data') /\ Len(data) + 1 > Len(data)
        BY <2>1, <2>3
      <3> QED BY <2>2, <3>1
    <2>5. d.rotated = Dir.rotated /\ d.current = Len(data) + 1
      BY <2>1 DEF Directory
    <2> HIDE DEF d
    <2>6. PICK e : e = d
      OBVIOUS
    <2>7. InTurn(e)'
      <3>1. InTurn(Dir)
        BY LastInTurn
      <3>2. \A x : Before(x, << >>)
        BY EmptyInOrder
      <3>3. \A s \in e.rotated : s.inode \in 1 .. Len(data)
        BY <2>1, <2>5, <2>6 DEF Segment
      <3>4. \A s \in e.rotated : data'[s.inode] = data[s.inode]
        BY <2>2, <3>3
      <3> QED BY <1>1, <2>4, <2>5, <2>6, <3>1, <3>2, <3>4 DEF InTurn, Before
    <2>8. \A u \in 1 .. Len(versions') :
            (\E v \in 1 .. Len(versions) : versions'[u] = versions[v]) \/ versions'[u] = e
      BY <1>4, <2>6, OneMore
    <2>9. \A u \in 1 .. Len(versions') : versions'[u] = e => InTurn(versions[u])'
      BY <2>7 DEF InTurn
    <2>10. \A i \in 1 .. Len(data') : Ascending(data'[i])
      <3>1. \A i \in 1 .. Len(data') : i \in 1 .. Len(data) \/ i > Len(data)
        BY <2>1
      <3> QED BY <2>2, <3>1, EmptyInOrder DEF Order
    <2>11. \A i \in 1 .. Len(data) : Range(data'[i]) \subseteq Range(data[i])
      BY <2>2
    <2> QED BY <1>1, <1>2, <2>8, <2>9, <2>10, <2>11, DirsInOrder
  <1> QED BY <1>1, <1>3, <1>4 DEF OpenCurrent, Created

LEMMA PowerLossInOrder == ASSUME SinkInv, Order, PowerLoss PROVE Order'
  <1>1. /\ TypeOK /\ Len(data) \in Nat /\ DOMAIN data = 1 .. Len(data)
        /\ DOMAIN versions = 1 .. Len(versions)
        /\ \A i \in 1 .. Len(data) : data[i] \in Seq(Byte) /\ Len(data[i]) \in Nat
    BY DiskOver DEF SinkInv
  <1>2. w' = << >> /\ UNCHANGED <<time, steady>>
    BY DEF PowerLoss
  <1> DEFINE M == Max({Len(data[i]) : i \in DOMAIN data} \cup {0})
  <1>3. PICK v \in DOMAIN versions, keep \in [DOMAIN data -> 0 .. M] :
          /\ \A i \in DOMAIN data : synced[i] =< keep[i] /\ keep[i] =< Len(data[i])
          /\ versions' = <<versions[v]>>
          /\ data' = [i \in DOMAIN data |-> SubSeq(data[i], 1, keep[i])]
    BY DEF PowerLoss
  <1> HIDE DEF M
  <1>4. \A i \in 1 .. Len(data) : keep[i] \in 0 .. Len(data[i])
    <2> SUFFICES ASSUME NEW i \in 1 .. Len(data) PROVE keep[i] \in 0 .. Len(data[i])
      OBVIOUS
    <2>1. keep[i] \in 0 .. M /\ keep[i] =< Len(data[i])
      BY <1>1, <1>3
    <2>2. keep[i] \in Int /\ keep[i] >= 0
      BY ONLY <2>1
    <2> QED BY <1>1, <2>1, <2>2
  <1>5. \A i \in 1 .. Len(data) :
          Ascending(data'[i]) /\ Range(data'[i]) \subseteq Range(data[i])
    <2> SUFFICES ASSUME NEW i \in 1 .. Len(data)
                 PROVE  Ascending(data'[i]) /\ Range(data'[i]) \subseteq Range(data[i])
      OBVIOUS
    <2>1. data'[i] = SubSeq(data[i], 1, keep[i])
      BY <1>1, <1>3
    <2>2. Ascending(data[i])
      BY DEF Order
    <2> QED BY <1>1, <1>4, <2>1, <2>2, Parts, AscendingParts
  <1>6. Len(data') = Len(data)
    <2>1. PICK f : f = data'
      OBVIOUS
    <2>2. DOMAIN f = 1 .. Len(data)
      BY <1>1, <1>3, <2>1
    <2>3. f \in Seq({f[i] : i \in 1 .. Len(data)}) /\ Len(f) = Len(data)
      <3>1. f = [i \in 1 .. Len(data) |-> f[i]]
        BY <1>1, <1>3, <2>1, <2>2
      <3> QED BY <1>1, <3>1, IsASeq
    <2> QED BY <2>1, <2>3
  <1>7. \A u \in 1 .. Len(versions') : \E x \in 1 .. Len(versions) : versions'[u] = versions[x]
    <2>1. Len(versions') = 1 /\ versions'[1] = versions[v]
      BY <1>3
    <2>2. \A u \in 1 .. Len(versions') : versions'[u] = versions[v]
      BY <2>1
    <2> QED BY <1>1, <2>2
  <1>8. time' \in Int /\ (steady' => steady /\ time =< time')
    <2>1. time \in 0 .. TimeBound
      BY <1>1 DEF TypeOK
    <2> QED BY <1>2, <2>1
  <1> QED BY <1>2, <1>5, <1>6, <1>7, <1>8, DirsInOrder

LEMMA OrderInit == Init => Order
  <1> SUFFICES ASSUME Init PROVE Order
    OBVIOUS
  <1>1. data = << >> /\ w = << >> /\ versions = <<[current |-> 0, rotated |-> {}]>>
    BY DEF Init
  <1>2. Len(data) = 0 /\ Len(versions) = 1 /\ Dir = versions[1] /\ versions[1].current = 0
        /\ versions[1].rotated = {}
    BY <1>1 DEF Dir, Last
  <1>3. \A v \in 1 .. Len(versions) : v = 1
    BY <1>2
  <1> QED BY <1>1, <1>2, <1>3, EmptyInOrder DEF Order, InTurn

LEMMA OrderStep == ASSUME SinkInv, Order, [Next]_vars PROVE Order'
  <1>1. CASE UNCHANGED vars
    BY <1>1, QuietOrder DEF vars, disk, sinkVars, history
  <1>2. ASSUME NEW n \in Sizes, WriteRecord(n)
        PROVE  Order'
    BY <1>2, WriteRecordInOrder
  <1>3. CASE WriteAfterRotation
    <2>1. pending \in Sizes /\ records < RecordBound /\ Put(pending)
      BY <1>3 DEF WriteAfterRotation, SinkInv, InHand
    <2> QED BY <2>1, PutInOrder
  <1> QED BY <1>1, <1>2, <1>3, FlushInOrder, RotateInOrder, RenameInOrder, SyncDirInOrder,
             RetainInOrder, OpenInOrder, EndInOrder, PowerLossInOrder
          DEF Next

(***************************************************************************)
(* Under every directory that a power loss may leave, whatever else        *)
(* failed: a file has its records in the order they were written, no       *)
(* segment has a record newer than any of the current file or of the       *)
(* buffer, and while the clock moves forward the names of the segments     *)
(* order them as their records (rotationPath, rotatedFiles).               *)
(***************************************************************************)
THEOREM RecordsInTurn == Spec => []Order
  <1>1. SinkInv /\ Order /\ [Next]_vars => SinkInv' /\ Order'
    BY SinkStep, OrderStep
  <1> QED BY <1>1, SinkInit, OrderInit, PTL DEF Spec
----------------------------------------------------------------------------
(***************************************************************************)
(* Segments as rotatedFiles sorts them.                                    *)
(***************************************************************************)

\* Segments of which no two have the same name, as rotationPath sees to.
Named(S) ==
  /\ IsFiniteSet(S)
  /\ \A s \in S : s.time \in Nat /\ s.suffix \in Nat
  /\ \A s, t \in S : s.time = t.time /\ s.suffix = t.suffix => s = t

\* The order in which q has the segments of S is that of their names.
Sorts(q, S) ==
  /\ q \in [1 .. Cardinality(S) -> S]
  /\ \A i, j \in 1 .. Cardinality(S) : i < j => Earlier(q[i], q[j])

\* A set of numbers that has 0, and the next of each that it has, has all of them.
LEMMA Induction ==
  ASSUME NEW S, 0 \in S, \A n \in Nat : n \in S => n + 1 \in S
  PROVE  \A n \in Nat : n \in S
  <1> SUFFICES ASSUME NEW n \in Nat, n \notin S PROVE FALSE
    OBVIOUS
  <1> DEFINE T == Nat \ S
  <1>1. T \subseteq Nat /\ T # {}
    OBVIOUS
  <1>2. Min(T) \in T /\ \A k \in T : Min(T) =< k
    <2> HIDE DEF T
    <2> QED BY <1>1, Least
  <1>3. Min(T) # 0 /\ Min(T) - 1 \in Nat /\ Min(T) - 1 \notin T
    BY <1>2
  <1> QED BY <1>2, <1>3

LEMMA EarlierOrders ==
  ASSUME NEW S, Named(S)
  PROVE  /\ \A s, t \in S : s = t \/ Earlier(s, t) \/ Earlier(t, s)
         /\ \A s, t \in S : ~(Earlier(s, t) /\ Earlier(t, s))
         /\ \A s, t, u \in S : Earlier(s, t) /\ Earlier(t, u) => Earlier(s, u)
  <1>1. \A s \in S : s.time \in Nat /\ s.suffix \in Nat
    BY DEF Named
  <1>2. \A s, t \in S : s.time = t.time /\ s.suffix = t.suffix => s = t
    BY DEF Named
  <1>3. ASSUME NEW s \in S, NEW t \in S
        PROVE  s = t \/ Earlier(s, t) \/ Earlier(t, s)
    <2>1. s.time \in Nat /\ s.suffix \in Nat /\ t.time \in Nat /\ t.suffix \in Nat
      BY <1>1
    <2>2. s.time = t.time /\ s.suffix = t.suffix => s = t
      BY <1>2
    <2> QED BY <2>1, <2>2 DEF Earlier
  <1> QED BY <1>1, <1>3 DEF Earlier

\* The first of them.
LEMMA Earliest ==
  ASSUME NEW S, Named(S), S # {}
  PROVE  \E e \in S : \A s \in S \ {e} : Earlier(e, s)
  <1> DEFINE T == {s.time : s \in S}
  <1>1. T \subseteq Nat /\ T # {}
    BY DEF Named
  <1>2. Min(T) \in T /\ \A n \in T : Min(T) =< n
    <2> HIDE DEF T
    <2> QED BY <1>1, Least
  <1> DEFINE K == {s.suffix : s \in {r \in S : r.time = Min(T)}}
  <1>3. K \subseteq Nat /\ K # {}
    <2>1. PICK s \in S : s.time = Min(T)
      BY <1>2
    <2>2. s.suffix \in K
      BY <2>1
    <2> QED BY <2>2 DEF Named
  <1>4. Min(K) \in K /\ \A n \in K : Min(K) =< n
    <2> HIDE DEF K
    <2> QED BY <1>3, Least
  <1>5. PICK e \in S : e.time = Min(T) /\ e.suffix = Min(K)
    BY <1>4
  <1>6. ASSUME NEW s \in S, s # e
        PROVE  Earlier(e, s)
    <2>1. e.time =< s.time /\ (s.time = e.time => e.suffix =< s.suffix)
      BY <1>2, <1>4, <1>5
    <2>2. e.time \in Nat /\ e.suffix \in Nat /\ s.time \in Nat /\ s.suffix \in Nat
      BY DEF Named
    <2>3. ~(s.time = e.time /\ s.suffix = e.suffix)
      BY <1>6 DEF Named
    <2> QED BY <2>1, <2>2, <2>3 DEF Earlier
  <1> QED BY <1>6

LEMMA NamedWithout == \A S, e : Named(S) => Named(S \ {e})
  BY FS_RemoveElement DEF Named

\* Such segments can be sorted,
LEMMA SortExists == ASSUME NEW S, Named(S) PROVE \E q : Sorts(q, S)
  <1> DEFINE N == {n \in Nat : \A R \in SUBSET S : Named(R) /\ Cardinality(R) = n =>
                                 \E q : Sorts(q, R)}
  <1>1. 0 \in N
    <2> SUFFICES ASSUME NEW R \in SUBSET S, Named(R), Cardinality(R) = 0
                 PROVE  \E q : Sorts(q, R)
      OBVIOUS
    <2>1. [i \in 1 .. 0 |-> << >>] \in [1 .. 0 -> R]
      OBVIOUS
    <2>2. Sorts([i \in 1 .. 0 |-> << >>], R)
      BY <2>1 DEF Sorts
    <2> QED BY <2>2
  <1>2. ASSUME NEW n \in Nat, n \in N
        PROVE  n + 1 \in N
    <2> SUFFICES ASSUME NEW R \in SUBSET S, Named(R), Cardinality(R) = n + 1
                 PROVE  \E q : Sorts(q, R)
      OBVIOUS
    <2>1. R # {} /\ IsFiniteSet(R)
      BY FS_EmptySet DEF Named
    <2>2. PICK e \in R : \A s \in R \ {e} : Earlier(e, s)
      BY <2>1, Earliest
    <2> DEFINE rest == R \ {e}
    <2>3. rest \in SUBSET S /\ Named(rest) /\ Cardinality(rest) = n
      <3>1. Named(rest) /\ rest \in SUBSET S
        BY NamedWithout
      <3>2. Cardinality(rest) = (n + 1) - 1
        BY <2>1, FS_RemoveElement
      <3> QED BY <3>1, <3>2
    <2>4. PICK p : Sorts(p, rest)
      BY <1>2, <2>3
    <2>5. /\ \A i \in 1 .. n : p[i] \in rest
          /\ \A i, j \in 1 .. n : i < j => Earlier(p[i], p[j])
      BY <2>3, <2>4 DEF Sorts
    <2> HIDE DEF rest
    <2> DEFINE q == [i \in 1 .. n + 1 |-> IF i = 1 THEN e ELSE p[i - 1]]
    <2>6. \A i \in 1 .. n + 1 : i # 1 => i - 1 \in 1 .. n
      OBVIOUS
    <2>7. q \in [1 .. n + 1 -> R]
      BY <2>5, <2>6 DEF rest
    <2>8. \A i, j \in 1 .. n + 1 : i < j => Earlier(q[i], q[j])
      <3> SUFFICES ASSUME NEW i \in 1 .. n + 1, NEW j \in 1 .. n + 1, i < j
                   PROVE  Earlier(q[i], q[j])
        OBVIOUS
      <3>1. j # 1 /\ j - 1 \in 1 .. n /\ q[j] = p[j - 1] /\ p[j - 1] \in rest
        BY <2>5, <2>6
      <3>2. CASE i = 1
        BY <2>2, <3>1, <3>2 DEF rest
      <3>3. CASE i # 1
        <4>1. i - 1 \in 1 .. n /\ q[i] = p[i - 1] /\ i - 1 < j - 1
          BY <2>6, <3>3
        <4> QED BY <2>5, <3>1, <4>1
      <3> QED BY <3>2, <3>3
    <2> HIDE DEF q
    <2>9. Sorts(q, R)
      BY <2>7, <2>8 DEF Sorts
    <2> QED BY <2>9
  <1> HIDE DEF N
  <1>3. \A n \in Nat : n \in N
    BY <1>1, <1>2, Induction
  <1>4. Cardinality(S) \in N
    BY <1>3, FS_CardinalityType DEF Named
  <1> QED BY <1>4 DEF N

\* each is somewhere and nowhere else,
LEMMA SortedOnce ==
  ASSUME NEW S, Named(S), NEW q, Sorts(q, S)
  PROVE  /\ Cardinality(S) \in Nat
         /\ \A i, j \in 1 .. Cardinality(S) : q[i] = q[j] => i = j
         /\ \A s \in S : \E i \in 1 .. Cardinality(S) : q[i] = s
  <1> DEFINE n == Cardinality(S)
  <1>1. n \in Nat /\ IsFiniteSet(S)
    BY FS_CardinalityType DEF Named
  <1>2. q \in [1 .. n -> S] /\ \A i, j \in 1 .. n : i < j => Earlier(q[i], q[j])
    BY DEF Sorts
  <1> HIDE DEF n
  <1>3. \A i, j \in 1 .. n : q[i] = q[j] => i = j
    <2> SUFFICES ASSUME NEW i \in 1 .. n, NEW j \in 1 .. n, q[i] = q[j], i # j PROVE FALSE
      OBVIOUS
    <2>1. i < j \/ j < i
      BY <1>1
    <2>2. Earlier(q[i], q[i]) /\ q[i] \in S
      BY <1>2, <2>1
    <2> QED BY <2>2, EarlierOrders
  <1>4. q \in Injection(1 .. n, S)
    BY <1>2, <1>3 DEF Injection, IsInjective
  <1>5. Cardinality(1 .. n) = n
    BY <1>1, FS_Interval
  <1>6. q \in Surjection(1 .. n, S)
    BY <1>1, <1>4, <1>5, FS_Injection DEF n
  <1> QED BY <1>1, <1>3, <1>6 DEF n, Surjection

\* and there is one way only.
LEMMA SortUnique ==
  ASSUME NEW S, Named(S), NEW q, Sorts(q, S), NEW r, Sorts(r, S)
  PROVE  q = r
  <1> DEFINE n == Cardinality(S)
             D == {i \in 1 .. n : q[i] # r[i]}
  <1>1. /\ n \in Nat
        /\ \A i, j \in 1 .. n : (q[i] = q[j] => i = j) /\ (r[i] = r[j] => i = j)
        /\ \A s \in S : (\E i \in 1 .. n : q[i] = s) /\ (\E i \in 1 .. n : r[i] = s)
    BY SortedOnce
  <1>2. /\ q \in [1 .. n -> S] /\ r \in [1 .. n -> S]
        /\ \A i, j \in 1 .. n : i < j => Earlier(q[i], q[j]) /\ Earlier(r[i], r[j])
    BY DEF Sorts
  <1> HIDE DEF n
  <1>3. D = {}
    <2> SUFFICES ASSUME D # {} PROVE FALSE
      OBVIOUS
    <2>1. D \subseteq Nat
      BY <1>1
    <2>2. PICK k \in 1 .. n : q[k] # r[k] /\ \A i \in 1 .. n : i < k => q[i] = r[i]
      <3>1. Min(D) \in D /\ \A i \in D : Min(D) =< i
        <4> HIDE DEF D
        <4> QED BY <2>1, Least
      <3>2. \A i \in 1 .. n : i < Min(D) => i \notin D
        BY <1>1, <3>1
      <3> QED BY <3>1, <3>2
    <2>3. q[k] \in S /\ r[k] \in S
      BY <1>2
    <2>4. PICK a \in 1 .. n : r[a] = q[k]
      BY <1>1, <2>3
    <2>5. PICK b \in 1 .. n : q[b] = r[k]
      BY <1>1, <2>3
    <2>6. k < a
      <3>1. a # k
        BY <2>2, <2>4
      <3>2. ~(a < k)
        BY <1>1, <2>2, <2>4
      <3> QED BY <1>1, <3>1, <3>2
    <2>7. k < b
      <3>1. b # k
        BY <2>2, <2>5
      <3>2. ~(b < k)
        BY <1>1, <2>2, <2>5
      <3> QED BY <1>1, <3>1, <3>2
    <2>8. Earlier(r[k], q[k]) /\ Earlier(q[k], r[k])
      BY <1>2, <2>4, <2>5, <2>6, <2>7
    <2> QED BY <2>3, <2>8, EarlierOrders
  <1>4. \A i \in 1 .. n : q[i] = r[i]
    BY <1>3
  <1>5. q = [i \in 1 .. n |-> q[i]] /\ r = [i \in 1 .. n |-> r[i]]
    BY <1>2
  <1> QED BY <1>4, <1>5

\* So rotatedFiles is that way.
LEMMA RotatedSorts ==
  ASSUME NEW dir, Named(dir.rotated)
  PROVE  /\ Sorts(RotatedFiles(dir), dir.rotated)
         /\ \A q : Sorts(q, dir.rotated) => q = RotatedFiles(dir)
  <1> DEFINE S == dir.rotated
             n == Cardinality(S)
             P(q) == \A i, j \in DOMAIN q : i < j => Earlier(q[i], q[j])
  <1>1. \A q : Sorts(q, S) <=> q \in [1 .. n -> S] /\ P(q)
    BY DEF Sorts
  <1>2. \E q \in [1 .. n -> S] : P(q)
    BY <1>1, SortExists
  <1>3. RotatedFiles(dir) = CHOOSE q \in [1 .. n -> S] : P(q)
    BY DEF RotatedFiles
  <1> HIDE DEF P, S, n
  <1>4. RotatedFiles(dir) \in [1 .. n -> S] /\ P(RotatedFiles(dir))
    BY <1>2, <1>3
  <1>5. Sorts(RotatedFiles(dir), S)
    BY <1>1, <1>4
  <1> QED BY <1>5, SortUnique DEF S
----------------------------------------------------------------------------
(***************************************************************************)
(* Files joined: what FlattenSeq, a recursive function, makes of sequences. *)
(***************************************************************************)
\* The function by which FlattenSeq joins the first n sequences of s.
Flattens(g, s, n) == g = [i \in 1 .. n |-> IF i = 1 THEN s[i] ELSE g[i - 1] \o s[i]]

\* What it is at each place;
LEMMA FlattensAt ==
  ASSUME NEW g, NEW s, NEW n \in Nat, Flattens(g, s, n)
  PROVE  \A i \in 1 .. n : g[i] = IF i = 1 THEN s[i] ELSE g[i - 1] \o s[i]
  BY DEF Flattens

\* it exists for every n;
LEMMA FlattensExists ==
  ASSUME NEW s
  PROVE  \A n \in Nat : \E g : Flattens(g, s, n)
  <1> DEFINE S == {n \in Nat : \E g : Flattens(g, s, n)}
  <1>1. 0 \in S
    <2> DEFINE g == [i \in 1 .. 0 |-> {}]
    <2>1. Flattens(g, s, 0)
      BY DEF Flattens
    <2> QED BY <2>1
  <1>2. ASSUME NEW n \in Nat, n \in S
        PROVE  n + 1 \in S
    <2>1. PICK g : Flattens(g, s, n)
      BY <1>2
    <2> DEFINE last == IF n = 0 THEN s[1] ELSE g[n] \o s[n + 1]
               h == [i \in 1 .. n + 1 |-> IF i = n + 1 THEN last ELSE g[i]]
    <2>2. \A i \in 1 .. n + 1 : h[i] = IF i = 1 THEN s[i] ELSE h[i - 1] \o s[i]
      <3> SUFFICES ASSUME NEW i \in 1 .. n + 1
                   PROVE  h[i] = IF i = 1 THEN s[i] ELSE h[i - 1] \o s[i]
        OBVIOUS
      <3>1. CASE i = n + 1
        BY <3>1
      <3>2. CASE i # n + 1
        <4>1. i \in 1 .. n /\ h[i] = g[i] /\ (i # 1 => h[i - 1] = g[i - 1])
          BY <3>2
        <4> QED BY <2>1, <4>1, FlattensAt
      <3> QED BY <3>1, <3>2
    <2>3. DOMAIN h = 1 .. n + 1 /\ h = [i \in DOMAIN h |-> h[i]]
      OBVIOUS
    <2> HIDE DEF h
    <2>4. Flattens(h, s, n + 1)
      BY <2>2, <2>3 DEF Flattens
    <2> QED BY <2>4
  <1> HIDE DEF S
  <1>3. \A n \in Nat : n \in S
    BY <1>1, <1>2, Induction
  <1> QED BY <1>3 DEF S

\* Equal up to n.
Agree(f, g, n) == \A i \in 1 .. n : f[i] = g[i]

\* and it is the same for two sequences as far as they are.
LEMMA FlattensAgree ==
  ASSUME NEW s, NEW t, NEW n \in Nat, NEW m \in Nat, n =< m, Agree(s, t, n),
         NEW g, NEW h, Flattens(g, s, n), Flattens(h, t, m)
  PROVE  Agree(g, h, n)
  <1> DEFINE S == {k \in Nat : k \in 1 .. n => g[k] = h[k]}
  <1>1. 0 \in S
    OBVIOUS
  <1>2. ASSUME NEW k \in Nat, k \in S
        PROVE  k + 1 \in S
    <2> SUFFICES ASSUME k + 1 \in 1 .. n PROVE g[k + 1] = h[k + 1]
      OBVIOUS
    <2>1. k + 1 \in 1 .. m /\ (k + 1) - 1 = k /\ s[k + 1] = t[k + 1]
      BY DEF Agree
    <2>2. g[k + 1] = IF k + 1 = 1 THEN s[k + 1] ELSE g[k] \o s[k + 1]
      BY <2>1, FlattensAt
    <2>3. h[k + 1] = IF k + 1 = 1 THEN t[k + 1] ELSE h[k] \o t[k + 1]
      BY <2>1, FlattensAt
    <2> QED BY <1>2, <2>1, <2>2, <2>3
  <1> HIDE DEF S
  <1>3. \A k \in Nat : k \in S
    BY <1>1, <1>2, Induction
  <1> QED BY <1>3 DEF S, Agree

\* So FlattenSeq is what that function comes to:
LEMMA FlattenSeqDef ==
  ASSUME NEW s, Len(s) \in Nat, Len(s) # 0
  PROVE  \E g : Flattens(g, s, Len(s)) /\ FlattenSeq(s) = g[Len(s)]
  <1> DEFINE g == CHOOSE f : Flattens(f, s, Len(s))
  <1>1. Flattens(g, s, Len(s))
    BY FlattensExists
  <1>2. FlattenSeq(s) = g[Len(s)]
    BY DEF FlattenSeq, Flattens
  <1> HIDE DEF g
  <1> QED BY <1>1, <1>2

\* nothing for nothing,
LEMMA FlattenSeqEmpty == FlattenSeq(<< >>) = << >>
  BY DEF FlattenSeq

\* and what it was before, joined with what is appended.
LEMMA FlattenSeqAppend ==
  ASSUME NEW S, NEW s \in Seq(Seq(S)), NEW x \in Seq(S)
  PROVE  FlattenSeq(Append(s, x)) = FlattenSeq(s) \o x
  <1> DEFINE n == Len(s)
             t == Append(s, x)
  <1>1. /\ n \in Nat /\ Len(t) = n + 1 /\ t[n + 1] = x /\ \A i \in 1 .. n : t[i] = s[i]
        /\ (n = 0 => s = << >>)
    BY AppendProperties, LenProperties, EmptySeq
  <1> HIDE DEF t
  <1>2. PICK h : Flattens(h, t, n + 1) /\ FlattenSeq(t) = h[n + 1]
    BY <1>1, FlattenSeqDef
  <1>3. h[n + 1] = IF n = 0 THEN x ELSE h[n] \o x
    <2>1. n + 1 \in Nat /\ n + 1 \in 1 .. n + 1 /\ (n + 1 = 1 <=> n = 0) /\ (n + 1) - 1 = n
      BY <1>1
    <2>2. h[n + 1] = IF n + 1 = 1 THEN t[n + 1] ELSE h[(n + 1) - 1] \o t[n + 1]
      BY <1>2, <2>1, FlattensAt
    <2> QED BY <1>1, <2>1, <2>2
  <1>4. CASE n = 0
    <2>1. FlattenSeq(s) = << >>
      BY <1>1, <1>4, FlattenSeqEmpty
    <2>2. FlattenSeq(s) \o x = x
      BY <2>1, ConcatEmptySeq
    <2> QED BY <1>2, <1>3, <1>4, <2>2 DEF t
  <1>5. CASE n # 0
    <2>1. PICK g : Flattens(g, s, n) /\ FlattenSeq(s) = g[n]
      BY <1>1, <1>5, FlattenSeqDef
    <2>2. g[n] = h[n]
      <3>1. n =< n + 1 /\ n + 1 \in Nat /\ Agree(s, t, n)
        BY <1>1 DEF Agree
      <3>2. Agree(g, h, n)
        BY <1>1, <1>2, <2>1, <3>1, FlattensAgree
      <3>3. n \in 1 .. n
        BY <1>1, <1>5
      <3> HIDE DEF n
      <3> QED BY <3>2, <3>3 DEF Agree
    <2> QED BY <1>2, <1>3, <1>5, <2>1, <2>2 DEF t
  <1> QED BY <1>4, <1>5

\* Joined, sequences are one sequence,
LEMMA FlattenType == ASSUME NEW S PROVE \A s \in Seq(Seq(S)) : FlattenSeq(s) \in Seq(S)
  <1> DEFINE N == {n \in Nat : \A s \in Seq(Seq(S)) : Len(s) = n => FlattenSeq(s) \in Seq(S)}
  <1>1. 0 \in N
    <2>1. \A s \in Seq(Seq(S)) : Len(s) = 0 => s = << >>
      BY EmptySeq
    <2> QED BY <2>1, FlattenSeqEmpty, EmptySeq
  <1>2. ASSUME NEW n \in Nat, n \in N
        PROVE  n + 1 \in N
    <2> SUFFICES ASSUME NEW s \in Seq(Seq(S)), Len(s) = n + 1
                 PROVE  FlattenSeq(s) \in Seq(S)
      OBVIOUS
    <2>1. PICK v \in Seq(Seq(S)), x \in Seq(S) : s = Append(v, x)
      <3>1. s # << >>
        BY EmptySeq
      <3> QED BY <3>1, SequenceEmptyOrAppend
    <2>2. Len(v) = n
      <3>1. Len(v) \in Nat /\ Len(s) = Len(v) + 1
        BY <2>1, AppendProperties, LenProperties
      <3> QED BY <3>1
    <2>3. FlattenSeq(v) \in Seq(S) /\ FlattenSeq(s) = FlattenSeq(v) \o x
      BY <1>2, <2>1, <2>2, FlattenSeqAppend
    <2> QED BY <2>1, <2>3, ConcatProperties
  <1> HIDE DEF N
  <1>3. \A n \in Nat : n \in N
    BY <1>1, <1>2, Induction
  <1>4. \A s \in Seq(Seq(S)) : Len(s) \in N
    BY <1>3, LenProperties
  <1> QED BY <1>4 DEF N

\* and two rows of them what each of the two is.
LEMMA FlattenJoined ==
  ASSUME NEW S, NEW s \in Seq(Seq(S))
  PROVE  \A t \in Seq(Seq(S)) : FlattenSeq(s \o t) = FlattenSeq(s) \o FlattenSeq(t)
  <1> DEFINE N == {n \in Nat : \A t \in Seq(Seq(S)) :
                     Len(t) = n => FlattenSeq(s \o t) = FlattenSeq(s) \o FlattenSeq(t)}
  <1>1. 0 \in N
    <2> SUFFICES ASSUME NEW t \in Seq(Seq(S)), Len(t) = 0
                 PROVE  FlattenSeq(s \o t) = FlattenSeq(s) \o FlattenSeq(t)
      OBVIOUS
    <2>1. t = << >> /\ s \o t = s
      BY EmptySeq, ConcatEmptySeq
    <2>2. FlattenSeq(s) \o << >> = FlattenSeq(s)
      BY FlattenType, ConcatEmptySeq
    <2> QED BY <2>1, <2>2, FlattenSeqEmpty
  <1>2. ASSUME NEW n \in Nat, n \in N
        PROVE  n + 1 \in N
    <2> SUFFICES ASSUME NEW t \in Seq(Seq(S)), Len(t) = n + 1
                 PROVE  FlattenSeq(s \o t) = FlattenSeq(s) \o FlattenSeq(t)
      OBVIOUS
    <2>1. PICK v \in Seq(Seq(S)), x \in Seq(S) : t = Append(v, x)
      <3>1. t # << >>
        BY EmptySeq
      <3> QED BY <3>1, SequenceEmptyOrAppend
    <2>2. Len(v) = n
      <3>1. Len(v) \in Nat /\ Len(t) = Len(v) + 1
        BY <2>1, AppendProperties, LenProperties
      <3> QED BY <3>1
    <2>3. s \o t = Append(s \o v, x) /\ s \o v \in Seq(Seq(S))
      <3>1. <<x>> \in Seq(Seq(S)) /\ s \o v \in Seq(Seq(S))
        BY ConcatProperties
      <3>2. t = v \o <<x>> /\ Append(s \o v, x) = (s \o v) \o <<x>>
        BY <2>1, <3>1, AppendIsConcat
      <3>3. (s \o v) \o <<x>> = s \o (v \o <<x>>)
        <4>1. s \in Seq(Seq(S)) /\ v \in Seq(Seq(S)) /\ <<x>> \in Seq(Seq(S))
          BY <3>1
        <4> QED BY ONLY <4>1, ConcatAssociative
      <3> QED BY <3>1, <3>2, <3>3
    <2> DEFINE a == FlattenSeq(s)
               b == FlattenSeq(v)
    <2>4. a \in Seq(S) /\ b \in Seq(S)
      BY FlattenType
    <2>5. FlattenSeq(s \o v) = a \o b
      BY <1>2, <2>2
    <2>6. FlattenSeq(s \o t) = (a \o b) \o x /\ FlattenSeq(t) = b \o x
      BY <2>1, <2>3, <2>5, FlattenSeqAppend
    <2> HIDE DEF a, b
    <2>7. (a \o b) \o x = a \o (b \o x)
      <3>1. x \in Seq(S)
        BY <2>1
      <3> QED BY ONLY <2>4, <3>1, ConcatAssociative
    <2> QED BY <2>6, <2>7 DEF a, b
  <1> HIDE DEF N
  <1>3. \A n \in Nat : n \in N
    BY <1>1, <1>2, Induction
  <1>4. \A t \in Seq(Seq(S)) : Len(t) \in N
    BY <1>3, LenProperties
  <1> QED BY <1>4 DEF N

\* t is s without its k-th sequence.
Without(t, s, k) ==
  Len(s) = Len(t) + 1 /\ \A i \in 1 .. Len(t) : t[i] = IF i < k THEN s[i] ELSE s[i + 1]

\* What the k-th sequence is between.
Parted(S, t, s, k) ==
  \E a, b \in Seq(S) :
    /\ FlattenSeq(s) = (a \o s[k]) \o b /\ FlattenSeq(t) = a \o b
    /\ k = 1 => a = << >>
    /\ k = Len(s) => b = << >>

LEMMA FlattenWithout ==
  ASSUME NEW S, NEW s \in Seq(Seq(S)), NEW k \in 1 .. Len(s),
         NEW t \in Seq(Seq(S)), Without(t, s, k)
  PROVE  Parted(S, t, s, k)
  <1> DEFINE n == Len(s)
             p == SubSeq(s, 1, k - 1)
             q == SubSeq(s, k + 1, n)
             x == s[k]
             a == FlattenSeq(p)
             b == FlattenSeq(q)
  <1>0. Len(s) = Len(t) + 1 /\ \A i \in 1 .. Len(t) : t[i] = IF i < k THEN s[i] ELSE s[i + 1]
    BY DEF Without
  <1>1. n \in Nat /\ Len(t) = n - 1 /\ x \in Seq(S) /\ \A i \in 1 .. n : s[i] \in Seq(S)
    <2>1. n \in Nat /\ Len(t) \in Nat /\ \A i \in 1 .. n : s[i] \in Seq(S)
      BY LenProperties, ElementOfSeq
    <2> QED BY <1>0, <2>1
  <1>2. /\ p \in Seq(Seq(S)) /\ Len(p) = k - 1 /\ \A i \in 1 .. k - 1 : p[i] = s[i]
        /\ k = 1 => p = << >>
    <2>1. \A i \in 1 .. k - 1 : s[i] \in Seq(S)
      BY <1>1
    <2>2. /\ p \in Seq(Seq(S)) /\ Len(p) = IF 1 <= k - 1 THEN k - 1 - 1 + 1 ELSE 0
          /\ \A i \in 1 .. k - 1 - 1 + 1 : p[i] = s[1 + i - 1]
      BY <2>1, SubSeqProperties
    <2> QED BY <2>2, SubSeqEmpty
  <1>3. /\ q \in Seq(Seq(S)) /\ Len(q) = n - k /\ \A i \in 1 .. n - k : q[i] = s[k + i]
        /\ k = n => q = << >>
    <2>1. \A i \in k + 1 .. n : s[i] \in Seq(S)
      BY <1>1
    <2>2. /\ q \in Seq(Seq(S)) /\ Len(q) = IF k + 1 <= n THEN n - (k + 1) + 1 ELSE 0
          /\ \A i \in 1 .. n - (k + 1) + 1 : q[i] = s[k + 1 + i - 1]
      <3>1. k + 1 \in Int /\ n \in Int
        BY <1>1
      <3> HIDE DEF n
      <3> QED BY <2>1, <3>1, SubSeqProperties
    <2>3. n \in Nat /\ k \in 1 .. n
      BY <1>1
    <2> HIDE DEF n
    <2>4. Len(q) = n - k /\ \A i \in 1 .. n - k : q[i] = s[k + i]
      <3> HIDE DEF q
      <3>1. n - (k + 1) + 1 = n - k /\ (~(k + 1 <= n) => n - k = 0)
        BY <2>3
      <3>2. \A i \in 1 .. n - k : k + 1 + i - 1 = k + i
        BY <2>3
      <3> QED BY <2>2, <3>1, <3>2
    <2>5. k = n => q = << >>
      <3> HIDE DEF q
      <3>1. k = n => Len(q) = 0
        BY <2>3, <2>4
      <3> QED BY <2>2, <3>1, EmptySeq
    <2> QED BY <2>2, <2>4, <2>5
  <1>k. k \in 1 .. n
    OBVIOUS
  <1> HIDE DEF n, p, q, x
  <1>4. Append(p, x) \in Seq(Seq(S)) /\ s = Append(p, x) \o q
    <2> DEFINE r == Append(p, x)
               u == r \o q
    <2>1. /\ r \in Seq(Seq(S)) /\ Len(r) = k /\ r[k] = x
          /\ \A i \in 1 .. k - 1 : r[i] = s[i]
      <3>1. /\ r \in Seq(Seq(S)) /\ Len(r) = (k - 1) + 1 /\ r[(k - 1) + 1] = x
            /\ \A i \in 1 .. k - 1 : r[i] = p[i]
        BY <1>1, <1>2, AppendProperties
      <3> QED BY <1>2, <3>1
    <2> HIDE DEF r
    <2>2. /\ u \in Seq(Seq(S)) /\ Len(u) = k + (n - k)
          /\ \A i \in 1 .. k + (n - k) : u[i] = IF i =< k THEN r[i] ELSE q[i - k]
      <3>1. /\ u \in Seq(Seq(S)) /\ Len(u) = Len(r) + Len(q)
            /\ \A i \in 1 .. Len(r) + Len(q) : u[i] = IF i =< Len(r) THEN r[i] ELSE q[i - Len(r)]
        <4>1. r \in Seq(Seq(S)) /\ q \in Seq(Seq(S))
          BY <1>3, <2>1
        <4> QED BY ONLY <4>1, ConcatProperties
      <3> QED BY <1>3, <2>1, <3>1
    <2> HIDE DEF u
    <2>3. ASSUME NEW i \in 1 .. n
          PROVE  u[i] = s[i]
      <3>1. u[i] = IF i =< k THEN r[i] ELSE q[i - k]
        BY <1>1, <2>2
      <3>2. CASE i < k
        <4>1. i \in 1 .. k - 1
          BY <1>1, <1>k, <3>2
        <4> QED BY <2>1, <3>1, <3>2, <4>1
      <3>3. CASE i = k
        BY <2>1, <3>1, <3>3 DEF x
      <3>4. CASE i > k
        <4>1. i - k \in 1 .. n - k /\ k + (i - k) = i
          BY <1>1, <1>k, <3>4
        <4> QED BY <1>3, <3>1, <3>4, <4>1
      <3> QED BY <1>1, <3>2, <3>3, <3>4
    <2>4. u = s
      <3>1. Len(u) = n /\ n = Len(s)
        BY <1>1, <2>2 DEF n
      <3> QED BY <2>2, <2>3, <3>1, SeqEqual
    <2> QED BY <2>1, <2>4 DEF u, r
  <1>5. t = p \o q
    <2> DEFINE u == p \o q
    <2>1. /\ u \in Seq(Seq(S)) /\ Len(u) = (k - 1) + (n - k)
          /\ \A i \in 1 .. (k - 1) + (n - k) : u[i] = IF i =< k - 1 THEN p[i] ELSE q[i - (k - 1)]
      <3>1. /\ u \in Seq(Seq(S)) /\ Len(u) = Len(p) + Len(q)
            /\ \A i \in 1 .. Len(p) + Len(q) : u[i] = IF i =< Len(p) THEN p[i] ELSE q[i - Len(p)]
        <4>1. p \in Seq(Seq(S)) /\ q \in Seq(Seq(S))
          BY <1>2, <1>3
        <4> QED BY ONLY <4>1, ConcatProperties
      <3> QED BY <1>2, <1>3, <3>1
    <2> HIDE DEF u
    <2>2. ASSUME NEW i \in 1 .. Len(t)
          PROVE  t[i] = u[i]
      <3>1. /\ u[i] = IF i =< k - 1 THEN p[i] ELSE q[i - (k - 1)]
            /\ t[i] = IF i < k THEN s[i] ELSE s[i + 1]
        <4>1. i \in 1 .. (k - 1) + (n - k)
          BY <1>1, <1>k
        <4> QED BY <1>0, <2>1, <4>1
      <3>2. CASE i < k
        <4>1. i \in 1 .. k - 1
          BY <1>1, <1>k, <3>2
        <4>2. p[i] = s[i] /\ u[i] = p[i] /\ t[i] = s[i]
          <5>1. i =< k - 1
            BY <1>k, <4>1
          <5> QED BY <1>2, <3>1, <3>2, <4>1, <5>1
        <4> QED BY <4>2
      <3>3. CASE ~(i < k)
        <4>1. i - (k - 1) \in 1 .. n - k /\ k + (i - (k - 1)) = i + 1
          BY <1>1, <1>k, <3>3
        <4> QED BY <1>3, <3>1, <3>3, <4>1
      <3> QED BY <3>2, <3>3
    <2>3. Len(t) = Len(u)
      BY <1>1, <1>k, <2>1
    <2> QED BY <2>1, <2>2, <2>3, SeqEqual DEF u
  <1>6. a \in Seq(S) /\ b \in Seq(S) /\ (k = 1 => a = << >>) /\ (k = n => b = << >>)
    BY <1>2, <1>3, FlattenType, FlattenSeqEmpty
  <1>7. FlattenSeq(t) = a \o b
    BY <1>2, <1>3, <1>5, FlattenJoined
  <1>8. FlattenSeq(s) = (a \o x) \o b
    <2>1. FlattenSeq(s) = FlattenSeq(Append(p, x)) \o b
      BY <1>3, <1>4, FlattenJoined
    <2>2. FlattenSeq(Append(p, x)) = a \o x
      BY <1>1, <1>2, FlattenSeqAppend
    <2> QED BY <2>1, <2>2
  <1> QED BY <1>6, <1>7, <1>8 DEF n, x, Parted
----------------------------------------------------------------------------
(***************************************************************************)
(* What a directory's files hold, read in the order of their names.        *)
(***************************************************************************)

\* What each segment has, in order, and what the current file has.
SegmentBytes(dir, content) ==
  [i \in 1 .. Cardinality(dir.rotated) |-> content[RotatedFiles(dir)[i].inode]]

CurrentBytes(dir, content) == IF dir.current = 0 THEN << >> ELSE content[dir.current]

\* Each of n files has bytes.
Contents(n, content) == \A i \in 1 .. n : content[i] \in Seq(Byte)

\* The segments are there, and the log is theirs and that of the current file.
LEMMA LogParts ==
  ASSUME NEW n \in Nat, NEW content, \A i \in 1 .. n : content[i] \in Seq(Byte),
         NEW dir \in Directory(n), Named(dir.rotated)
  PROVE  /\ SegmentBytes(dir, content) \in Seq(Seq(Byte))
         /\ Len(SegmentBytes(dir, content)) = Cardinality(dir.rotated)
         /\ CurrentBytes(dir, content) \in Seq(Byte)
         /\ FlattenSeq(SegmentBytes(dir, content)) \in Seq(Byte)
         /\ Log(dir, content) = FlattenSeq(SegmentBytes(dir, content)) \o CurrentBytes(dir, content)
         /\ Log(dir, content) \in Seq(Byte)
  <1> DEFINE c == Cardinality(dir.rotated)
             r == RotatedFiles(dir)
             s == SegmentBytes(dir, content)
             z == CurrentBytes(dir, content)
             inodes == [i \in 1 .. c |-> r[i].inode]
  <1>1. c \in Nat /\ \A i \in 1 .. c : r[i] \in dir.rotated
    BY RotatedSorts, SortedOnce DEF Sorts
  <1>2. dir.current \in 0 .. n /\ \A i \in 1 .. c : inodes[i] \in 1 .. n
    BY <1>1 DEF Directory, Segment
  <1>3. s \in Seq(Seq(Byte)) /\ Len(s) = c
    <2>1. \A i \in 1 .. c : content[r[i].inode] \in Seq(Byte)
      BY <1>2
    <2>2. s = [i \in 1 .. c |-> content[r[i].inode]]
      BY DEF SegmentBytes
    <2> HIDE DEF c, r, s
    <2>3. s \in [1 .. c -> Seq(Byte)]
      BY <2>1, <2>2
    <2> QED BY <1>1, <2>3
  <1>4. z \in Seq(Byte)
    BY <1>2, EmptyRange DEF CurrentBytes
  <1>5. FlattenSeq(s) \in Seq(Byte)
    BY <1>3, FlattenType
  <1>6. inodes \in Seq(1 .. n) /\ Len(inodes) = c /\ DOMAIN inodes = 1 .. c
    <2> HIDE DEF c, r
    <2>1. inodes \in [1 .. c -> 1 .. n]
      BY <1>2
    <2> QED BY <1>1, <2>1
  <1>7. \A i \in 1 .. c : s[i] = content[inodes[i]]
    BY DEF SegmentBytes
  <1>8. Files(dir) = inodes \o (IF dir.current = 0 THEN << >> ELSE <<dir.current>>)
    BY DEF Files
  <1> DEFINE all == [i \in DOMAIN Files(dir) |-> content[Files(dir)[i]]]
  <1>9. Log(dir, content) = FlattenSeq(all)
    BY DEF Log
  <1>10. CASE dir.current = 0
    <2>1. Files(dir) = inodes
      BY <1>6, <1>8, <1>10, ConcatEmptySeq
    <2>2. all = s
      <3>1. all = [i \in 1 .. c |-> content[inodes[i]]]
        BY <1>6, <2>1
      <3>2. s = [i \in 1 .. c |-> content[inodes[i]]]
        BY DEF SegmentBytes
      <3> QED BY <3>1, <3>2
    <2>3. FlattenSeq(s) \o z = FlattenSeq(s)
      <3>1. z = << >>
        BY <1>10 DEF CurrentBytes
      <3> QED BY <1>5, <3>1, ConcatEmptySeq
    <2> QED BY <1>3, <1>4, <1>5, <1>9, <2>2, <2>3
  <1>11. CASE dir.current # 0
    <2> DEFINE m == Append(s, z)
    <2>1. z = content[dir.current] /\ dir.current \in 1 .. n
      BY <1>2, <1>11 DEF CurrentBytes
    <2>2. /\ m \in Seq(Seq(Byte)) /\ Len(m) = c + 1 /\ m[c + 1] = z
          /\ \A i \in 1 .. c : m[i] = s[i]
      BY <1>3, <1>4, AppendProperties
    <2> DEFINE u == Append(inodes, dir.current)
    <2>3. u \in Seq(1 .. n) /\ Len(u) = c + 1 /\ u[c + 1] = dir.current
          /\ \A i \in 1 .. c : u[i] = inodes[i]
      <3> HIDE DEF inodes, c
      <3> QED BY <1>6, <2>1, AppendProperties
    <2>4. Files(dir) = u
      <3> HIDE DEF inodes
      <3> QED BY <1>6, <1>8, <1>11, <2>1, AppendIsConcat
    <2>5. DOMAIN u = 1 .. c + 1
      BY <2>3, LenProperties
    <2> HIDE DEF u, m, s, z, inodes, c
    <2>6. \A i \in 1 .. c + 1 : content[u[i]] = m[i]
      <3>1. \A i \in 1 .. c + 1 : i \in 1 .. c \/ i = c + 1
        BY <1>1
      <3> QED BY <1>7, <2>1, <2>2, <2>3, <3>1
    <2>7. all = m
      <3>1. all = [i \in 1 .. c + 1 |-> content[u[i]]]
        BY <2>4, <2>5
      <3>2. m = [i \in 1 .. c + 1 |-> m[i]]
        BY <1>1, <2>2, LenProperties
      <3> QED BY <2>6, <3>1, <3>2
    <2>8. FlattenSeq(m) = FlattenSeq(s) \o z
      BY <1>3, <1>4, FlattenSeqAppend DEF m
    <2>9. FlattenSeq(s) \o z \in Seq(Byte)
      BY <1>4, <1>5, ConcatProperties
    <2> QED BY <1>3, <1>4, <1>5, <1>9, <2>7, <2>8, <2>9 DEF s, z, c
  <1> QED BY <1>10, <1>11

\* Files that are no segments of it do not matter to a directory's segments.
LEMMA SegmentsAgree ==
  ASSUME NEW n \in Nat, NEW dir \in Directory(n), Named(dir.rotated), NEW content, NEW other,
         \A s \in dir.rotated : content[s.inode] = other[s.inode]
  PROVE  SegmentBytes(dir, content) = SegmentBytes(dir, other)
  <1>1. \A i \in 1 .. Cardinality(dir.rotated) : RotatedFiles(dir)[i] \in dir.rotated
    BY RotatedSorts DEF Sorts
  <1> QED BY <1>1 DEF SegmentBytes

\* The one directory has a segment that the other lacks,
Lacks(less, more, e) == e \in more.rotated /\ less.rotated = more.rotated \ {e}

\* and what it has is between what those before and those after it have.
Loses(more, less, e, content) ==
  \E a, b \in Seq(Byte) :
    /\ FlattenSeq(SegmentBytes(more, content)) = (a \o content[e.inode]) \o b
    /\ FlattenSeq(SegmentBytes(less, content)) = a \o b
    /\ e = RotatedFiles(more)[1] => a = << >>
    /\ (\A s \in less.rotated : Earlier(s, e)) => b = << >>

\* A segment more or less changes nothing about the others.
LEMMA OneSegment ==
  ASSUME NEW n \in Nat, NEW content, Contents(n, content),
         NEW more \in Directory(n), Named(more.rotated), NEW e,
         NEW less \in Directory(n), Lacks(less, more, e)
  PROVE  /\ Named(less.rotated) /\ Cardinality(more.rotated) = Cardinality(less.rotated) + 1
         /\ Cardinality(less.rotated) \in Nat
         /\ content[e.inode] \in Seq(Byte) /\ Loses(more, less, e, content)
  <1> DEFINE M == more.rotated
             L == less.rotated
             c == Cardinality(L)
             q == RotatedFiles(more)
  <1>e. e \in M /\ L = M \ {e}
    BY DEF Lacks
  <1>1. Named(L)
    BY <1>e, NamedWithout
  <1>2. Cardinality(M) = c + 1 /\ c \in Nat
    <2>1. IsFiniteSet(M) /\ Cardinality(M) \in Nat /\ IsFiniteSet(L) /\ c \in Nat
      BY <1>1, FS_CardinalityType DEF Named
    <2>2. c = Cardinality(M) - 1
      BY <1>e, <2>1, FS_RemoveElement
    <2> QED BY <2>1, <2>2
  <1>3. /\ Sorts(q, M) /\ q \in [1 .. c + 1 -> M]
        /\ \A i, j \in 1 .. c + 1 : i < j => Earlier(q[i], q[j])
        /\ \A i, j \in 1 .. c + 1 : q[i] = q[j] => i = j
        /\ \A s \in M : \E i \in 1 .. c + 1 : q[i] = s
    <2>1. Sorts(q, M)
      BY RotatedSorts
    <2> HIDE DEF q
    <2>2. /\ \A i, j \in 1 .. Cardinality(M) : q[i] = q[j] => i = j
          /\ \A s \in M : \E i \in 1 .. Cardinality(M) : q[i] = s
      BY <2>1, SortedOnce
    <2> QED BY <1>2, <2>1, <2>2 DEF Sorts
  <1>4. PICK k \in 1 .. c + 1 : q[k] = e
    BY <1>e, <1>3
  <1> HIDE DEF c, q
  <1> DEFINE p == [i \in 1 .. c |-> IF i < k THEN q[i] ELSE q[i + 1]]
  <1>5. \A i \in 1 .. c : i \in 1 .. c + 1 /\ i + 1 \in 1 .. c + 1
    BY <1>2
  <1>6. p = RotatedFiles(less)
    <2>1. \A i \in 1 .. c : p[i] \in L
      <3> SUFFICES ASSUME NEW i \in 1 .. c PROVE p[i] \in L
        OBVIOUS
      <3>1. q[i] \in M /\ q[i + 1] \in M
        BY <1>3, <1>5
      <3>2. i < k => q[i] # e
        BY <1>2, <1>3, <1>4, <1>5
      <3>3. ~(i < k) => q[i + 1] # e
        BY <1>2, <1>3, <1>4, <1>5
      <3> QED BY <1>e, <3>1, <3>2, <3>3
    <2>2. \A i, j \in 1 .. c : i < j => Earlier(p[i], p[j])
      <3> SUFFICES ASSUME NEW i \in 1 .. c, NEW j \in 1 .. c, i < j PROVE Earlier(p[i], p[j])
        OBVIOUS
      <3>1. CASE j < k
        <4>1. p[i] = q[i] /\ p[j] = q[j]
          BY <1>2, <3>1
        <4> QED BY <1>3, <1>5, <4>1
      <3>2. CASE i < k /\ ~(j < k)
        <4>1. p[i] = q[i] /\ p[j] = q[j + 1] /\ i < j + 1
          BY <1>2, <3>2
        <4> QED BY <1>3, <1>5, <4>1
      <3>3. CASE ~(i < k)
        <4>1. p[i] = q[i + 1] /\ p[j] = q[j + 1] /\ i + 1 < j + 1
          BY <1>2, <3>3
        <4> QED BY <1>3, <1>5, <4>1
      <3> QED BY <3>1, <3>2, <3>3
    <2>3. p \in [1 .. c -> L]
      BY <2>1
    <2> HIDE DEF p
    <2>4. Sorts(p, L)
      BY <2>2, <2>3 DEF Sorts, c
    <2> QED BY <1>1, <2>4, RotatedSorts
  <1> DEFINE s == SegmentBytes(more, content)
             t == SegmentBytes(less, content)
  <1>7. /\ s \in Seq(Seq(Byte)) /\ Len(s) = c + 1 /\ t \in Seq(Seq(Byte)) /\ Len(t) = c
    BY <1>1, <1>2, LogParts DEF c, Contents
  <1>8. /\ \A i \in 1 .. c + 1 : s[i] = content[q[i].inode]
        /\ \A i \in 1 .. c : t[i] = content[p[i].inode]
    BY <1>2, <1>6 DEF SegmentBytes, c, q
  <1>9. \A i \in 1 .. Len(t) : t[i] = IF i < k THEN s[i] ELSE s[i + 1]
    BY <1>5, <1>7, <1>8
  <1>10. s[k] = content[e.inode] /\ k \in 1 .. Len(s) /\ Len(s) = Len(t) + 1
    BY <1>4, <1>7, <1>8
  <1> HIDE DEF s, t
  <1>11. PICK a \in Seq(Byte), b \in Seq(Byte) :
           /\ FlattenSeq(s) = (a \o s[k]) \o b /\ FlattenSeq(t) = a \o b
           /\ k = 1 => a = << >>
           /\ k = Len(s) => b = << >>
    <2>1. s \in Seq(Seq(Byte)) /\ t \in Seq(Seq(Byte)) /\ k \in 1 .. Len(s) /\ Len(s) = Len(t) + 1
      BY <1>7, <1>10
    <2>2. Without(t, s, k)
      BY <1>9, <2>1 DEF Without
    <2>3. Parted(Byte, t, s, k)
      BY ONLY <2>1, <2>2, FlattenWithout
    <2> QED BY <2>3 DEF Parted
  <1>12. e = q[1] => k = 1
    BY <1>2, <1>3, <1>4
  <1>13. ASSUME \A x \in L : Earlier(x, e)
         PROVE  k = c + 1
    <2> SUFFICES ASSUME k # c + 1 PROVE FALSE
      OBVIOUS
    <2>1. k + 1 \in 1 .. c + 1 /\ k < k + 1
      BY <1>2
    <2>2. q[k + 1] \in M /\ q[k + 1] # e /\ Earlier(e, q[k + 1])
      BY <1>3, <1>4, <2>1
    <2>3. Earlier(q[k + 1], e)
      BY <1>e, <1>13, <2>2
    <2> QED BY <1>e, <2>2, <2>3, EarlierOrders
  <1>14. content[e.inode] \in Seq(Byte)
    BY <1>e DEF Directory, Segment, Contents
  <1> QED BY <1>1, <1>2, <1>7, <1>10, <1>11, <1>12, <1>13, <1>14 DEF s, t, c, q, Loses
----------------------------------------------------------------------------
(***************************************************************************)
(* Nothing of the log is lost but what retention takes.                    *)
(***************************************************************************)

\* What was written is what retention took, what the files have and the buffer; while
\* the clock moves forward the files have it in the order of their names.
Accounts(gone, kept) ==
  /\ stream = (gone \o kept) \o w
  /\ Len(kept) = Len(Log(Dir, data))
  /\ steady => kept = Log(Dir, data)
  /\ gone # << >> => MaxFiles > 0 /\ Cardinality(Dir.rotated) >= MaxFiles

Complete ==
  /\ \A v \in 1 .. Len(versions) : Named(versions[v].rotated)
  /\ pc = "retain" => MaxFiles > 0
  /\ \E gone, kept \in Seq(Byte) : Accounts(gone, kept)

\* So segments have names to sort them by; and how sequences are joined.
LEMMA DirNamed ==
  ASSUME SinkInv, Complete
  PROVE  Named(Dir.rotated) /\ Log(Dir, data) \in Seq(Byte)
  <1>1. /\ Len(data) \in Nat /\ \A i \in 1 .. Len(data) : data[i] \in Seq(Byte)
        /\ Dir = versions[Len(versions)] /\ Len(versions) \in 1 .. Len(versions)
        /\ Dir \in Directory(Len(data))
    BY DiskOver DEF SinkInv
  <1>2. Named(Dir.rotated)
    BY <1>1 DEF Complete
  <1> QED BY <1>1, <1>2, LogParts

LEMMA ConcatTyped ==
  ASSUME NEW S, NEW a \in Seq(S), NEW b \in Seq(S)
  PROVE  a \o b \in Seq(S) /\ Len(a \o b) = Len(a) + Len(b) /\ Len(a) \in Nat /\ Len(b) \in Nat
  BY ConcatProperties, LenProperties

LEMMA ConcatAssoc == \A a, b, c \in Seq(Byte) : (a \o b) \o c = a \o (b \o c)
  BY ConcatAssociative

LEMMA ConcatNone == \A a \in Seq(Byte) : a \o << >> = a /\ << >> \o a = a
  BY ConcatEmptySeq

\* The parts of a sequence make it up again.
LEMMA PartsJoin ==
  ASSUME NEW S, NEW all \in Seq(S), NEW n \in 0 .. Len(all)
  PROVE  SubSeq(all, 1, n) \o SubSeq(all, n + 1, Len(all)) = all
  <1> DEFINE a == SubSeq(all, 1, n)
             b == SubSeq(all, n + 1, Len(all))
             u == a \o b
  <1>1. Len(all) \in Nat /\ \A i \in 1 .. Len(all) : all[i] \in S
    BY SeqOver
  <1>2. /\ a \in Seq(S) /\ Len(a) = n /\ \A i \in 1 .. n : a[i] = all[i]
    BY <1>1, SubSeqProperties
  <1>3. /\ b \in Seq(S) /\ Len(b) = Len(all) - n
        /\ \A i \in 1 .. Len(all) - n : b[i] = all[n + i]
    BY <1>1, SubSeqProperties
  <1> HIDE DEF a, b
  <1>4. /\ u \in Seq(S) /\ Len(u) = Len(a) + Len(b)
        /\ \A i \in 1 .. Len(a) + Len(b) : u[i] = IF i =< Len(a) THEN a[i] ELSE b[i - Len(a)]
    BY <1>2, <1>3, ConcatProperties
  <1> HIDE DEF u
  <1>5. Len(u) = Len(all)
    BY <1>1, <1>2, <1>3, <1>4
  <1>6. ASSUME NEW i \in 1 .. Len(u)
        PROVE  u[i] = all[i]
    <2>1. i \in 1 .. Len(all) /\ u[i] = IF i =< n THEN a[i] ELSE b[i - n]
      BY <1>1, <1>2, <1>3, <1>4
    <2>2. CASE i =< n
      BY <1>1, <1>2, <2>1, <2>2
    <2>3. CASE ~(i =< n)
      <3>1. i - n \in 1 .. Len(all) - n /\ n + (i - n) = i
        BY <1>1, <2>1, <2>3
      <3> QED BY <1>3, <2>1, <2>3, <3>1
    <2> QED BY <2>2, <2>3
  <1> QED BY <1>4, <1>5, <1>6, SeqEqual DEF u, a, b

\* What is not buffered any more comes first.
LEMMA FrontOf ==
  ASSUME NEW front \in Seq(Byte), NEW rest \in Seq(Byte), NEW part \in 0 .. Len(rest)
  PROVE  /\ SubSeq(front \o rest, 1, Len(front \o rest) - Len(rest)) = front
         /\ SubSeq(front \o rest, 1, Len(front \o rest) - Len(rest) + part) =
              front \o SubSeq(rest, 1, part)
  <1> DEFINE u == front \o rest
             n == Len(front)
  <1>1. /\ n \in Nat /\ Len(rest) \in Nat /\ u \in Seq(Byte) /\ Len(u) = n + Len(rest)
        /\ \A i \in 1 .. n + Len(rest) : u[i] = IF i =< n THEN front[i] ELSE rest[i - n]
    BY ConcatProperties, LenProperties
  <1>2. /\ \A i \in 1 .. Len(u) : u[i] \in Byte
        /\ \A i \in 1 .. Len(rest) : rest[i] \in Byte
    BY <1>1, SeqOver
  <1> HIDE DEF u, n
  <1>3. ASSUME NEW p \in 0 .. Len(rest)
        PROVE  SubSeq(u, 1, n + p) = front \o SubSeq(rest, 1, p)
    <2> DEFINE a == SubSeq(u, 1, n + p)
               b == SubSeq(rest, 1, p)
               c == front \o b
    <2>1. /\ a \in Seq(Byte) /\ Len(a) = n + p /\ \A i \in 1 .. n + p : a[i] = u[i]
      <3>1. n + p \in 0 .. Len(u)
        BY <1>1
      <3> QED BY <1>1, <1>2, <3>1, SubSeqProperties
    <2>2. /\ b \in Seq(Byte) /\ Len(b) = p /\ \A i \in 1 .. p : b[i] = rest[i]
      BY <1>1, <1>2, SubSeqProperties
    <2> HIDE DEF a, b
    <2>3. /\ c \in Seq(Byte) /\ Len(c) = n + p
          /\ \A i \in 1 .. n + p : c[i] = IF i =< n THEN front[i] ELSE b[i - n]
      BY <2>2, ConcatProperties DEF n
    <2> HIDE DEF c
    <2>4. ASSUME NEW i \in 1 .. Len(a)
          PROVE  a[i] = c[i]
      <3>1. /\ i \in 1 .. n + p /\ i \in 1 .. n + Len(rest)
            /\ a[i] = u[i] /\ u[i] = (IF i =< n THEN front[i] ELSE rest[i - n])
            /\ c[i] = IF i =< n THEN front[i] ELSE b[i - n]
        BY <1>1, <2>1, <2>3
      <3>2. CASE i =< n
        BY <3>1, <3>2
      <3>3. CASE ~(i =< n)
        <4>1. i - n \in 1 .. p
          BY <1>1, <3>1, <3>3
        <4> QED BY <2>2, <3>1, <3>3, <4>1
      <3> QED BY <3>2, <3>3
    <2> QED BY <2>1, <2>3, <2>4, SeqEqual DEF a, b, c
  <1>4. Len(u) - Len(rest) = n /\ Len(u) - Len(rest) + part = n + part /\ n + 0 = n
    BY <1>1
  <1>5. SubSeq(u, 1, n + part) = front \o SubSeq(rest, 1, part)
    BY <1>3
  <1>6. SubSeq(u, 1, n + 0) = front
    <2>1. 0 \in 0 .. Len(rest)
      BY <1>1
    <2>2. SubSeq(u, 1, n + 0) = front \o SubSeq(rest, 1, 0) /\ SubSeq(rest, 1, 0) = << >>
      BY <1>3, <2>1, Parts
    <2> QED BY <2>2, ConcatEmptySeq
  <1> QED BY <1>4, <1>5, <1>6 DEF u
----------------------------------------------------------------------------
(***************************************************************************)
(* Steps that write: what they do to the log and to the stream.            *)
(***************************************************************************)

\* What reaches the current file is at the end of the log.
LEMMA LogGrows ==
  ASSUME SinkInv, Complete, NEW all \in Seq(Byte), NEW n \in 0 .. Len(all),
         Reach(SubSeq(all, 1, n)), n > 0 => file = "open"
  PROVE  Log(Dir, data') = Log(Dir, data) \o SubSeq(all, 1, n)
  <1> DEFINE head == SubSeq(all, 1, n)
             d    == Dir
             cur  == d.current
  <1>1. /\ Len(data) \in Nat /\ \A i \in 1 .. Len(data) : data[i] \in Seq(Byte)
        /\ d = versions[Len(versions)] /\ Len(versions) \in 1 .. Len(versions)
        /\ d \in Directory(Len(data)) /\ cur \in 0 .. Len(data)
        /\ d.rotated \subseteq Segment(Len(data))
        /\ file = "open" => cur # 0
    BY DiskOver DEF SinkInv, InHand
  <1>2. head \in Seq(Byte) /\ Len(head) = n /\ (n = 0 => head = << >>)
    BY Parts
  <1>3. Named(d.rotated) /\ Log(d, data) \in Seq(Byte)
    BY DirNamed
  <1>4. data' = IF head = << >> THEN data ELSE [data EXCEPT ![cur] = @ \o head]
    BY DEF Reach
  <1>5. Grown
    BY Written
  <1>6. \A s \in d.rotated : s.inode \in 1 .. Len(data) /\ s.inode # cur
    <2>1. Dirs
      BY DEF SinkInv
    <2> QED BY <1>1, <2>1 DEF Dirs, Segment
  <1> HIDE DEF head, d
  <1>7. CASE head = << >>
    <2>1. Log(d, data') = Log(d, data)
      BY <1>4, <1>7
    <2>2. Log(d, data) \o << >> = Log(d, data)
      BY ONLY <1>3, ConcatNone
    <2> QED BY <1>7, <2>1, <2>2 DEF head, d
  <1>8. CASE head # << >>
    <2>1. file = "open" /\ cur # 0 /\ cur \in 1 .. Len(data)
      BY <1>1, <1>2, <1>8
    <2> DEFINE old == data[cur]
               s   == FlattenSeq(SegmentBytes(d, data))
    <2>2. old \in Seq(Byte) /\ old \o head \in Seq(Byte)
      BY <1>1, <1>2, <2>1, ConcatTyped
    <2>3. /\ \A i \in 1 .. Len(data) : data'[i] \in Seq(Byte)
          /\ data'[cur] = old \o head
          /\ \A i \in 1 .. Len(data) : i # cur => data'[i] = data[i]
      <3>1. data' = [data EXCEPT ![cur] = old \o head] /\ DOMAIN data = 1 .. Len(data)
        BY <1>4, <1>8, DiskOver DEF SinkInv
      <3> HIDE DEF old, cur
      <3>2. data'[cur] = old \o head /\ \A i \in 1 .. Len(data) : i # cur => data'[i] = data[i]
        BY <2>1, <3>1
      <3> QED BY <1>1, <2>2, <3>2
    <2>4. SegmentBytes(d, data') = SegmentBytes(d, data)
      <3>1. \A x \in d.rotated : data[x.inode] = data'[x.inode]
        BY <1>6, <2>3
      <3>2. Named(d.rotated) /\ d \in Directory(Len(data)) /\ Len(data) \in Nat
        BY <1>1, <1>3
      <3> HIDE DEF cur
      <3> QED BY <3>1, <3>2, SegmentsAgree
    <2>5. CurrentBytes(d, data) = old /\ CurrentBytes(d, data') = old \o head
      BY <2>1, <2>3 DEF CurrentBytes
    <2>6. Log(d, data) = s \o old /\ s \in Seq(Byte)
      <3>1. /\ Log(d, data) = s \o CurrentBytes(d, data) /\ s \in Seq(Byte)
        BY <1>1, <1>3, LogParts
      <3> QED BY <2>5, <3>1
    <2>7. Log(d, data') = s \o (old \o head)
      <3>1. Log(d, data') = FlattenSeq(SegmentBytes(d, data')) \o CurrentBytes(d, data')
        <4>1. PICK f : f = data'
          OBVIOUS
        <4>2. \A i \in 1 .. Len(data) : f[i] \in Seq(Byte)
          BY <2>3, <4>1
        <4>3. Log(d, f) = FlattenSeq(SegmentBytes(d, f)) \o CurrentBytes(d, f)
          BY <1>1, <1>3, <4>2, LogParts
        <4> QED BY <4>1, <4>3
      <3> QED BY <2>4, <2>5, <3>1
    <2> HIDE DEF s, old
    <2>8. (s \o old) \o head = s \o (old \o head)
      <3>1. s \in Seq(Byte) /\ old \in Seq(Byte) /\ head \in Seq(Byte)
        BY <1>2, <2>2, <2>6
      <3> QED BY ONLY <3>1, ConcatAssoc
    <2>9. Log(d, data') = Log(d, data) \o head
      BY ONLY <2>6, <2>7, <2>8
    <2> QED BY <2>9 DEF head, d
  <1> QED BY <1>7, <1>8 DEF head, d

\* What is appended to the stream is what reaches the file and what is buffered after.
Adds(head) == \A front \in Seq(Byte) : stream = front \o w => stream' = (front \o head) \o w'

\* The first n of these bytes reach the current file.
LEMMA Grows ==
  ASSUME SinkInv, Complete, NEW all \in Seq(Byte), NEW n \in 0 .. Len(all),
         Reach(SubSeq(all, 1, n)), n > 0 => file = "open",
         UNCHANGED <<versions, steady>>, pc' = "retain" => pc = "retain",
         Adds(SubSeq(all, 1, n))
  PROVE  Complete'
  <1>1. PICK head : head = SubSeq(all, 1, n)
    OBVIOUS
  <1>2. head \in Seq(Byte) /\ Adds(head)
    BY <1>1, Parts
  <1>3. PICK d : d = Dir
    OBVIOUS
  <1>4. Dir' = d
    BY <1>3 DEF Dir
  <1>5. Log(d, data') = Log(d, data) \o head /\ Log(d, data) \in Seq(Byte)
    BY <1>1, <1>3, LogGrows, DirNamed
  <1>6. PICK gone \in Seq(Byte), kept \in Seq(Byte) : Accounts(gone, kept)
    BY DEF Complete
  <1>7. gone \o kept \in Seq(Byte) /\ kept \o head \in Seq(Byte)
    BY <1>2, <1>6, ConcatTyped
  <1>8. stream' = (gone \o (kept \o head)) \o w'
    <2>1. stream' = ((gone \o kept) \o head) \o w'
      BY <1>2, <1>6, <1>7 DEF Accounts, Adds
    <2>2. (gone \o kept) \o head = gone \o (kept \o head)
      <3>1. gone \in Seq(Byte) /\ kept \in Seq(Byte) /\ head \in Seq(Byte)
        BY <1>2, <1>6
      <3> QED BY ONLY <3>1, ConcatAssoc
    <2> QED BY <2>1, <2>2
  <1>9. Len(kept \o head) = Len(Log(d, data'))
    <2>1. Len(kept \o head) = Len(kept) + Len(head)
      BY <1>2, <1>6, ConcatTyped
    <2>2. Len(Log(d, data')) = Len(Log(d, data)) + Len(head)
      BY <1>2, <1>5, ConcatTyped
    <2>3. Len(kept) = Len(Log(d, data))
      BY <1>3, <1>6 DEF Accounts
    <2> QED BY <2>1, <2>2, <2>3
  <1>10. steady' => kept \o head = Log(d, data')
    BY <1>3, <1>5, <1>6 DEF Accounts
  <1>11. gone # << >> => MaxFiles > 0 /\ Cardinality(d.rotated) >= MaxFiles
    BY <1>3, <1>6 DEF Accounts
  <1>12. Accounts(gone, kept \o head)'
    BY <1>4, <1>8, <1>9, <1>10, <1>11 DEF Accounts
  <1> QED BY <1>6, <1>7, <1>12 DEF Complete

\* What goes on in the buffer,
LEMMA BufferAdds ==
  ASSUME SinkInv, NEW bytes \in Seq(Byte), NEW all \in Seq(Byte), all = w \o bytes,
         NEW n \in 0 .. Len(all), w' = SubSeq(all, n + 1, Len(all)), stream' = stream \o bytes
  PROVE  Adds(SubSeq(all, 1, n))
  <1> DEFINE head == SubSeq(all, 1, n)
             rest == SubSeq(all, n + 1, Len(all))
  <1>1. head \in Seq(Byte) /\ rest \in Seq(Byte) /\ head \o rest = all /\ w \in Seq(Byte)
    BY Parts, PartsJoin, DiskOver DEF SinkInv
  <1> HIDE DEF head
  <1>2. w' = rest
    OBVIOUS
  <1> HIDE DEF rest
  <1>3. ASSUME NEW front \in Seq(Byte), stream = front \o w
        PROVE  stream' = (front \o head) \o w'
    <2>1. (front \o w) \o bytes = front \o (w \o bytes)
      <3>1. front \in Seq(Byte) /\ w \in Seq(Byte) /\ bytes \in Seq(Byte)
        BY <1>1
      <3> QED BY ONLY <3>1, ConcatAssoc
    <2>2. (front \o head) \o rest = front \o (head \o rest)
      <3>1. front \in Seq(Byte) /\ head \in Seq(Byte) /\ rest \in Seq(Byte)
        BY <1>1
      <3> QED BY ONLY <3>1, ConcatAssoc
    <2> QED BY <1>1, <1>2, <1>3, <2>1, <2>2
  <1> QED BY <1>3 DEF Adds, head

\* and what is lost from it.
LEMMA LossAdds ==
  ASSUME SinkInv, NEW head \in Seq(Byte), w' = << >>,
         stream' = SubSeq(stream, 1, Len(stream) - Len(w)) \o head
  PROVE  Adds(head)
  <1>1. w \in Seq(Byte) /\ Len(w) \in Nat
    BY DiskOver DEF SinkInv
  <1>2. ASSUME NEW front \in Seq(Byte), stream = front \o w
        PROVE  stream' = (front \o head) \o w'
    <2>1. SubSeq(front \o w, 1, Len(front \o w) - Len(w)) = front
      <3>1. 0 \in 0 .. Len(w)
        BY <1>1
      <3> QED BY <1>1, <3>1, FrontOf
    <2>2. front \o head \in Seq(Byte)
      BY ConcatTyped
    <2>3. (front \o head) \o << >> = front \o head
      BY <2>2, ConcatNone
    <2> QED BY <1>2, <2>1, <2>3
  <1> QED BY <1>2 DEF Adds

\* A step that leaves files, buffer and directories as they are.
LEMMA QuietComplete ==
  ASSUME Complete, UNCHANGED <<data, w, versions, steady, stream>>,
         pc' = "retain" => pc = "retain"
  PROVE  Complete'
  <1>1. Dir' = Dir
    BY DEF Dir
  <1>2. Log(Dir', data') = Log(Dir, data)
    BY <1>1
  <1>3. ASSUME NEW gone, NEW kept, Accounts(gone, kept)
        PROVE  Accounts(gone, kept)'
    BY <1>1, <1>2, <1>3 DEF Accounts
  <1> QED BY <1>3 DEF Complete

\* Bytes are written out, or some of them are and the rest is lost.
LEMMA WrittenComplete ==
  ASSUME SinkInv, Complete, NEW bytes \in Seq(Byte), NEW all \in Seq(Byte), all = w \o bytes,
         NEW n \in 0 .. Len(all), WriteOut(all, n), stream' = stream \o bytes,
         UNCHANGED <<versions, steady>>, pc' = "retain" => pc = "retain"
  PROVE  Complete'
  <1>1. file = "open" /\ Reach(SubSeq(all, 1, n)) /\ w' = SubSeq(all, n + 1, Len(all))
    BY DEF WriteOut
  <1>2. Adds(SubSeq(all, 1, n))
    BY <1>1, BufferAdds
  <1> QED BY <1>1, <1>2, Grows

LEMMA LostComplete ==
  ASSUME SinkInv, Complete, NEW all \in Seq(Byte), NEW n \in 0 .. Len(all),
         WriteOutFails(all, n), UNCHANGED <<versions, steady>>, pc' = "retain" => pc = "retain"
  PROVE  Complete'
  <1>1. PICK part \in 0 .. n - 1 :
          /\ part > 0 => file = "open"
          /\ Reach(SubSeq(all, 1, part))
          /\ stream' = SubSeq(stream, 1, Len(stream) - Len(w)) \o SubSeq(all, 1, part)
    BY DEF WriteOutFails
  <1>2. w' = << >> /\ Len(all) \in Nat
    BY LenProperties DEF WriteOutFails
  <1>3. part \in 0 .. Len(all)
    BY <1>2
  <1>4. Adds(SubSeq(all, 1, part))
    <2>1. SubSeq(all, 1, part) \in Seq(Byte)
      BY <1>3, Parts
    <2> QED BY <1>1, <1>2, <2>1, LossAdds
  <1> QED BY <1>1, <1>3, <1>4, Grows

LEMMA PutComplete ==
  ASSUME SinkInv, Complete, NEW n \in Sizes, Put(n), records < RecordBound
  PROVE  Complete'
  <1> DEFINE bytes == [i \in 1 .. n |-> records + 1]
             all   == w \o bytes
             out   == Spilled(bytes)
  <1>1. /\ TypeOK /\ w \in Seq(Byte) /\ Len(w) \in Nat
        /\ n \in Nat /\ n >= 1 /\ BufferSize \in Nat /\ records + 1 \in Byte
    <2>1. TypeOK
      BY DEF SinkInv
    <2>2. records \in 0 .. RecordBound /\ RecordBound \in Nat
      BY <2>1, Constants DEF TypeOK
    <2> QED BY <2>1, <2>2, DiskOver, Constants DEF Byte
  <1>2. bytes \in Seq(Byte) /\ Len(bytes) = n
    <2>1. bytes \in [1 .. n -> Byte]
      BY <1>1
    <2> QED BY <1>1, <2>1, IsASeq
  <1>3. UNCHANGED <<versions, steady>> /\ pc' = "idle"
    BY DEF Put
  <1>4. \/ /\ IF out = 0 THEN w' = all /\ UNCHANGED <<data, writer>> ELSE WriteOut(all, out)
           /\ stream' = stream \o bytes
        \/ WriteOutFails(all, out)
        \/ UNCHANGED <<data, w, stream>>
    BY DEF Put
  <1> HIDE DEF bytes
  <1>5. all \in Seq(Byte) /\ Len(all) = Len(w) + n
    BY <1>1, <1>2, ConcatTyped
  <1>6. out \in 0 .. Len(all)
    <2>1. out = IF Len(all) - BufferSize =< 0 THEN 0
                ELSE IF w = << >> \/ Len(all) - BufferSize > BufferSize THEN Len(all)
                ELSE BufferSize
      BY DEF Spilled
    <2> HIDE DEF all, out
    <2> QED BY <1>1, <1>5, <2>1
  <1>a. PICK b \in Seq(Byte), a \in Seq(Byte) : b = bytes /\ a = all /\ a = w \o b
    BY <1>2, <1>5
  <1>b. PICK k \in 0 .. Len(a) : k = out
    BY <1>6, <1>a
  <1>7. b = bytes /\ a = all /\ a = w \o b /\ k = out
    BY <1>a, <1>b
  <1> HIDE DEF all, out
  <1>8. CASE out = 0 /\ w' = all /\ UNCHANGED data /\ stream' = stream \o bytes
    <2>1. SubSeq(a, 1, 0) = << >> /\ SubSeq(a, 1, 0) \o SubSeq(a, 0 + 1, Len(a)) = a
          /\ SubSeq(a, 0 + 1, Len(a)) \in Seq(Byte)
      BY <1>7, <1>8, Parts, PartsJoin
    <2>2. SubSeq(a, 0 + 1, Len(a)) = a
      BY <2>1, ConcatNone
    <2>3. 0 \in 0 .. Len(a) /\ Reach(SubSeq(a, 1, 0)) /\ w' = SubSeq(a, 0 + 1, Len(a))
          /\ stream' = stream \o b
      BY <1>7, <1>8, <2>1, <2>2 DEF Reach
    <2>4. Adds(SubSeq(a, 1, 0))
      BY <1>7, <2>3, BufferAdds
    <2>5. ~(0 > 0)
      OBVIOUS
    <2>6. pc' # "retain"
      BY <1>3
    <2> QED BY <1>3, <2>3, <2>4, <2>5, <2>6, Grows
  <1>9. CASE WriteOut(all, out) /\ stream' = stream \o bytes
    <2>1. WriteOut(a, k) /\ stream' = stream \o b
      BY <1>7, <1>9
    <2> QED BY <1>3, <1>7, <2>1, WrittenComplete
  <1>10. CASE WriteOutFails(all, out)
    <2>1. WriteOutFails(a, k)
      BY <1>7, <1>10
    <2> QED BY <1>3, <2>1, LostComplete
  <1>11. CASE UNCHANGED <<data, w, stream>>
    BY <1>3, <1>11, QuietComplete
  <1> QED BY <1>4, <1>8, <1>9, <1>10, <1>11

LEMMA BufferOutComplete ==
  ASSUME SinkInv, Complete,
         (WriteOut(w, Len(w)) /\ UNCHANGED stream) \/ WriteOutFails(w, Len(w)),
         UNCHANGED <<versions, steady>>, pc' = "retain" => pc = "retain"
  PROVE  Complete'
  <1>1. w \in Seq(Byte) /\ Len(w) \in 0 .. Len(w) /\ << >> \in Seq(Byte)
    BY DiskOver, EmptyRange DEF SinkInv
  <1>2. PICK n \in 0 .. Len(w) : n = Len(w)
    BY <1>1
  <1>3. CASE WriteOut(w, Len(w)) /\ UNCHANGED stream
    <2>1. PICK none \in Seq(Byte) : none = << >>
      BY <1>1
    <2>2. w = w \o none
      BY <1>1, <2>1, ConcatNone
    <2>3. stream' = stream \o none
      <3>1. PICK gone \in Seq(Byte), kept \in Seq(Byte) : Accounts(gone, kept)
        BY DEF Complete
      <3>2. stream = (gone \o kept) \o w
        BY <3>1 DEF Accounts
      <3>3. gone \o kept \in Seq(Byte)
        BY <3>1, ConcatTyped
      <3>4. (gone \o kept) \o w \in Seq(Byte)
        BY <1>1, <3>3, ConcatTyped
      <3>5. stream \in Seq(Byte)
        BY <3>2, <3>4
      <3> QED BY <1>3, <2>1, <3>5, ConcatNone
    <2>4. WriteOut(w, n)
      BY <1>2, <1>3
    <2> QED BY <1>1, <2>2, <2>3, <2>4, WrittenComplete
  <1>4. CASE WriteOutFails(w, Len(w))
    <2>1. WriteOutFails(w, n)
      BY <1>2, <1>4
    <2> QED BY <1>1, <2>1, LostComplete
  <1> QED BY <1>3, <1>4

LEMMA WriteRecordComplete ==
  ASSUME SinkInv, Complete, NEW n \in Sizes, WriteRecord(n)
  PROVE  Complete'
  <1>1. CASE /\ UNCHANGED <<disk, time, runs, sinkVars, writers, failed, history>>
             /\ pc' # "retain"
    BY <1>1, QuietComplete DEF disk, sinkVars, history
  <1>2. CASE Put(n) /\ records < RecordBound
    BY <1>2, PutComplete
  <1> QED BY <1>1, <1>2 DEF WriteRecord

LEMMA FlushComplete == ASSUME SinkInv, Complete, Flush PROVE Complete'
  <1>1. UNCHANGED <<versions, steady, pc>>
    BY DEF Flush
  <1>2. CASE (WriteOut(w, Len(w)) /\ UNCHANGED stream) \/ WriteOutFails(w, Len(w))
    BY <1>1, <1>2, BufferOutComplete
  <1>3. CASE UNCHANGED <<data, w, stream>>
    BY <1>1, <1>3, QuietComplete
  <1> QED BY <1>2, <1>3 DEF Flush

LEMMA RotateComplete ==
  ASSUME SinkInv, Complete, RotateFlush \/ RotateSync \/ RotateClose \/ RotateFails
  PROVE  Complete'
  <1>1. CASE RotateFlush
    <2>1. UNCHANGED <<versions, steady, stream>> /\ pc' # "retain"
      BY <1>1 DEF RotateFlush, history
    <2>2. CASE UNCHANGED <<data, w>>
      BY <2>1, <2>2, QuietComplete
    <2>3. CASE WriteOut(w, Len(w))
      BY <2>1, <2>3, BufferOutComplete
    <2> QED BY <1>1, <2>2, <2>3 DEF RotateFlush
  <1>2. CASE RotateSync \/ RotateClose
    BY <1>2, QuietComplete DEF RotateSync, RotateClose, sinkVars, history, disk
  <1>3. CASE RotateFails
    <2>1. UNCHANGED <<versions, steady>> /\ pc' # "retain"
      BY <1>3 DEF RotateFails
    <2>2. CASE WriteOutFails(w, Len(w))
      BY <2>1, <2>2, BufferOutComplete
    <2>3. CASE UNCHANGED <<data, w, stream>>
      BY <2>1, <2>3, QuietComplete
    <2> QED BY <1>3, <2>2, <2>3 DEF RotateFails
  <1> QED BY <1>1, <1>2, <1>3

LEMMA CloseComplete == ASSUME SinkInv, Complete, Close PROVE Complete'
  <1>1. w' = << >> /\ UNCHANGED <<versions, steady>> /\ pc' # "retain"
    BY DEF Close
  <1>2. w \in Seq(Byte) /\ Len(w) \in 0 .. Len(w) /\ Len(w) \in Nat /\ SubSeq(w, 1, Len(w)) = w
    BY DiskOver, WholeSeq DEF SinkInv
  <1>3. PICK n \in 0 .. Len(w) :
          /\ Reach(SubSeq(w, 1, n)) /\ (n > 0 => file = "open")
          /\ \/ n = Len(w) /\ stream' = stream
             \/ stream' = SubSeq(stream, 1, Len(stream) - Len(w) + n)
    BY <1>2 DEF Close
  <1>4. SubSeq(w, 1, n) \in Seq(Byte)
    BY <1>2, Parts
  <1>5. ASSUME NEW front \in Seq(Byte), stream = front \o w
        PROVE  stream' = (front \o SubSeq(w, 1, n)) \o w'
    <2>1. stream' = front \o SubSeq(w, 1, n)
      BY <1>2, <1>3, <1>5, FrontOf
    <2>2. front \o SubSeq(w, 1, n) \in Seq(Byte)
      BY <1>4, ConcatTyped
    <2> QED BY <1>1, <2>1, <2>2, ConcatNone
  <1>6. Adds(SubSeq(w, 1, n))
    BY <1>5 DEF Adds
  <1> QED BY <1>1, <1>2, <1>3, <1>6, Grows

LEMMA KillComplete == ASSUME SinkInv, Complete, Kill PROVE Complete'
  <1>1. /\ w' = << >> /\ UNCHANGED <<data, versions, steady>> /\ pc' # "retain"
        /\ stream' = SubSeq(stream, 1, Len(stream) - Len(w))
    BY DEF Kill, disk
  <1>2. w \in Seq(Byte) /\ Len(w) \in Nat /\ << >> \in Seq(Byte)
    BY DiskOver, EmptyRange DEF SinkInv
  <1>3. PICK n \in 0 .. Len(w) : n = 0
    BY <1>2
  <1>4. SubSeq(w, 1, n) = << >> /\ ~(n > 0)
    BY <1>2, <1>3, Parts
  <1>5. Reach(SubSeq(w, 1, n))
    BY <1>1, <1>4 DEF Reach
  <1>6. ASSUME NEW front \in Seq(Byte), stream = front \o w
        PROVE  stream' = (front \o << >>) \o << >>
    <2>1. stream' = front
      BY <1>1, <1>2, <1>3, <1>6, FrontOf
    <2> QED BY <2>1, ConcatNone
  <1>7. Adds(SubSeq(w, 1, n))
    BY <1>1, <1>4, <1>6 DEF Adds
  <1> QED BY <1>1, <1>2, <1>4, <1>5, <1>7, Grows

LEMMA SyncDirComplete == ASSUME SinkInv, Complete, RotateSyncDir \/ RetainSyncDir PROVE Complete'
  <1>1. versions' = <<Dir>> /\ UNCHANGED <<data, w, steady, stream>>
    BY DEF RotateSyncDir, RetainSyncDir, SyncDir, sinkVars, history
  <1>2. pc' = "retain" => MaxFiles > 0
    BY DirectorySinkAssumption DEF RotateSyncDir, RetainSyncDir
  <1>3. Dir' = Dir /\ Len(versions') = 1 /\ versions'[1] = Dir
    BY <1>1 DEF Dir, Last
  <1>4. \A v \in 1 .. Len(versions') : Named(versions'[v].rotated)
    <2>1. Named(Dir.rotated)
      BY DirNamed
    <2>2. \A v \in 1 .. Len(versions') : v = 1
      BY <1>3
    <2> QED BY <1>3, <2>1, <2>2
  <1>5. Log(Dir', data') = Log(Dir, data)
    BY <1>1, <1>3
  <1>6. ASSUME NEW gone, NEW kept, Accounts(gone, kept)
        PROVE  Accounts(gone, kept)'
    BY <1>1, <1>3, <1>5, <1>6 DEF Accounts
  <1> QED BY <1>2, <1>4, <1>6 DEF Complete

LEMMA RunEndsComplete == ASSUME SinkInv, Complete, WriterEnds PROVE Complete'
  BY QuietComplete DEF WriterEnds, disk, sinkVars, history
----------------------------------------------------------------------------
(***************************************************************************)
(* Steps that change the directory.                                        *)
(***************************************************************************)

\* The directory as it is after a change.
LEMMA NewDir ==
  ASSUME SinkInv, Complete, NEW d, ChangeDir(d), Named(d.rotated)
  PROVE  Dir' = d /\ \A u \in 1 .. Len(versions') : Named(versions'[u].rotated)
  <1>1. versions \in Seq(Directory(Len(data)))
    BY AllTypes DEF SinkInv, DiskTypes
  <1>2. PICK S : S = Directory(Len(data)) \cup {d}
    OBVIOUS
  <1>3. versions \in Seq(S) /\ d \in S
    <2>1. \A v \in 1 .. Len(versions) : versions[v] \in S
      BY <1>1, <1>2, SeqOver
    <2>2. versions = [v \in 1 .. Len(versions) |-> versions[v]] /\ Len(versions) \in Nat
      BY <1>1, SeqOver
    <2> QED BY <1>2, <2>1, <2>2, IsASeq
  <1>4. Len(versions') = Len(versions) + 1 /\ versions'[Len(versions) + 1] = d
    BY <1>3, AppendProperties DEF ChangeDir
  <1>5. Dir' = d
    <2>1. Dir' = versions'[Len(versions')]
      BY DEF Dir, Last
    <2> QED BY <1>4, <2>1
  <1>6. \A u \in 1 .. Len(versions') :
          (\E v \in 1 .. Len(versions) : versions'[u] = versions[v]) \/ versions'[u] = d
    BY OneMore
  <1> QED BY <1>5, <1>6 DEF Complete

\* Retention takes what is at the beginning of the log.
LEMMA RetainComplete == ASSUME SinkInv, Complete, Retain PROVE Complete'
  <1> DEFINE e == RotatedFiles(Dir)[1]
             d == [Dir EXCEPT !.rotated = @ \ {e}]
  <1>1. /\ ChangeDir(d) /\ UNCHANGED <<data, w, steady, stream>> /\ pc = "retain" /\ pc' = pc
        /\ Cardinality(Dir.rotated) > MaxFiles
    BY DEF Retain, sinkVars, history
  <1>2. /\ Len(data) \in Nat /\ \A i \in 1 .. Len(data) : data[i] \in Seq(Byte)
        /\ Dir \in Directory(Len(data)) /\ MaxFiles \in Nat /\ w \in Seq(Byte)
    BY DiskOver, DirectorySinkAssumption DEF SinkInv
  <1>3. Named(Dir.rotated) /\ MaxFiles > 0
    BY <1>1, DirNamed DEF Complete
  <1>4. e \in Dir.rotated
    <2>1. Sorts(RotatedFiles(Dir), Dir.rotated) /\ Cardinality(Dir.rotated) \in Nat
      BY <1>3, RotatedSorts, SortedOnce
    <2>2. 1 \in 1 .. Cardinality(Dir.rotated)
      BY <1>1, <1>2, <2>1
    <2> QED BY <2>1, <2>2 DEF Sorts
  <1>5. /\ d \in Directory(Len(data)) /\ d.rotated = Dir.rotated \ {e}
        /\ d.current = 0 /\ Dir.current = 0
    <2>1. Dir.current = 0
      BY <1>1 DEF SinkInv, InHand
    <2> QED BY <1>2, <2>1 DEF Directory
  <1>6. PICK f : f = d
    OBVIOUS
  <1>e. e = RotatedFiles(Dir)[1]
    OBVIOUS
  <1> HIDE DEF d, e
  <1>7. /\ Named(f.rotated) /\ Cardinality(Dir.rotated) = Cardinality(f.rotated) + 1
        /\ Cardinality(f.rotated) \in Nat /\ data[e.inode] \in Seq(Byte)
        /\ Loses(Dir, f, e, data)
    <2>1. f \in Directory(Len(data)) /\ Lacks(f, Dir, e)
      BY <1>4, <1>5, <1>6 DEF Lacks
    <2>2. Len(data) \in Nat /\ Contents(Len(data), data)
      BY <1>2 DEF Contents
    <2>3. Dir \in Directory(Len(data)) /\ Named(Dir.rotated)
      BY <1>2, <1>3
    <2>4. Named(f.rotated) /\ Cardinality(Dir.rotated) = Cardinality(f.rotated) + 1
          /\ Cardinality(f.rotated) \in Nat
          /\ data[e.inode] \in Seq(Byte) /\ Loses(Dir, f, e, data)
      BY ONLY <2>1, <2>2, <2>3, OneSegment
    <2> QED BY <2>4
  <1>8. PICK x \in Seq(Byte), b \in Seq(Byte) :
          FlattenSeq(SegmentBytes(Dir, data)) = x \o b /\ FlattenSeq(SegmentBytes(f, data)) = b
    <2>1. PICK a \in Seq(Byte), b \in Seq(Byte) :
            /\ FlattenSeq(SegmentBytes(Dir, data)) = (a \o data[e.inode]) \o b
            /\ FlattenSeq(SegmentBytes(f, data)) = a \o b
            /\ a = << >>
      BY <1>e, <1>7 DEF Loses
    <2>2. a \o data[e.inode] = data[e.inode] /\ a \o b = b
      BY <1>7, <2>1, ConcatNone
    <2> QED BY <1>7, <2>1, <2>2
  <1>9. Log(Dir, data) = x \o b /\ Log(f, data) = b
    <2>1. Log(Dir, data) = FlattenSeq(SegmentBytes(Dir, data)) \o CurrentBytes(Dir, data)
      BY <1>2, <1>3, LogParts
    <2>2. Log(f, data) = FlattenSeq(SegmentBytes(f, data)) \o CurrentBytes(f, data)
      BY <1>2, <1>5, <1>6, <1>7, LogParts
    <2>3. CurrentBytes(Dir, data) = << >> /\ CurrentBytes(f, data) = << >>
      BY <1>5, <1>6 DEF CurrentBytes
    <2>4. x \o b \in Seq(Byte)
      BY ConcatTyped
    <2>5. (x \o b) \o << >> = x \o b /\ b \o << >> = b
      BY <2>4, ConcatNone
    <2> QED BY <1>8, <2>1, <2>2, <2>3, <2>5
  <1>10. Dir' = f /\ \A u \in 1 .. Len(versions') : Named(versions'[u].rotated)
    BY <1>1, <1>6, <1>7, NewDir
  <1>11. Log(Dir', data') = b
    BY <1>1, <1>9, <1>10
  <1>12. PICK gone \in Seq(Byte), kept \in Seq(Byte) : Accounts(gone, kept)
    BY DEF Complete
  <1>13. PICK k1 \in Seq(Byte), k2 \in Seq(Byte) :
           kept = k1 \o k2 /\ Len(k2) = Len(b) /\ (steady => k2 = b)
    <2>1. Len(kept) = Len(x) + Len(b) /\ Len(x) \in Nat /\ Len(b) \in Nat
      BY <1>9, <1>12, ConcatTyped DEF Accounts
    <2>2. CASE steady
      BY <1>9, <1>12, <2>2 DEF Accounts
    <2>3. CASE ~steady
      <3> DEFINE y == SubSeq(kept, 1, Len(x))
                 z == SubSeq(kept, Len(x) + 1, Len(kept))
      <3>1. Len(x) \in 0 .. Len(kept)
        BY <2>1
      <3>2. y \in Seq(Byte) /\ z \in Seq(Byte) /\ Len(z) = Len(kept) - Len(x) /\ y \o z = kept
        <4>1. kept \in Seq(Byte)
          BY <1>12
        <4>2. y \in Seq(Byte) /\ z \in Seq(Byte) /\ Len(z) = Len(kept) - Len(x)
          BY <3>1, <4>1, Parts
        <4>3. y \o z = kept
          BY <3>1, <4>1, PartsJoin
        <4> QED BY <4>2, <4>3
      <3> HIDE DEF y, z
      <3>3. Len(z) = Len(b)
        BY <2>1, <3>2
      <3> QED BY <2>3, <3>2, <3>3
    <2> QED BY <2>2, <2>3
  <1>14. gone \o k1 \in Seq(Byte)
    BY ConcatTyped
  <1>15. stream' = ((gone \o k1) \o k2) \o w'
    <2>1. stream = (gone \o (k1 \o k2)) \o w
      BY <1>12, <1>13 DEF Accounts
    <2>2. (gone \o k1) \o k2 = gone \o (k1 \o k2)
      <3>1. gone \in Seq(Byte) /\ k1 \in Seq(Byte) /\ k2 \in Seq(Byte)
        BY <1>12, <1>13
      <3>2. \A y, z \in Seq(Byte) : (gone \o y) \o z = gone \o (y \o z)
        BY ONLY <3>1, ConcatAssoc
      <3> QED BY ONLY <3>1, <3>2
    <2> QED BY <1>1, <2>1, <2>2
  <1>16. MaxFiles > 0 /\ Cardinality(Dir'.rotated) >= MaxFiles
    BY <1>1, <1>2, <1>3, <1>7, <1>10
  <1>17. Accounts(gone \o k1, k2)'
    BY <1>1, <1>11, <1>13, <1>15, <1>16 DEF Accounts
  <1> QED BY <1>1, <1>3, <1>10, <1>14, <1>17 DEF Complete

\* The new segment has what the current file had: while the clock moves forward, at
\* the end of the log.
LEMMA RenameComplete == ASSUME SinkInv, Order, Complete, RotateRename PROVE Complete'
  <1>1. PICK t \in 1 .. TimeBound :
          /\ time' = t /\ steady' = (steady /\ t > time)
          /\ ChangeDir([current |-> 0,
                        rotated |->
                          {s \in Dir.rotated : s.time # t \/ s.suffix # RotationPath(t)} \cup
                            {[time |-> t, suffix |-> RotationPath(t), inode |-> Dir.current]}])
    BY DEF RotateRename
  <1> DEFINE new == [time |-> t, suffix |-> RotationPath(t), inode |-> Dir.current]
             d   == [current |-> 0, rotated |-> Dir.rotated \cup {new}]
  <1>2. RotationPath(t) \in Nat
        /\ \A s \in Dir.rotated : ~(s.time = t /\ s.suffix = RotationPath(t))
    BY UnusedName
  <1>3. ChangeDir(d)
    <2>1. {s \in Dir.rotated : s.time # t \/ s.suffix # RotationPath(t)} = Dir.rotated
      BY <1>2
    <2> QED BY <1>1, <2>1
  <1>4. UNCHANGED <<data, w, stream>> /\ pc' # "retain"
    BY DEF RotateRename, sinkVars
  <1>5. /\ Len(data) \in Nat /\ \A i \in 1 .. Len(data) : data[i] \in Seq(Byte)
        /\ Dir \in Directory(Len(data)) /\ Dir.rotated \subseteq Segment(Len(data))
        /\ w \in Seq(Byte) /\ Dir.current \in 1 .. Len(data)
        /\ time \in Int /\ t \in 1 .. TimeBound /\ TimeBound \in Nat
    <2>1. Dir.current # 0 /\ TypeOK /\ time \in 0 .. TimeBound
      BY DEF SinkInv, InHand, RotateRename, TypeOK
    <2> QED BY <2>1, DiskOver, Constants
  <1>6. Named(Dir.rotated)
    BY DirNamed
  <1>7. /\ new \in Segment(Len(data)) /\ new.inode = Dir.current /\ new \notin Dir.rotated
        /\ new.time = t /\ new.suffix = RotationPath(t)
    BY <1>2, <1>5 DEF Segment
  <1>8. PICK e : e = new
    OBVIOUS
  <1> HIDE DEF new
  <1>9. PICK f : f = d
    OBVIOUS
  <1>10. f.current = 0 /\ f.rotated = Dir.rotated \cup {e} /\ f \in Directory(Len(data))
    BY <1>5, <1>7, <1>8, <1>9 DEF Directory
  <1> HIDE DEF d
  <1>11. Named(f.rotated)
    <2>1. IsFiniteSet(f.rotated)
      BY <1>6, <1>10, FS_AddElement DEF Named
    <2>2. t \in Nat /\ e.time = t /\ e.suffix = RotationPath(t) /\ RotationPath(t) \in Nat
      BY <1>2, <1>5, <1>7, <1>8
    <2>3. \A s \in f.rotated : s.time \in Nat /\ s.suffix \in Nat
      BY <1>6, <1>10, <2>2 DEF Named
    <2>4. \A s, u \in f.rotated : s.time = u.time /\ s.suffix = u.suffix => s = u
      BY <1>2, <1>6, <1>10, <2>2 DEF Named
    <2> QED BY <2>1, <2>3, <2>4 DEF Named
  <1>12. /\ Cardinality(f.rotated) = Cardinality(Dir.rotated) + 1
         /\ Cardinality(Dir.rotated) \in Nat
         /\ data[e.inode] \in Seq(Byte) /\ Loses(f, Dir, e, data)
    <2>1. Lacks(Dir, f, e)
      BY <1>7, <1>8, <1>10 DEF Lacks
    <2>2. Len(data) \in Nat /\ Contents(Len(data), data)
      BY <1>5 DEF Contents
    <2>3. f \in Directory(Len(data)) /\ Named(f.rotated) /\ Dir \in Directory(Len(data))
      BY <1>5, <1>10, <1>11
    <2> QED BY ONLY <2>1, <2>2, <2>3, OneSegment
  <1>13. PICK a \in Seq(Byte), b \in Seq(Byte) :
           /\ FlattenSeq(SegmentBytes(f, data)) = (a \o data[e.inode]) \o b
           /\ FlattenSeq(SegmentBytes(Dir, data)) = a \o b
           /\ (\A s \in Dir.rotated : Earlier(s, e)) => b = << >>
    BY <1>12 DEF Loses
  <1>14. PICK x \in Seq(Byte) : x = data[e.inode] /\ x = data[Dir.current]
    BY <1>7, <1>8, <1>12
  <1>15. Log(Dir, data) = (a \o b) \o x /\ Log(f, data) = (a \o x) \o b
    <2>1. Log(Dir, data) = FlattenSeq(SegmentBytes(Dir, data)) \o CurrentBytes(Dir, data)
      BY <1>5, <1>6, LogParts
    <2>2. Log(f, data) = FlattenSeq(SegmentBytes(f, data)) \o CurrentBytes(f, data)
      BY <1>5, <1>10, <1>11, LogParts
    <2>3. CurrentBytes(Dir, data) = x /\ CurrentBytes(f, data) = << >>
      BY <1>5, <1>10, <1>14 DEF CurrentBytes
    <2>4. (a \o x) \o b \in Seq(Byte)
      <3>1. a \o x \in Seq(Byte)
        BY ConcatTyped
      <3> QED BY <3>1, ConcatTyped
    <2>5. ((a \o x) \o b) \o << >> = (a \o x) \o b
      BY <2>4, ConcatNone
    <2> QED BY <1>13, <1>14, <2>1, <2>2, <2>3, <2>5
  <1>16. Dir' = f /\ \A u \in 1 .. Len(versions') : Named(versions'[u].rotated)
    BY <1>3, <1>9, <1>11, NewDir
  <1>17. Log(Dir', data') = (a \o x) \o b
    BY <1>4, <1>15, <1>16
  <1>18. Len((a \o x) \o b) = Len((a \o b) \o x)
    <2>1. /\ a \o x \in Seq(Byte) /\ Len(a \o x) = Len(a) + Len(x)
          /\ a \o b \in Seq(Byte) /\ Len(a \o b) = Len(a) + Len(b)
          /\ Len(a) \in Nat /\ Len(b) \in Nat /\ Len(x) \in Nat
      BY ConcatTyped
    <2>2. /\ Len((a \o x) \o b) = Len(a \o x) + Len(b)
          /\ Len((a \o b) \o x) = Len(a \o b) + Len(x)
      BY <2>1, ConcatTyped
    <2> QED BY <2>1, <2>2
  <1>19. steady' => steady /\ Log(f, data) = Log(Dir, data)
    <2> SUFFICES ASSUME steady'
                 PROVE  steady /\ Log(f, data) = Log(Dir, data)
      OBVIOUS
    <2>1. steady /\ t > time
      BY <1>1, Zenon
    <2>2. \A s \in Dir.rotated : s.time =< time /\ s.time \in Int
      BY <1>5, <2>1, LastInTurn DEF InTurn, Segment
    <2>3. e.time = t
      BY <1>7, <1>8
    <2>4. \A s \in Dir.rotated : Earlier(s, e)
      BY <1>5, <2>1, <2>2, <2>3 DEF Earlier
    <2>5. b = << >>
      BY <1>13, <2>4
    <2>6. a \o x \in Seq(Byte)
      BY ConcatTyped
    <2>7. (a \o << >>) \o x = a \o x /\ (a \o x) \o << >> = a \o x
      BY <2>6, ConcatNone
    <2> QED BY <1>15, <2>1, <2>5, <2>7
  <1>20. PICK gone \in Seq(Byte), kept \in Seq(Byte) : Accounts(gone, kept)
    BY DEF Complete
  <1>21. Accounts(gone, kept)'
    <2>1. stream' = (gone \o kept) \o w'
      BY <1>4, <1>20 DEF Accounts
    <2>2. Len(kept) = Len(Log(Dir', data'))
      BY <1>15, <1>17, <1>18, <1>20 DEF Accounts
    <2>3. steady' => kept = Log(Dir', data')
      BY <1>15, <1>17, <1>19, <1>20 DEF Accounts
    <2>4. gone # << >> => MaxFiles > 0 /\ Cardinality(Dir'.rotated) >= MaxFiles
      <3>1. MaxFiles \in Nat
        BY DirectorySinkAssumption
      <3>2. gone # << >> => MaxFiles > 0 /\ Cardinality(Dir.rotated) >= MaxFiles
        BY <1>20 DEF Accounts
      <3>3. Cardinality(Dir'.rotated) = Cardinality(Dir.rotated) + 1
        BY <1>12, <1>16
      <3> QED BY <1>12, <3>1, <3>2, <3>3
    <2> QED BY <2>1, <2>2, <2>3, <2>4 DEF Accounts
  <1> QED BY <1>4, <1>16, <1>20, <1>21 DEF Complete

\* A file that is new is empty.
LEMMA OpenComplete == ASSUME SinkInv, Complete, Start \/ Reopen PROVE Complete'
  <1> DEFINE d == [Dir EXCEPT !.current = Len(data) + 1]
  <1>1. /\ OpenCurrent /\ UNCHANGED <<w, steady, stream>> /\ pc' # "retain"
        /\ pc \in {"down", "open"}
    BY NoBuffer DEF Start, Reopen, OpenCurrent, history
  <1>2. CASE UNCHANGED disk
    BY <1>1, <1>2, QuietComplete DEF disk
  <1>3. CASE Created /\ ChangeDir(d) /\ Dir.current = 0
    <2>1. /\ TypeOK /\ Len(data) \in Nat /\ Dir \in Directory(Len(data))
          /\ Dir.rotated \subseteq Segment(Len(data))
          /\ \A i \in 1 .. Len(data) : data[i] \in Seq(Byte)
      BY DiskOver DEF SinkInv
    <2>2. PICK g, n : g = data' /\ n = Len(data) + 1
      OBVIOUS
    <2>3. /\ \A i \in 1 .. Len(data) : g[i] = data[i]
          /\ n \in Nat /\ g \in Seq(Seq(Byte)) /\ Len(g) = n
          /\ \A i \in 1 .. n : i > Len(data) => g[i] = << >>
      BY <1>3, <2>1, <2>2, CreatedDisk
    <2>4. g[n] = << >> /\ \A i \in 1 .. n : g[i] \in Seq(Byte)
      <3>1. n \in 1 .. n /\ n > Len(data)
        BY <2>1, <2>2
      <3> QED BY <2>3, <3>1, SeqOver
    <2>5. PICK f : f = d
      OBVIOUS
    <2>6. f.rotated = Dir.rotated /\ f.current = n /\ f \in Directory(n) /\ n # 0
      <3>1. \A s \in Dir.rotated : s \in Segment(n)
        BY <2>1, <2>2 DEF Segment
      <3>2. f.rotated = Dir.rotated /\ f.current = n
        BY <2>1, <2>2, <2>5 DEF Directory
      <3>3. n \in 0 .. n /\ n # 0
        BY <2>1, <2>2
      <3> QED BY <2>1, <2>5, <3>1, <3>2, <3>3 DEF Directory
    <2> HIDE DEF d
    <2>7. Named(Dir.rotated) /\ Named(f.rotated)
      BY <2>6, DirNamed
    <2>8. Dir' = f /\ \A u \in 1 .. Len(versions') : Named(versions'[u].rotated)
      BY <1>3, <2>5, <2>7, NewDir
    <2>9. SegmentBytes(f, g) = SegmentBytes(Dir, data)
      <3>1. \A s \in Dir.rotated : data[s.inode] = g[s.inode]
        BY <2>1, <2>3 DEF Segment
      <3>2. SegmentBytes(Dir, data) = SegmentBytes(Dir, g)
        BY <2>1, <2>7, <3>1, SegmentsAgree
      <3>3. SegmentBytes(f, g) = SegmentBytes(Dir, g)
        BY <2>6 DEF SegmentBytes, RotatedFiles
      <3> QED BY <3>2, <3>3
    <2>10. CurrentBytes(f, g) = << >> /\ CurrentBytes(Dir, data) = << >>
      BY <1>3, <2>4, <2>6 DEF CurrentBytes
    <2>11. Log(Dir, data) = FlattenSeq(SegmentBytes(Dir, data)) \o CurrentBytes(Dir, data)
      BY <2>1, <2>7, LogParts
    <2>12. Log(f, g) = FlattenSeq(SegmentBytes(f, g)) \o CurrentBytes(f, g)
      BY <2>3, <2>4, <2>6, <2>7, LogParts
    <2>13. Log(Dir', data') = Log(Dir, data)
      BY <2>2, <2>8, <2>9, <2>10, <2>11, <2>12
    <2>14. ASSUME NEW gone, NEW kept, Accounts(gone, kept)
           PROVE  Accounts(gone, kept)'
      BY <1>1, <2>6, <2>8, <2>13, <2>14 DEF Accounts
    <2> QED BY <1>1, <2>8, <2>14 DEF Complete
  <1> QED BY <1>1, <1>2, <1>3 DEF OpenCurrent, Created
----------------------------------------------------------------------------
(***************************************************************************)
(* After a power loss, at the start, and in every step.                    *)
(***************************************************************************)

\* After a power loss the stream is what the files have.
LEMMA PowerLossComplete == ASSUME SinkInv, SinkInv', Complete, PowerLoss PROVE Complete'
  <1>1. w' = << >> /\ UNCHANGED steady /\ pc' # "retain"
    BY DEF PowerLoss
  <1>2. DOMAIN versions = 1 .. Len(versions)
    BY DiskOver DEF SinkInv
  <1>3. PICK v \in 1 .. Len(versions) :
          versions' = <<versions[v]>> /\ stream' = Log(versions[v], data')
    BY <1>2 DEF PowerLoss
  <1>4. PICK d : d = versions[v]
    OBVIOUS
  <1>5. Dir' = d /\ Len(versions') = 1 /\ versions'[1] = d /\ versions' = <<d>>
    BY <1>3, <1>4 DEF Dir, Last
  <1>6. Named(d.rotated) /\ \A u \in 1 .. Len(versions') : Named(versions'[u].rotated)
    <2>1. Named(d.rotated)
      BY <1>4 DEF Complete
    <2>2. \A u \in 1 .. Len(versions') : u = 1
      BY <1>5
    <2> QED BY <1>5, <2>1, <2>2
  <1>7. PICK g : g = data'
    OBVIOUS
  <1>8. /\ Len(g) \in Nat /\ \A i \in 1 .. Len(g) : g[i] \in Seq(Byte)
        /\ d \in Directory(Len(g))
    <2>1. /\ data' \in Seq(Seq(Byte))
          /\ versions' \in Seq([current : 0 .. Len(data'),
                                rotated : SUBSET [time : 1 .. TimeBound, suffix : Nat,
                                                  inode : 1 .. Len(data')]])
      BY DEF SinkInv, TypeOK, Byte
    <2>2. versions' \in Seq(Directory(Len(g)))
      BY <1>7, <2>1 DEF Directory, Segment
    <2>3. 1 \in 1 .. Len(versions')
      BY <1>5
    <2>4. versions'[1] \in Directory(Len(g))
      BY <2>2, <2>3, SeqOver
    <2> QED BY <1>5, <1>7, <2>1, <2>4, SeqOver
  <1>9. Log(d, g) \in Seq(Byte)
    BY <1>6, <1>8, LogParts
  <1>10. PICK log \in Seq(Byte), none \in Seq(Byte) : log = Log(d, g) /\ none = << >>
    BY <1>9, EmptyRange
  <1>11. Accounts(none, log)'
    <2>1. (none \o log) \o << >> = log
      BY <1>10, ConcatNone
    <2>2. stream' = (none \o log) \o w'
      BY <1>1, <1>3, <1>4, <1>7, <1>10, <2>1
    <2>3. log = Log(Dir', data')
      BY <1>5, <1>7, <1>10
    <2> QED BY <1>10, <2>2, <2>3 DEF Accounts
  <1> QED BY <1>1, <1>6, <1>10, <1>11 DEF Complete

LEMMA CompleteInit == Init => Complete
  <1> SUFFICES ASSUME Init PROVE Complete
    OBVIOUS
  <1>1. /\ data = << >> /\ w = << >> /\ stream = << >> /\ pc = "down"
        /\ versions = <<[current |-> 0, rotated |-> {}]>>
    BY DEF Init
  <1>2. Len(versions) = 1 /\ Dir = versions[1] /\ versions[1].current = 0 /\ versions[1].rotated = {}
    BY <1>1 DEF Dir, Last
  <1>3. Named({}) /\ Cardinality({}) = 0
    BY FS_EmptySet DEF Named
  <1>4. \A v \in 1 .. Len(versions) : Named(versions[v].rotated)
    <2>1. \A v \in 1 .. Len(versions) : v = 1
      BY <1>2
    <2> QED BY <1>2, <1>3, <2>1
  <1>5. Log(Dir, data) = << >>
    <2>1. PICK n \in {0}, g \in {data} : n = 0 /\ g = data
      OBVIOUS
    <2>a. Dir \in Directory(n) /\ (\A i \in 1 .. n : g[i] \in Seq(Byte)) /\ Named(Dir.rotated)
      <3>1. Dir = [current |-> 0, rotated |-> {}]
        BY <1>1, <1>2
      <3>2. Dir \in Directory(n)
        BY <2>1, <3>1 DEF Directory
      <3> QED BY <1>2, <1>3, <2>1, <3>2
    <2>b. /\ SegmentBytes(Dir, g) \in Seq(Seq(Byte))
          /\ Len(SegmentBytes(Dir, g)) = Cardinality(Dir.rotated)
          /\ Log(Dir, g) = FlattenSeq(SegmentBytes(Dir, g)) \o CurrentBytes(Dir, g)
      BY <2>a, LogParts
    <2>2. /\ SegmentBytes(Dir, data) \in Seq(Seq(Byte)) /\ Len(SegmentBytes(Dir, data)) = 0
          /\ Log(Dir, data) = FlattenSeq(SegmentBytes(Dir, data)) \o CurrentBytes(Dir, data)
      BY <1>2, <1>3, <2>1, <2>b
    <2>3. SegmentBytes(Dir, data) = << >> /\ CurrentBytes(Dir, data) = << >>
      BY <1>2, <2>2, EmptySeq DEF CurrentBytes
    <2>4. Log(Dir, data) = << >> \o << >>
      BY <2>2, <2>3, FlattenSeqEmpty
    <2> QED BY <2>4, ConcatNone, EmptyRange
  <1>6. PICK none \in Seq(Byte) : none = << >>
    BY EmptyRange
  <1>7. Accounts(none, none)
    <2>1. (none \o none) \o << >> = << >>
      BY <1>6, ConcatNone
    <2> QED BY <1>1, <1>5, <1>6, <2>1 DEF Accounts
  <1> QED BY <1>1, <1>4, <1>6, <1>7 DEF Complete

LEMMA CompleteStep == ASSUME SinkInv, Order, Complete, [Next]_vars, SinkInv' PROVE Complete'
  <1>1. CASE UNCHANGED vars
    BY <1>1, QuietComplete DEF vars, disk, sinkVars, history
  <1>2. ASSUME NEW n \in Sizes, WriteRecord(n)
        PROVE  Complete'
    BY <1>2, WriteRecordComplete
  <1>3. CASE WriteAfterRotation
    <2>1. pending \in Sizes /\ records < RecordBound /\ Put(pending)
      BY <1>3 DEF WriteAfterRotation, SinkInv, InHand
    <2> QED BY <2>1, PutComplete
  <1> QED BY <1>1, <1>2, <1>3, FlushComplete, RotateComplete, RenameComplete, SyncDirComplete,
             RetainComplete, OpenComplete, RunEndsComplete, CloseComplete, KillComplete,
             PowerLossComplete
          DEF Next

(***************************************************************************)
(* What was written is what retention took, what the files have and what   *)
(* the buffer has, whatever fails and whenever the process dies.           *)
(***************************************************************************)
THEOREM CompleteInvariant == Spec => []Complete
  <1>1. SinkInv /\ Order /\ Complete /\ [Next]_vars => SinkInv' /\ Order' /\ Complete'
    BY SinkStep, OrderStep, CompleteStep
  <1> QED BY <1>1, SinkInit, OrderInit, CompleteInit, PTL DEF Spec

\* What is at the end of a sequence is a suffix of it.
LEMMA EndsWith ==
  ASSUME NEW a \in Seq(Byte), NEW b \in Seq(Byte)
  PROVE  IsSuffix(b, a \o b)
  <1> DEFINE u == a \o b
             r == Reverse(b)
             q == Reverse(u)
             n == Len(b)
             m == Len(u)
  <1>1. /\ n \in Nat /\ Len(a) \in Nat /\ u \in Seq(Byte) /\ m = Len(a) + n
        /\ \A i \in 1 .. Len(a) + n : u[i] = IF i =< Len(a) THEN a[i] ELSE b[i - Len(a)]
    BY ConcatProperties, LenProperties
  <1>2. \A i \in 1 .. n : b[i] \in Byte
    BY SeqOver
  <1> HIDE DEF u
  <1>3. \A i \in 1 .. m : u[i] \in Byte
    BY <1>1, SeqOver
  <1>4. r = [i \in 1 .. n |-> b[(n - i) + 1]] /\ q = [i \in 1 .. m |-> u[(m - i) + 1]]
    BY DEF Reverse
  <1> HIDE DEF n, m, r, q
  <1>5. r \in Seq(Byte) /\ Len(r) = n /\ \A i \in 1 .. n : r[i] = b[(n - i) + 1]
    <2>1. \A i \in 1 .. n : (n - i) + 1 \in 1 .. n
      BY <1>1
    <2> QED BY <1>1, <1>2, <1>4, <2>1, IsASeq
  <1>6. q \in Seq(Byte) /\ Len(q) = m /\ \A i \in 1 .. m : q[i] = u[(m - i) + 1]
    <2>1. \A i \in 1 .. m : (m - i) + 1 \in 1 .. m
      BY <1>1
    <2> QED BY <1>1, <1>3, <1>4, <2>1, IsASeq
  <1>7. /\ SubSeq(r, 1, n) \in Seq(Byte) /\ Len(SubSeq(r, 1, n)) = n
        /\ \A i \in 1 .. n : SubSeq(r, 1, n)[i] = r[i]
        /\ SubSeq(q, 1, n) \in Seq(Byte) /\ Len(SubSeq(q, 1, n)) = n
        /\ \A i \in 1 .. n : SubSeq(q, 1, n)[i] = q[i]
    <2>1. n \in 0 .. Len(r) /\ n \in 0 .. Len(q)
      BY <1>1, <1>5, <1>6
    <2>2. (\A i \in 1 .. n : r[i] \in Byte) /\ \A i \in 1 .. n : q[i] \in Byte
      BY <1>1, <1>5, <1>6, SeqOver
    <2> QED BY <1>1, <2>1, <2>2, SubSeqProperties
  <1>8. \A i \in 1 .. n : r[i] = q[i]
    <2> SUFFICES ASSUME NEW i \in 1 .. n PROVE r[i] = q[i]
      OBVIOUS
    <2>1. /\ (m - i) + 1 \in 1 .. Len(a) + n /\ ~((m - i) + 1 =< Len(a))
          /\ ((m - i) + 1) - Len(a) = (n - i) + 1 /\ i \in 1 .. m
      BY <1>1
    <2>2. u[(m - i) + 1] = b[((m - i) + 1) - Len(a)]
      BY <1>1, <2>1
    <2> QED BY <1>5, <1>6, <2>1, <2>2
  <1>9. SubSeq(r, 1, n) = SubSeq(q, 1, n) /\ n <= m
    <2>1. \A i \in 1 .. Len(SubSeq(r, 1, n)) : SubSeq(r, 1, n)[i] = SubSeq(q, 1, n)[i]
      BY <1>7, <1>8
    <2> QED BY <1>1, <1>7, <2>1, SeqEqual
  <1> QED BY <1>5, <1>6, <1>9 DEF IsSuffix, IsPrefix, u, r, q, n

LEMMA CompleteLog == SinkInv /\ Complete => LogInOrder
  <1> SUFFICES ASSUME SinkInv, Complete PROVE LogInOrder
    OBVIOUS
  <1>1. w \in Seq(Byte) /\ Log(Dir, data) \in Seq(Byte)
    BY DirNamed, DiskOver DEF SinkInv
  <1>2. PICK gone \in Seq(Byte), kept \in Seq(Byte) : Accounts(gone, kept)
    BY DEF Complete
  <1>3. PICK log \in Seq(Byte) : log = Log(Dir, data)
    BY <1>1
  <1>4. /\ gone \o kept \in Seq(Byte) /\ Len(gone \o kept) = Len(gone) + Len(kept)
        /\ kept \o w \in Seq(Byte) /\ log \o w \in Seq(Byte) /\ Len(log \o w) = Len(log) + Len(w)
        /\ Len(gone) \in Nat /\ Len(kept) \in Nat /\ Len(log) \in Nat /\ Len(w) \in Nat
    BY <1>1, ConcatTyped
  <1>5. stream \in Seq(Byte) /\ Len(stream) = (Len(gone) + Len(kept)) + Len(w)
    <2>1. stream = (gone \o kept) \o w
      BY <1>2 DEF Accounts
    <2>2. /\ (gone \o kept) \o w \in Seq(Byte)
          /\ Len((gone \o kept) \o w) = Len(gone \o kept) + Len(w)
      BY <1>1, <1>4, ConcatTyped
    <2> QED BY <1>4, <2>1, <2>2
  <1>6. steady => IsSuffix(log \o w, stream)
    <2> SUFFICES ASSUME steady PROVE IsSuffix(log \o w, stream)
      OBVIOUS
    <2>1. stream = (gone \o log) \o w
      BY <1>2, <1>3 DEF Accounts
    <2>2. (gone \o log) \o w = gone \o (log \o w)
      <3>1. gone \in Seq(Byte) /\ log \in Seq(Byte) /\ w \in Seq(Byte)
        BY <1>1, <1>2, <1>3
      <3>2. \A y, z \in Seq(Byte) : (gone \o y) \o z = gone \o (y \o z)
        BY ONLY <3>1, ConcatAssoc
      <3> QED BY ONLY <3>1, <3>2
    <2>3. IsSuffix(log \o w, gone \o (log \o w))
      BY <1>4, EndsWith
    <2> QED BY <2>1, <2>2, <2>3
  <1>7. Len(log \o w) < Len(stream) => MaxFiles > 0 /\ Cardinality(Dir.rotated) >= MaxFiles
    <2>1. Len(kept) = Len(log)
      BY <1>2, <1>3 DEF Accounts
    <2>2. Len(log \o w) < Len(stream) => Len(gone) > 0
      BY <1>4, <1>5, <2>1
    <2>3. Len(gone) > 0 => gone # << >>
      BY EmptyRange
    <2> QED BY <1>2, <2>2, <2>3 DEF Accounts
  <1> QED BY <1>3, <1>5, <1>6, <1>7 DEF LogInOrder, Byte

(***************************************************************************)
(* Read in the order of their names, the files and the buffer are what was *)
(* written, in order, less what retention took from the beginning.         *)
(***************************************************************************)
THEOREM LogComplete == Spec => []LogInOrder
  <1>1. SinkInv /\ Complete => LogInOrder
    BY CompleteLog
  <1> QED BY <1>1, SinkInvariant, CompleteInvariant, PTL
================================================================================
