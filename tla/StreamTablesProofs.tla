------------------------- MODULE StreamTablesProofs -------------------------
(***************************************************************************)
(* A reader that counts streams and adds up sizes is always at the data of *)
(* the entry it has come to, whatever wrote the archive, if the header     *)
(* describes where the data is.                                            *)
(***************************************************************************)
EXTENDS StreamTables, TLAPS

ReaderRecord ==
  [entry : Nat \ {0}, folder : Nat, stream : Nat \ {0}, first : Nat,
   found : [entry : Nat, folder : Nat, first : Nat, size : Nat], ended : {"no", "ok"}]

LEMMA CountType ==
  ASSUME NEW h, NEW data, NEW r, LaidOut(h, data), ReaderOK(h, data, r)
  PROVE  /\ StreamCount(h, r) \in Nat
         /\ r.folder \in Nat /\ r.entry \in Nat \ {0} /\ r.stream \in Nat \ {0} /\ r.first \in Nat
         /\ Len(h.folders) \in Nat /\ Len(h.streams) \in Nat
<1>1. /\ r.folder \in Nat /\ r.entry \in Nat \ {0} /\ r.stream \in Nat \ {0} /\ r.first \in Nat
      /\ r.folder <= Len(h.folders)
  BY DEF ReaderOK
<1>2. /\ Len(h.folders) \in Nat /\ Len(h.streams) \in Nat
      /\ \A f \in 1 .. Len(h.folders) : h.folders[f].count \in Nat
  BY DEF LaidOut
<1> QED
  BY <1>1, <1>2 DEF StreamCount

LEMMA PlaceType ==
  ASSUME NEW h, NEW data, LaidOut(h, data), NEW k \in DOMAIN data
  PROVE  /\ k \in Nat \ {0} /\ k <= Len(h.streams) /\ h.streams[k]
         /\ data[k].folder \in Nat \ {0} /\ data[k].at \in Nat \ {0}
         /\ data[k].first \in Nat /\ data[k].size \in Nat
         /\ data[k].folder <= Len(h.folders) /\ data[k].at <= h.folders[data[k].folder].count
         /\ h.folders[data[k].folder].count \in Nat
         /\ data[k].at = 1 => data[k].first = 0
<1>1. k \in 1 .. Len(h.streams) /\ h.streams[k] /\ Len(h.streams) \in Nat /\ Len(h.folders) \in Nat
  BY DEF LaidOut
<1>2. /\ data[k] \in Place /\ data[k].folder <= Len(h.folders)
      /\ data[k].at <= h.folders[data[k].folder].count
      /\ data[k].at = 1 => data[k].first = 0
  BY DEF LaidOut, Described
<1>3. /\ data[k].folder \in Nat \ {0} /\ data[k].at \in Nat \ {0}
      /\ data[k].first \in Nat /\ data[k].size \in Nat
  BY <1>2 DEF Place
<1>4. h.folders[data[k].folder].count \in Nat
  BY <1>1, <1>2, <1>3 DEF LaidOut
<1> QED
  BY <1>1, <1>2, <1>3, <1>4

(* Before the reader counts a stream, the data of exactly the entries that *)
(* it has passed is behind it: its entry is the owner of that stream.      *)
LEMMA ReaderAtData ==
  ASSUME NEW h, NEW data, NEW r, LaidOut(h, data), ReaderOK(h, data, r), ~Exhausted(h, r),
         r.entry \in DOMAIN data
  PROVE  LET p == data[r.entry]
         IN p.folder = r.folder /\ p.at = r.stream /\ p.first = r.first
<1>1. r.folder \in 1 .. Len(h.folders) /\ r.stream \in 1 .. h.folders[r.folder].count
  <2>1. /\ r.folder \in Nat /\ r.stream \in Nat \ {0} /\ r.folder <= Len(h.folders)
        /\ Len(h.folders) \in Nat /\ StreamCount(h, r) \in Nat /\ r.stream <= StreamCount(h, r)
    BY CountType DEF Exhausted, ReaderOK
  <2>2. r.folder # 0 /\ StreamCount(h, r) = h.folders[r.folder].count
    BY <2>1 DEF StreamCount
  <2> QED
    BY <2>1, <2>2
<1>2. PICK k \in DOMAIN data : data[k].folder = r.folder /\ data[k].at = r.stream
  <2>1. Owned(h, data)
    BY DEF LaidOut
  <2> QED
    BY <1>1, <2>1 DEF Owned
<1>3. PICK m \in DOMAIN data : m = r.entry
  OBVIOUS
<1>4. /\ k \in Nat /\ m \in Nat /\ r.folder \in Nat /\ r.stream \in Nat
      /\ data[k].folder \in Nat /\ data[k].at \in Nat
      /\ data[m].folder \in Nat /\ data[m].at \in Nat
  BY PlaceType, CountType
<1>5. ~(k < m)
  <2>1. k < r.entry <=> Before(data[k].folder, data[k].at, r.folder, r.stream)
    BY DEF ReaderOK
  <2> QED
    BY <1>2, <1>3, <1>4, <2>1 DEF Before
<1>6. ~Before(data[m].folder, data[m].at, r.folder, r.stream)
  <2>1. m < r.entry <=> Before(data[m].folder, data[m].at, r.folder, r.stream)
    BY DEF ReaderOK
  <2> QED
    BY <1>3, <1>4, <2>1
<1>7. ~(m < k)
  <2>1. m < k => Before(data[m].folder, data[m].at, data[k].folder, data[k].at)
    BY DEF LaidOut, InOrder
  <2> QED
    BY <1>2, <1>4, <1>6, <2>1 DEF Before
<1>8. k = m
  BY <1>4, <1>5, <1>7
<1>9. data[k].folder = r.folder /\ data[k].at = r.stream => data[k].first = r.first
  BY DEF ReaderOK
<1> QED
  BY <1>2, <1>3, <1>8, <1>9

(* The size that the reader takes for that stream is the entry's. *)
LEMMA ReaderSize ==
  ASSUME NEW h, NEW data, NEW r, LaidOut(h, data), ReaderOK(h, data, r), ~Exhausted(h, r),
         r.entry \in DOMAIN data
  PROVE  StreamSize(h, r) = data[r.entry].size
<1>1. PICK m \in DOMAIN data : m = r.entry
  OBVIOUS
<1>2. data[m].folder = r.folder /\ data[m].at = r.stream /\ data[m].first = r.first
  BY <1>1, ReaderAtData
<1>3. /\ data[m].at \in Nat /\ data[m].first \in Nat /\ data[m].size \in Nat
      /\ data[m].at <= h.folders[data[m].folder].count /\ h.folders[data[m].folder].count \in Nat
  BY PlaceType
<1>4. /\ data[m].at < h.folders[data[m].folder].count
           => h.folders[data[m].folder].sizes[data[m].at] = data[m].size
      /\ data[m].at = h.folders[data[m].folder].count
           => h.folders[data[m].folder].unpack = data[m].first + data[m].size
  BY DEF LaidOut, Described
<1> QED
  BY <1>1, <1>2, <1>3, <1>4 DEF StreamSize

LEMMA ReaderPasses ==
  ASSUME NEW h, NEW data, NEW r, LaidOut(h, data), ReaderOK(h, data, r),
         ~AtEnd(h, r), ~AtData(h, r)
  PROVE  ReaderOK(h, data, PassEmpty(r))
<1>1. r \in ReaderRecord /\ r.entry \in Nat \ {0}
  BY DEF ReaderOK, ReaderRecord
<1>2. PICK s : s = PassEmpty(r)
  OBVIOUS
<1>3. /\ s \in ReaderRecord /\ s.entry = r.entry + 1 /\ s.folder = r.folder
      /\ s.stream = r.stream /\ s.first = r.first /\ s.found = r.found
  <2>1. PICK n \in Nat \ {0} : n = r.entry + 1
    BY <1>1
  <2>2. s = [r EXCEPT !.entry = n]
    BY <1>2, <2>1 DEF PassEmpty
  <2> QED
    BY <1>1, <2>1, <2>2 DEF ReaderRecord
<1>4. r.entry \notin DOMAIN data
  BY <1>1 DEF LaidOut, AtData, AtEnd
<1>5. StreamCount(h, s) = StreamCount(h, r)
  BY <1>3 DEF StreamCount
<1>6. ASSUME NEW k \in DOMAIN data
      PROVE  k < s.entry <=> k < r.entry
  BY <1>1, <1>3, <1>4, PlaceType
<1> QED
  BY <1>2, <1>3, <1>5, <1>6 DEF ReaderOK, ReaderRecord

(* Everything of a folder that is exhausted is behind the reader. *)
LEMMA ReaderExhausts ==
  ASSUME NEW h, NEW data, NEW r, LaidOut(h, data), ReaderOK(h, data, r), Exhausted(h, r),
         NEW k \in DOMAIN data, data[k].folder = r.folder
  PROVE  data[k].at < r.stream
<1>1. /\ data[k].folder \in Nat \ {0} /\ data[k].at \in Nat
      /\ data[k].at <= h.folders[data[k].folder].count /\ h.folders[data[k].folder].count \in Nat
  BY PlaceType
<1>2. r.stream \in Nat /\ r.stream > h.folders[r.folder].count
  BY <1>1, CountType DEF Exhausted, StreamCount
<1> QED
  BY <1>1, <1>2

LEMMA ReaderEnters ==
  ASSUME NEW h, NEW data, NEW r, LaidOut(h, data), ReaderOK(h, data, r), Exhausted(h, r),
         r.folder < Len(h.folders)
  PROVE  ReaderOK(h, data, EnterFolder(r))
<1>1. r \in ReaderRecord /\ r.folder \in Nat /\ Len(h.folders) \in Nat /\ r.stream \in Nat
  BY CountType DEF ReaderOK, ReaderRecord
<1>2. PICK s : s = EnterFolder(r)
  OBVIOUS
<1>3. /\ s \in ReaderRecord /\ s.entry = r.entry /\ s.folder = r.folder + 1
      /\ s.stream = 1 /\ s.first = 0 /\ s.found = r.found
  <2>1. PICK n \in Nat : n = r.folder + 1
    BY <1>1
  <2>2. s = [r EXCEPT !.folder = n, !.stream = 1, !.first = 0]
    BY <1>2, <2>1 DEF EnterFolder
  <2>3. 1 \in Nat \ {0} /\ 0 \in Nat
    OBVIOUS
  <2> QED
    BY <1>1, <2>1, <2>2, <2>3 DEF ReaderRecord
<1>4. s.folder <= Len(h.folders) /\ s.stream <= StreamCount(h, s) + 1
  <2>1. s.folder \in 1 .. Len(h.folders) /\ s.folder # 0
    BY <1>1, <1>3
  <2>2. StreamCount(h, s) \in Nat
    BY <2>1 DEF StreamCount, LaidOut
  <2> QED
    BY <1>3, <2>1, <2>2
<1>5. ASSUME NEW k \in DOMAIN data
      PROVE  /\ k < s.entry <=> Before(data[k].folder, data[k].at, s.folder, s.stream)
             /\ data[k].folder = s.folder /\ data[k].at = s.stream => data[k].first = s.first
  <2>1. k < r.entry <=> Before(data[k].folder, data[k].at, r.folder, r.stream)
    BY DEF ReaderOK
  <2>2. data[k].folder = r.folder => data[k].at < r.stream
    BY ReaderExhausts
  <2>3. /\ data[k].folder \in Nat /\ data[k].at \in Nat \ {0}
        /\ data[k].at = 1 => data[k].first = 0
    BY PlaceType
  <2> QED
    BY <1>1, <1>3, <2>1, <2>2, <2>3 DEF Before
<1> QED
  BY <1>2, <1>3, <1>4, <1>5 DEF ReaderOK, ReaderRecord

LEMMA ReaderLocates ==
  ASSUME NEW h, NEW data, NEW r, LaidOut(h, data), ReaderOK(h, data, r), ~Exhausted(h, r),
         AtData(h, r)
  PROVE  ReaderOK(h, data, Locate(h, r))
<1>1. /\ r \in ReaderRecord /\ r.folder \in Nat /\ r.stream \in Nat \ {0}
      /\ r.entry \in Nat \ {0} /\ r.first \in Nat
  BY CountType DEF ReaderOK, ReaderRecord
<1>2. r.entry \in DOMAIN data
  BY <1>1 DEF LaidOut, AtData, AtEnd
<1>3. PICK m \in DOMAIN data : m = r.entry
  BY <1>2
<1>4. /\ data[m].folder = r.folder /\ data[m].at = r.stream /\ data[m].first = r.first
      /\ StreamSize(h, r) = data[m].size
  BY <1>3, ReaderAtData, ReaderSize
<1>5. PICK size \in Nat : size = data[m].size
  BY PlaceType
<1>6. PICK f : f = [entry |-> r.entry, folder |-> r.folder, first |-> r.first, size |-> size]
  OBVIOUS
<1>7. /\ f \in [entry : Nat, folder : Nat, first : Nat, size : Nat]
      /\ f.entry = r.entry /\ f.folder = r.folder /\ f.first = r.first /\ f.size = size
  BY <1>1, <1>6
<1>8. PICK s : s = Locate(h, r)
  OBVIOUS
<1>9. /\ s \in ReaderRecord /\ s.entry = r.entry + 1 /\ s.folder = r.folder
      /\ s.stream = r.stream + 1 /\ s.first = r.first + size /\ s.found = f
  <2>1. PICK n \in Nat \ {0} : n = r.entry + 1
    BY <1>1
  <2>2. PICK i \in Nat \ {0} : i = r.stream + 1
    BY <1>1
  <2>3. PICK o \in Nat : o = r.first + size
    BY <1>1
  <2>4. s = [r EXCEPT !.entry = n, !.stream = i, !.first = o, !.found = f]
    BY <1>4, <1>5, <1>6, <1>8, <2>1, <2>2, <2>3 DEF Locate
  <2> QED
    BY <1>1, <1>7, <2>1, <2>2, <2>3, <2>4 DEF ReaderRecord
<1>10. s.folder <= Len(h.folders) /\ s.stream <= StreamCount(h, s) + 1
  <2>1. StreamCount(h, s) = StreamCount(h, r)
    BY <1>9 DEF StreamCount
  <2> QED
    BY <1>9, <2>1, CountType, SMTT(30) DEF ReaderOK, Exhausted
<1>11. ASSUME NEW k \in DOMAIN data
       PROVE  /\ k < s.entry <=> Before(data[k].folder, data[k].at, s.folder, s.stream)
              /\ data[k].folder = s.folder /\ data[k].at = s.stream => data[k].first = s.first
  <2>1. k < r.entry <=> Before(data[k].folder, data[k].at, r.folder, r.stream)
    BY DEF ReaderOK
  <2>2. /\ m < k => Before(data[m].folder, data[m].at, data[k].folder, data[k].at)
        /\ data[m].folder = data[k].folder /\ data[k].at = data[m].at + 1
             => data[k].first = data[m].first + data[m].size
    BY DEF LaidOut, InOrder
  <2>3. /\ k \in Nat /\ m \in Nat /\ data[k].folder \in Nat /\ data[k].at \in Nat
        /\ data[m].folder \in Nat /\ data[m].at \in Nat
    BY PlaceType
  <2>4. data[k].folder = s.folder /\ data[k].at = s.stream => data[k].first = s.first
    BY <1>4, <1>5, <1>9, <2>2, <2>3
  <2>5. CASE k = m
    BY <1>1, <1>3, <1>4, <1>9, <2>3, <2>4, <2>5 DEF Before
  <2>6. CASE k < m
    BY <1>1, <1>3, <1>9, <2>1, <2>3, <2>4, <2>6 DEF Before
  <2>7. CASE m < k
    <3>1. ~(k < r.entry) /\ ~(k < s.entry)
      BY <1>1, <1>3, <1>9, <2>3, <2>7
    <3> QED
      BY <1>1, <1>4, <1>9, <2>1, <2>2, <2>3, <2>4, <2>7, <3>1 DEF Before
  <2> QED
    BY <2>3, <2>5, <2>6, <2>7
<1>12. /\ f.entry \in DOMAIN data
       /\ f.folder = data[f.entry].folder /\ f.first = data[f.entry].first
       /\ f.size = data[f.entry].size
  BY <1>3, <1>4, <1>5, <1>7
<1> QED
  BY <1>8, <1>9, <1>10, <1>11, <1>12 DEF ReaderOK, ReaderRecord

LEMMA ReaderEnds ==
  ASSUME NEW h, NEW data, NEW r, LaidOut(h, data), ReaderOK(h, data, r),
         AtData(h, r) \/ AtEnd(h, r),
         ~(Exhausted(h, r) /\ r.folder < Len(h.folders)), ~(AtData(h, r) /\ ~Exhausted(h, r))
  PROVE  ReaderOK(h, data, EndReading(h, r))
<1>1. /\ r \in ReaderRecord /\ r.folder \in Nat /\ r.stream \in Nat \ {0}
      /\ r.entry \in Nat \ {0} /\ Len(h.folders) \in Nat /\ r.folder <= Len(h.folders)
  BY CountType DEF ReaderOK, ReaderRecord
<1>2. ~(AtData(h, r) /\ Exhausted(h, r))
  <2> SUFFICES ASSUME AtData(h, r), Exhausted(h, r) PROVE FALSE
    OBVIOUS
  <2>1. r.folder = Len(h.folders)
    BY <1>1
  <2>2. r.entry \in DOMAIN data
    BY <1>1 DEF LaidOut, AtData, AtEnd
  <2>3. PICK m \in DOMAIN data : m = r.entry
    BY <2>2
  <2>4. data[m].folder = r.folder => data[m].at < r.stream
    BY ReaderExhausts
  <2>5. data[m].folder \in Nat /\ data[m].at \in Nat /\ data[m].folder <= Len(h.folders)
    BY PlaceType
  <2>6. Before(data[m].folder, data[m].at, r.folder, r.stream)
    BY <1>1, <2>1, <2>4, <2>5 DEF Before
  <2>7. m < r.entry
    BY <2>6 DEF ReaderOK
  <2> QED
    BY <1>1, <2>3, <2>7
<1>3. ~(AtEnd(h, r) /\ ~Exhausted(h, r))
  <2> SUFFICES ASSUME AtEnd(h, r), ~Exhausted(h, r) PROVE FALSE
    OBVIOUS
  <2>1. r.folder \in 1 .. Len(h.folders) /\ r.stream \in 1 .. h.folders[r.folder].count
    BY <1>1, CountType DEF Exhausted, StreamCount
  <2>2. PICK k \in DOMAIN data : data[k].folder = r.folder /\ data[k].at = r.stream
    BY <2>1 DEF LaidOut, Owned
  <2>3. k < r.entry <=> Before(data[k].folder, data[k].at, r.folder, r.stream)
    BY DEF ReaderOK
  <2>4. k \in Nat /\ k <= Len(h.streams) /\ Len(h.streams) \in Nat
    BY PlaceType, CountType
  <2> QED
    BY <1>1, <2>2, <2>3, <2>4 DEF AtEnd, Before
<1>4. AtEnd(h, r) /\ Exhausted(h, r)
  BY <1>2, <1>3
<1>5. PICK s : s = EndReading(h, r)
  OBVIOUS
<1>6. s = [r EXCEPT !.ended = "ok"]
  BY <1>4, <1>5 DEF EndReading
<1>7. /\ s \in ReaderRecord /\ s.entry = r.entry /\ s.folder = r.folder
      /\ s.stream = r.stream /\ s.first = r.first /\ s.found = r.found
  BY <1>1, <1>6 DEF ReaderRecord
<1>8. StreamCount(h, s) = StreamCount(h, r)
  BY <1>7 DEF StreamCount
<1> QED
  BY <1>5, <1>7, <1>8 DEF ReaderOK, ReaderRecord

(* One step of the reader keeps it where the data is, whatever wrote the   *)
(* archive: StreamLocations and Substreams only count, and the counts      *)
(* agree with where the writer put the data.                               *)
THEOREM ReaderStaysInStep ==
  ASSUME NEW h, NEW data, NEW r, LaidOut(h, data), ReaderOK(h, data, r)
  PROVE  ReaderOK(h, data, ReadNext(h, r))
<1>1. CASE ~AtEnd(h, r) /\ ~AtData(h, r)
  BY <1>1, ReaderPasses DEF ReadNext
<1>2. CASE (AtEnd(h, r) \/ AtData(h, r)) /\ Exhausted(h, r) /\ r.folder < Len(h.folders)
  BY <1>2, ReaderEnters DEF ReadNext
<1>3. CASE AtData(h, r) /\ ~Exhausted(h, r)
  BY <1>3, ReaderLocates DEF ReadNext
<1>4. CASE /\ AtEnd(h, r) \/ AtData(h, r)
           /\ ~(Exhausted(h, r) /\ r.folder < Len(h.folders)) /\ ~(AtData(h, r) /\ ~Exhausted(h, r))
  BY <1>4, ReaderEnds DEF ReadNext
<1> QED
  BY <1>1, <1>2, <1>3, <1>4

(* A reader starts in front of everything. *)
LEMMA ReaderStarts ==
  ASSUME NEW h, NEW data, LaidOut(h, data)
  PROVE  ReaderOK(h, data, ReaderStart)
<1>1. /\ ReaderStart \in ReaderRecord /\ ReaderStart.entry = 1 /\ ReaderStart.folder = 0
      /\ ReaderStart.stream = 1 /\ ReaderStart.first = 0 /\ ReaderStart.found.entry = 0
  BY DEF ReaderStart, ReaderRecord, NoLocation
<1>2. StreamCount(h, ReaderStart) = 0 /\ 0 <= Len(h.folders)
  BY <1>1 DEF StreamCount, LaidOut
<1>3. ASSUME NEW k \in DOMAIN data
      PROVE  /\ ~(k < 1) /\ ~Before(data[k].folder, data[k].at, 0, 1) /\ data[k].folder # 0
  BY PlaceType DEF Before
<1> QED
  BY <1>1, <1>2, <1>3 DEF ReaderOK, ReaderRecord
=============================================================================
