------------------------------ MODULE GptProofs ------------------------------
(***************************************************************************)
(* Theorems about Gpt, for any sound tables of any number of chunks and    *)
(* any number of failing accesses.                                         *)
(*                                                                         *)
(* The argument: of a chunk that adds up, the entries are those of the     *)
(* table (Scanned), whatever failed.  And in a boot in which no access has *)
(* failed, both ways to look a name up go by the same copy, Source, and    *)
(* agree on its row (Rightly), or neither finds anything.                  *)
(***************************************************************************)
EXTENDS Gpt, SequenceTheorems, TLAPS

Looking == {"header", "chunk", "sum"}
Waiting == Looking \cup {"answer"}

Chunks(c) == gpt[c].chunks
Sum(c) == gpt[c].sum

\* The rows of a sound table; of the copy that both ways go by.
RowIn(t, n, e) == e.name = n /\ \E k \in DOMAIN t : e \in t[k].entries
Source == IF Sound("primary") THEN "primary" ELSE "backup"
IsRow(n, e) == RowIn(Sum(Source), n, e)

\* The name that is looked up.
Asked == pc \in Waiting => look.name = IF caller \in Ext THEN caller ELSE "para"

\* In a copy whose header is good, chunks have been added up before chunk.
Scanned ==
  pc \in {"chunk", "sum"} =>
    /\ HeaderOK(look.copy)
    /\ pc = "chunk" => look.chunk \in DOMAIN Chunks(look.copy)
    /\ look.summed /\ look.found # Blank => RowIn(Sum(look.copy), look.name, look.found)

-----------------------------------------------------------------------------
(* While no access has failed in this boot.                                *)

Clean == ~failed

\* The backup is read only if the primary is not sound.
RightCopy ==
  pc \in Looking =>
    \/ look.copy = "primary" /\ look.info
    \/ look.copy = "backup" /\ ~Sound("primary") /\ (look.info <=> ~HeaderOK("primary"))

\* What has been found and added up.
RightScan ==
  pc \in {"chunk", "sum"} =>
    /\ pc = "sum" => look.chunk = Len(Chunks(look.copy)) + 1
    /\ look.summed <=> \A k \in 1 .. look.chunk - 1 : Chunks(look.copy)[k] = Sum(look.copy)[k]
    /\ ~look.info => look.found = Blank
    /\ look.summed /\ look.info /\ look.found = Blank =>
         \A k \in 1 .. look.chunk - 1 : \A e \in Chunks(look.copy)[k].entries : e.name # look.name

\* The answer is the row of the name, or nothing.
RightAnswer ==
  pc = "answer" =>
    IF Readable THEN ans.ret = 0 /\ IsRow(look.name, ans.entry) ELSE ans.entry = Blank

\* Boot control writes back what it has read.
RightMetadata ==
  pc \in Waiting /\ Readable =>
    /\ caller \in {"active_read", "active_write"} => para = NONE
    /\ caller = "update_write" => meta = para

\* What is known of the two partitions of the extension.
RightInfo(n) ==
  IF Readable THEN \E e \in Entry : IsRow(n, e) /\ ext[n] = [addr |-> e.addr, active |-> e.active]
  ELSE ~HasImage(ext[n].addr)
RightExt ==
  /\ (pc \in Waiting /\ caller = "ext2") \/ pc \in {"ext_dram", "part_init", "ext_etc"}
       => RightInfo("ext1")
  /\ pc \in {"ext_dram", "part_init", "ext_etc"} => RightInfo("ext2")

\* And of the first half and the table.
Picked == Chosen(ext["ext1"].active, ext["ext2"].active)
RightHalf ==
  /\ pc \in {"part_init", "ext_etc"} => Readable /\ half.dram = ext[Picked].addr
  /\ pc = "part_init" /\ look.copy = "backup" => ~Sound("primary")
  /\ pc = "ext_etc" => table = Entries(Source)

Rightly ==
  Clean => RightCopy /\ RightScan /\ RightAnswer /\ RightMetadata /\ RightExt /\ RightHalf

\* The table that is kept is sound, and the second half is the last step.
TableRows == pc = "ext_etc" => table \subseteq Entry /\ \A e \in table : e.addr = e.name
HalfFirst == pc # "done" => half.etc = NONE

IInv == /\ TypeOK /\ Asked /\ Scanned /\ AnswersAreVouchedFor
        /\ Rightly /\ ReadableBoots /\ HalvesAgree /\ HalfFirst /\ TableRows

-----------------------------------------------------------------------------
(* Tables and copies.                                                      *)

\* A sound table has one row for each name, in its place.
LEMMA Rows ==
  ASSUME NEW t \in TABLES
  PROVE  /\ \A n, d, e : RowIn(t, n, d) /\ RowIn(t, n, e) => d = e
         /\ \A n \in Name : \E e \in Entry : RowIn(t, n, e)
         /\ \A n, e : RowIn(t, n, e) => e \in Entry /\ e.name = n /\ e.addr = n /\ e # Blank
<1>1. /\ t \in Seq(Chunk)
      /\ \A n \in Name : \E k \in DOMAIN t : \E e \in t[k].entries : e.name = n
      /\ \A j, k \in DOMAIN t : \A d \in t[j].entries : \A e \in t[k].entries :
           d.name = e.name => d = e
      /\ \A k \in DOMAIN t : \A e \in t[k].entries : e.addr = e.name
  BY TablesAssumption DEF TablesAssumption
<1>2. \A k \in DOMAIN t : t[k].entries \subseteq Entry
  <2>1. \A k \in DOMAIN t : t[k] \in Chunk  BY <1>1, ElementOfSeq
  <2> QED  BY <2>1 DEF Chunk
<1>3. \A n, d, e : RowIn(t, n, d) /\ RowIn(t, n, e) => d = e
  BY <1>1 DEF RowIn
<1>4. \A n \in Name : \E e \in Entry : RowIn(t, n, e)
  BY <1>1, <1>2 DEF RowIn
<1>5. ASSUME NEW n, NEW e, RowIn(t, n, e)
      PROVE  e \in Entry /\ e.name = n /\ e.addr = n /\ e # Blank
  <2>1. e \in Entry /\ e.name = n /\ e.addr = n  BY <1>1, <1>2, <1>5 DEF RowIn
  <2>2. Blank.name = "para" /\ Blank.addr = "zero"  BY DEF Blank
  <2> QED  BY <2>1, <2>2
<1> QED  BY <1>3, <1>4, <1>5

LEMMA CopyType ==
  ASSUME TypeOK, NEW c \in Copy
  PROVE  /\ Sum(c) \in TABLES /\ Chunks(c) \in Seq(Chunk) /\ Sum(c) \in Seq(Chunk)
         /\ Len(Sum(c)) = Len(Chunks(c)) /\ Len(Chunks(c)) \in Nat \ {0}
         /\ DOMAIN Sum(c) = 1..Len(Chunks(c)) /\ DOMAIN Chunks(c) = 1..Len(Chunks(c))
<1>1. gpt[c] \in GptCopy /\ Len(gpt[c].chunks) = Len(gpt[c].sum)  BY DEF TypeOK
<1>2. Sum(c) \in TABLES /\ Chunks(c) \in Seq(Chunk)  BY <1>1 DEF GptCopy, Sum, Chunks
<1>3. Sum(c) \in Seq(Chunk) /\ Sum(c) # <<>>  BY <1>2, TablesAssumption DEF TablesAssumption
<1>4. Len(Sum(c)) = Len(Chunks(c))  BY <1>1 DEF Sum, Chunks
<1>5. /\ Len(Sum(c)) \in Nat /\ DOMAIN Sum(c) = 1..Len(Sum(c))
      /\ DOMAIN Chunks(c) = 1..Len(Chunks(c)) /\ (Len(Sum(c)) = 0 <=> Sum(c) = <<>>)
  BY <1>2, <1>3, LenProperties, EmptySeq
<1> QED  BY <1>2, <1>3, <1>4, <1>5

\* A readable device has a sound copy, by which both ways go.
LEMMA SourceIs ==
  ASSUME TypeOK
  PROVE  /\ Source \in Copy
         /\ Readable => /\ Sound(Source) /\ HeaderOK(Source) /\ Chunks(Source) = Sum(Source)
                        /\ Source = "backup" => ~HeaderOK("primary")
         /\ Readable <=> Sound("primary") \/ (~HeaderOK("primary") /\ Sound("backup"))
BY DEF Source, Readable, Sound, HeaderOK, EntriesOK, Chunks, Sum, Copy

\* The rows are those of Entries, which is the table that part_init keeps.
LEMMA EntriesAre ==
  ASSUME TypeOK, Readable
  PROVE  \A e : e \in Entries(Source) <=> IsRow(e.name, e)
<1>1. Chunks(Source) = Sum(Source)  BY SourceIs
<1> QED  BY <1>1 DEF Entries, IsRow, RowIn, Chunks, Sum

LEMMA DiskSame ==
  UNCHANGED gpt =>
    /\ (Readable' <=> Readable) /\ Source' = Source
    /\ \A c : /\ Chunks(c)' = Chunks(c) /\ Sum(c)' = Sum(c) /\ Entries(c)' = Entries(c)
              /\ (HeaderOK(c)' <=> HeaderOK(c)) /\ (EntriesOK(c)' <=> EntriesOK(c))
              /\ (Sound(c)' <=> Sound(c))
    /\ \A n, e : IsRow(n, e)' <=> IsRow(n, e)
BY DEF Readable, Source, Chunks, Sum, HeaderOK, EntriesOK, Sound, IsRow, RowIn, Entries

-----------------------------------------------------------------------------
(* The lookup.                                                             *)

HistoryType == fails \in 0..MaxFails /\ failed \in BOOLEAN

LEMMA AccessIs ==
  ASSUME TypeOK, AccessOK \/ AccessFails
  PROVE  /\ HistoryType' /\ fails \in Nat
         /\ Clean' => Clean /\ AccessOK
<1>1. MaxFails \in Nat /\ fails \in 0..MaxFails /\ failed \in BOOLEAN
  BY ConstantsAssumption DEF ConstantsAssumption, TypeOK
<1>2. CASE AccessOK
  <2>1. failed' = failed /\ fails' = fails  BY <1>2 DEF AccessOK, history
  <2>2. HistoryType'  BY <1>1, <2>1, Zenon DEF HistoryType
  <2>3. Clean' => Clean  BY <2>1, Zenon DEF Clean
  <2> QED  BY <1>1, <1>2, <2>2, <2>3
<1>3. CASE AccessFails
  <2>1. fails' \in 0..MaxFails  BY <1>1, <1>3 DEF AccessFails
  <2>2. failed' = TRUE  BY <1>3 DEF AccessFails
  <2>3. HistoryType'  BY <2>1, <2>2, Zenon DEF HistoryType
  <2>4. ~Clean'  BY <2>2, Zenon DEF Clean
  <2> QED  BY <1>1, <2>3, <2>4
<1>4. fails \in Nat  BY <1>1
<1> QED  BY <1>2, <1>3, <1>4

\* A step of the lookup leaves the rest as it is.
LEMMA LookupKeeps ==
  ASSUME IInv, pc \in Looking, pc' \in Waiting \cup {"halt"},
         UNCHANGED <<build, disk, caller, booted>>,
         look'.name = look.name, Clean' => Clean
  PROVE  /\ Asked' /\ HalvesAgree' /\ HalfFirst' /\ TableRows'
         /\ Clean' => RightMetadata' /\ RightExt' /\ RightHalf'
<1>1. pc \in Waiting /\ pc \notin {"ext_dram", "part_init", "ext_etc", "done"}
      /\ pc' \notin {"ext_dram", "part_init", "ext_etc", "done"}
  BY DEF Looking, Waiting
<1>2. UNCHANGED <<gpt, para, meta, ext, table, half>>  BY DEF disk, booted
<1>3. Asked'  BY <1>1 DEF IInv, Asked
<1>4. HalvesAgree' /\ HalfFirst' /\ TableRows'
  BY <1>1, <1>2 DEF IInv, HalvesAgree, HalfFirst, TableRows
<1>5. ASSUME Clean' PROVE RightMetadata' /\ RightExt' /\ RightHalf'
  <2>1. RightMetadata /\ RightExt  BY <1>5 DEF IInv, Rightly
  <2>2. RightMetadata'  BY <1>1, <1>2, <2>1, DiskSame DEF RightMetadata
  <2>3. RightExt'  BY <1>1, <1>2, <2>1, DiskSame DEF RightExt, RightInfo
  <2>4. RightHalf'  BY <1>1 DEF RightHalf
  <2> QED  BY <2>2, <2>3, <2>4
<1> QED  BY <1>3, <1>4, <1>5

LEMMA LookIs ==
  ASSUME TypeOK
  PROVE  /\ look.name \in Name /\ look.copy \in Copy /\ look.chunk \in Nat \ {0}
         /\ look.found \in Entry
BY DEF TypeOK, Looks

LEMMA TypeKept ==
  ASSUME TypeOK, UNCHANGED <<build, disk, booted>>, look' \in Looks, buf' \in Chunk,
         ans' \in [ret : {0, 1}, entry : Entry], HistoryType'
  PROVE  TypeOK'
BY DEF TypeOK, disk, booted, HistoryType

LEMMA BlankIs == Blank \in Entry
BY DEF Blank, Entry, Name, Place

LEMMA ScanBegins ==
  ASSUME NEW l \in Looks, NEW f \in Entry, NEW k \in Nat \ {0}
  PROVE  [l EXCEPT !.chunk = k, !.found = f, !.summed = TRUE] \in Looks
BY DEF Looks

LEMMA HeaderStep == IInv /\ ReadHeader => IInv'
<1> SUFFICES ASSUME IInv, ReadHeader PROVE IInv'
    OBVIOUS
<1>1. /\ pc = "header" /\ UNCHANGED <<build, disk, caller, buf, booted>>
      /\ UNCHANGED gpt
      /\ AccessOK \/ AccessFails
      /\ \/ /\ AccessOK /\ HeaderOK(look.copy) /\ pc' = "chunk"
            /\ look' = [look EXCEPT !.chunk = 1, !.found = Blank, !.summed = TRUE]
            /\ UNCHANGED ans
         \/ AccessOK /\ ~HeaderOK(look.copy) /\ CopyFails
         \/ AccessFails /\ CopyFails
  BY DEF ReadHeader, At, disk
<1>2. TypeOK /\ buf \in Chunk /\ ans \in [ret : {0, 1}, entry : Entry] /\ look \in Looks
  BY DEF IInv, TypeOK
<1>3. /\ look.name \in Name /\ look.copy \in Copy /\ look.chunk \in Nat \ {0}
      /\ look.found \in Entry
  BY <1>2, LookIs
<1>4. HistoryType' /\ (Clean' => Clean /\ AccessOK) /\ fails \in Nat
  BY <1>1, <1>2, AccessIs
<1>5. Clean' => RightCopy  BY <1>4 DEF IInv, Rightly
<1>6. CASE /\ AccessOK /\ HeaderOK(look.copy) /\ pc' = "chunk"
           /\ look' = [look EXCEPT !.chunk = 1, !.found = Blank, !.summed = TRUE]
           /\ UNCHANGED ans
  <2>1. look' \in Looks
    <3>1. look' = [look EXCEPT !.chunk = 1, !.found = Blank, !.summed = TRUE]  BY <1>6
    <3>2. look \in Looks /\ Blank \in Entry /\ 1 \in Nat \ {0}  BY <1>2, BlankIs
    <3>3. [look EXCEPT !.chunk = 1, !.found = Blank, !.summed = TRUE] \in Looks
      BY <3>2, ScanBegins
    <3> QED  BY <3>1, <3>3, Zenon
  <2>2. /\ look'.name = look.name /\ look'.copy = look.copy /\ look'.chunk = 1
        /\ look'.found = Blank /\ look'.summed = TRUE /\ look'.info = look.info
    BY <1>2, <1>6 DEF Looks
  <2>3. TypeOK'  BY <1>1, <1>2, <1>4, <1>6, <2>1, TypeKept
  <2>4. /\ Asked' /\ HalvesAgree' /\ HalfFirst' /\ TableRows'
        /\ Clean' => RightMetadata' /\ RightExt' /\ RightHalf'
    BY <1>1, <1>4, <1>6, <2>2, LookupKeeps DEF Looking, Waiting
  <2>5. Scanned'
    <3>1. 1 \in DOMAIN Chunks(look.copy)  BY <1>2, <1>3, CopyType
    <3>2. HeaderOK(look.copy) /\ UNCHANGED gpt /\ pc' = "chunk"  BY <1>1, <1>6
    <3>3. look'.copy = look.copy /\ look'.chunk = 1 /\ look'.found = Blank  BY <2>2
    <3> QED  BY <3>1, <3>2, <3>3 DEF Scanned, HeaderOK, Chunks
  <2>6. AnswersAreVouchedFor' /\ ReadableBoots'
    BY <1>6 DEF AnswersAreVouchedFor, ReadableBoots, At
  <2>7. ASSUME Clean' PROVE RightCopy' /\ RightScan' /\ RightAnswer'
    <3>1. RightCopy'
      <4>1. RightCopy /\ pc = "header" /\ UNCHANGED gpt  BY <1>1, <1>5, <2>7
      <4>2. look'.copy = look.copy /\ look'.info = look.info  BY <2>2
      <4> QED  BY <4>1, <4>2 DEF RightCopy, Looking, Sound, HeaderOK, EntriesOK
    <3>2. RightScan'  BY <1>6, <2>2 DEF RightScan
    <3>3. RightAnswer'  BY <1>6 DEF RightAnswer
    <3> QED  BY <3>1, <3>2, <3>3
  <2> QED  BY <2>3, <2>4, <2>5, <2>6, <2>7 DEF IInv, Rightly
<1>7. CASE CopyFails /\ (AccessOK => ~HeaderOK(look.copy))
  <2>1. CASE /\ look.copy = "primary" /\ pc' = "header"
             /\ look' = [look EXCEPT !.copy = "backup"] /\ UNCHANGED ans
    <3>1. look' \in Looks  BY <1>2, <2>1 DEF Looks, Copy
    <3>2. look'.name = look.name /\ look'.copy = "backup" /\ look'.info = look.info
      BY <1>2, <2>1 DEF Looks
    <3>3. TypeOK'  BY <1>1, <1>2, <1>4, <2>1, <3>1, TypeKept
    <3>4. /\ Asked' /\ HalvesAgree' /\ HalfFirst' /\ TableRows'
          /\ Clean' => RightMetadata' /\ RightExt' /\ RightHalf'
      BY <1>1, <1>4, <2>1, <3>2, LookupKeeps DEF Looking, Waiting
    <3>5. Scanned' /\ AnswersAreVouchedFor' /\ ReadableBoots'
      BY <2>1 DEF Scanned, AnswersAreVouchedFor, ReadableBoots, At
    <3>6. ASSUME Clean' PROVE RightCopy' /\ RightScan' /\ RightAnswer'
      <4>1. look.info /\ ~HeaderOK("primary")
        BY <1>1, <1>4, <1>5, <1>7, <2>1, <3>6 DEF RightCopy, Looking
      <4>2. UNCHANGED gpt /\ look'.copy = "backup" /\ look'.info = look.info
        BY <1>1, <3>2
      <4>3. RightCopy'  BY <4>1, <4>2 DEF RightCopy, Sound, HeaderOK
      <4> QED  BY <2>1, <4>3 DEF RightScan, RightAnswer
    <3> QED  BY <3>3, <3>4, <3>5, <3>6 DEF IInv, Rightly
  <2>2. CASE /\ look.copy = "backup" /\ pc' = "answer"
             /\ ans' = [ret |-> 1, entry |-> Blank] /\ UNCHANGED look
    <3>1. ans' \in [ret : {0, 1}, entry : Entry] /\ ans'.entry = Blank  BY <2>2, BlankIs
    <3>2. TypeOK'  BY <1>1, <1>2, <1>4, <2>2, <3>1, TypeKept
    <3>3. /\ Asked' /\ HalvesAgree' /\ HalfFirst' /\ TableRows'
          /\ Clean' => RightMetadata' /\ RightExt' /\ RightHalf'
      BY <1>1, <1>4, <2>2, LookupKeeps DEF Looking, Waiting
    <3>4. Scanned' /\ AnswersAreVouchedFor' /\ ReadableBoots'
      BY <2>2, <3>1 DEF Scanned, AnswersAreVouchedFor, ReadableBoots, At
    <3>5. ASSUME Clean' PROVE RightCopy' /\ RightScan' /\ RightAnswer'
      <4>1. ~Sound("primary") /\ ~HeaderOK("backup")
        BY <1>1, <1>4, <1>5, <1>7, <2>2, <3>5 DEF RightCopy, Looking
      <4>2. ~Readable  BY <4>1 DEF Readable, Sound
      <4>3. ~Readable'  BY <1>1, <4>2, DiskSame
      <4>4. RightAnswer'  BY <3>1, <4>3 DEF RightAnswer
      <4> QED  BY <2>2, <4>4 DEF RightCopy, RightScan, Looking
    <3> QED  BY <3>2, <3>3, <3>4, <3>5 DEF IInv, Rightly
  <2>3. look.copy = "primary" \/ look.copy = "backup"  BY <1>3 DEF Copy
  <2>4. CopyFails  BY <1>7
  <2> QED  BY <2>1, <2>2, <2>3, <2>4 DEF CopyFails
<1>8. AccessFails => ~AccessOK
  <2>1. AccessFails => fails' # fails  BY <1>4 DEF AccessFails
  <2>2. AccessOK => fails' = fails  BY DEF AccessOK, history
  <2> QED  BY <2>1, <2>2
<1> QED  BY <1>1, <1>6, <1>7, <1>8

\* What the scan takes from a chunk.
Taken(chunk) == IF look.info THEN Matches(chunk) ELSE {}
FoundIn(chunk) == IF Taken(chunk) = {} THEN look.found ELSE CHOOSE e \in Taken(chunk) : TRUE
AddsUp(chunk) == look.summed /\ chunk = Sum(look.copy)[look.chunk]

LEMMA TakenIs ==
  ASSUME NEW chunk \in Chunk, TypeOK
  PROVE  /\ FoundIn(chunk) \in Entry
         /\ \/ FoundIn(chunk) = look.found
            \/ FoundIn(chunk) \in chunk.entries /\ FoundIn(chunk).name = look.name
         /\ ~look.info => FoundIn(chunk) = look.found
         /\ FoundIn(chunk) = Blank =>
              \/ look.found = Blank /\ (look.info => \A e \in chunk.entries : e.name # look.name)
              \/ Blank \in chunk.entries
<1>1. look.found \in Entry  BY LookIs
<1>2. Matches(chunk) \subseteq chunk.entries /\ \A e \in Matches(chunk) : e.name = look.name
  BY DEF Matches
<1>3. Taken(chunk) \subseteq Matches(chunk)  BY DEF Taken
<1>4. chunk.entries \subseteq Entry  BY DEF Chunk
<1>5. CASE Taken(chunk) = {}
  <2>1. FoundIn(chunk) = look.found  BY <1>5 DEF FoundIn
  <2>2. ASSUME look.found = Blank, look.info, NEW e \in chunk.entries PROVE e.name # look.name
    <3>1. Matches(chunk) = {}  BY <1>5, <2>2, Zenon DEF Taken
    <3> QED  BY <2>2, <3>1 DEF Matches
  <2> QED  BY <1>1, <2>1, <2>2
<1>6. CASE Taken(chunk) # {}
  <2>1. FoundIn(chunk) \in Taken(chunk)  BY <1>6 DEF FoundIn
  <2>2. look.info  BY <1>6, Zenon DEF Taken
  <2>3. FoundIn(chunk) \in chunk.entries /\ FoundIn(chunk).name = look.name
    BY <1>2, <1>3, <2>1
  <2> QED  BY <1>4, <2>2, <2>3, Zenon
<1> QED  BY <1>5, <1>6

\* A chunk that is read as it is in the table.
LEMMA RowHere ==
  ASSUME TypeOK, pc = "chunk", Scanned, NEW e \in Sum(look.copy)[look.chunk].entries
  PROVE  RowIn(Sum(look.copy), e.name, e) /\ e # Blank
<1>1. look.copy \in Copy  BY LookIs
<1>2. look.chunk \in DOMAIN Sum(look.copy) /\ Sum(look.copy) \in TABLES
  BY <1>1, CopyType DEF Scanned
<1>3. RowIn(Sum(look.copy), e.name, e)  BY <1>2 DEF RowIn
<1> QED  BY <1>2, <1>3, Rows

LEMMA ChunkStep == IInv /\ ReadChunk => IInv'
<1> SUFFICES ASSUME IInv, ReadChunk PROVE IInv'
    OBVIOUS
<1> DEFINE c == look.copy
           k == look.chunk
<1>1. /\ pc = "chunk" /\ UNCHANGED <<build, disk, caller, ans, booted>>
      /\ UNCHANGED gpt
      /\ \/ AccessOK /\ buf' = Chunks(c)[k]
         \/ AccessFails /\ buf' \in {buf, Garbage}
      /\ look' = [look EXCEPT !.chunk = @ + 1, !.summed = AddsUp(buf'), !.found = FoundIn(buf')]
      /\ \/ pc' = IF k < Len(Chunks(c)) THEN "chunk" ELSE "sum"
         \/ ~look.info /\ pc' = "halt"
  <2>1. /\ pc = "chunk" /\ UNCHANGED <<build, disk, caller, ans, booted>>
        /\ \/ AccessOK /\ buf' = Chunks(c)[k]
           \/ AccessFails /\ buf' \in {buf, Garbage}
    BY DEF ReadChunk, At, Chunks
  <2>2. /\ look' = [look EXCEPT !.chunk = @ + 1, !.summed = AddsUp(buf'), !.found = FoundIn(buf')]
        /\ \/ pc' = IF k < Len(Chunks(c)) THEN "chunk" ELSE "sum"
           \/ ~look.info /\ pc' = "halt"
    BY Zenon DEF ReadChunk, AddsUp, FoundIn, Taken, Sum, Chunks
  <2> QED  BY <2>1, <2>2 DEF disk
<1>2. /\ TypeOK /\ Scanned /\ look \in Looks /\ buf \in Chunk
      /\ ans \in [ret : {0, 1}, entry : Entry]
  BY DEF IInv, TypeOK
<1>3. /\ c \in Copy /\ k \in Nat \ {0} /\ HeaderOK(c) /\ k \in DOMAIN Chunks(c)
  BY <1>1, <1>2, LookIs DEF Scanned
<1>4. /\ Chunks(c) \in Seq(Chunk) /\ Len(Chunks(c)) \in Nat
      /\ DOMAIN Chunks(c) = 1..Len(Chunks(c))
  BY <1>2, <1>3, CopyType
<1>5. HistoryType' /\ (Clean' => Clean /\ AccessOK) /\ (AccessFails => ~AccessOK)
  <2>1. AccessOK \/ AccessFails  BY <1>1
  <2>2. /\ HistoryType' /\ (Clean' => Clean /\ AccessOK) /\ fails \in Nat
    BY <1>2, <2>1, AccessIs
  <2>3. AccessFails => fails' # fails  BY <2>2 DEF AccessFails
  <2>4. AccessOK => fails' = fails  BY DEF AccessOK, history
  <2> QED  BY <2>2, <2>3, <2>4
<1>6. Clean' => Clean /\ buf' = Chunks(c)[k] /\ RightCopy /\ RightScan
  BY <1>1, <1>5 DEF IInv, Rightly
<1>7. buf' \in Chunk
  <2>1. Chunks(c)[k] \in Chunk  BY <1>3, <1>4, ElementOfSeq
  <2>2. Garbage \in Chunk  BY DEF Garbage, Chunk
  <2> QED  BY <1>1, <1>2, <2>1, <2>2
<1>8. /\ look' \in Looks /\ look'.name = look.name /\ look'.copy = c /\ look'.chunk = k + 1
      /\ look'.info = look.info /\ look'.summed = AddsUp(buf') /\ look'.found = FoundIn(buf')
  <2>1. FoundIn(buf') \in Entry  BY <1>2, <1>7, TakenIs
  <2>2. AddsUp(buf') \in BOOLEAN  BY Zenon DEF AddsUp
  <2> DEFINE f == FoundIn(buf')
             b == AddsUp(buf')
  <2>3. look' = [look EXCEPT !.chunk = @ + 1, !.summed = b, !.found = f]  BY <1>1
  <2>4. look \in Looks /\ f \in Entry /\ b \in BOOLEAN  BY <1>2, <2>1, <2>2
  <2> HIDE DEF f, b
  <2>5. /\ look'.name = look.name /\ look'.copy = look.copy
        /\ look'.chunk = look.chunk + 1 /\ look'.found = f
    BY <2>3, <2>4 DEF Looks
  <2>6. look'.info = look.info /\ look'.summed = b  BY <2>3, <2>4 DEF Looks
  <2>7. look.chunk + 1 \in Nat \ {0}  BY <1>3
  <2>8. ASSUME NEW n \in Nat \ {0}
        PROVE  [look EXCEPT !.chunk = n, !.summed = b, !.found = f] \in Looks
    BY <2>4 DEF Looks
  <2>9. look' \in Looks  BY <2>3, <2>7, <2>8, Zenon
  <2> QED  BY <2>5, <2>6, <2>9 DEF f, b
<1>9. TypeOK'  BY <1>1, <1>2, <1>5, <1>7, <1>8, TypeKept
<1>10. pc' \in {"chunk", "sum", "halt"}  BY <1>1
<1>11. /\ Asked' /\ HalvesAgree' /\ HalfFirst' /\ TableRows'
       /\ Clean' => RightMetadata' /\ RightExt' /\ RightHalf'
  BY <1>1, <1>5, <1>8, <1>10, LookupKeeps DEF Looking, Waiting
<1>12. look'.summed => look.summed /\ buf' = Sum(c)[k]
  BY <1>8, Zenon DEF AddsUp
<1>13. ASSUME AddsUp(buf'), NEW e \in buf'.entries PROVE RowIn(Sum(c), e.name, e) /\ e # Blank
  <2>1. buf' = Sum(look.copy)[look.chunk]  BY <1>13, Zenon DEF AddsUp
  <2> QED  BY <1>1, <1>2, <1>13, <2>1, RowHere
<1>14. /\ \/ FoundIn(buf') = look.found
          \/ FoundIn(buf') \in buf'.entries /\ FoundIn(buf').name = look.name
       /\ ~look.info => FoundIn(buf') = look.found
       /\ FoundIn(buf') = Blank =>
            \/ look.found = Blank /\ (look.info => \A e \in buf'.entries : e.name # look.name)
            \/ Blank \in buf'.entries
  BY <1>2, <1>7, TakenIs
<1> HIDE DEF c, k
<1>15. Scanned'
  <2>1. HeaderOK(c) /\ look'.copy = c /\ UNCHANGED gpt /\ look'.chunk = k + 1
    BY <1>1, <1>3, <1>8
  <2>2. pc' = "chunk" => k + 1 \in DOMAIN Chunks(c)
    <3>1. pc' = "chunk" => k < Len(Chunks(c))  BY <1>1
    <3> QED  BY <1>3, <1>4, <3>1
  <2>3. ASSUME look'.summed, look'.found # Blank PROVE RowIn(Sum(c), look.name, look'.found)
    <3>1. look.summed /\ AddsUp(buf')  BY <1>8, <2>3, Zenon DEF AddsUp
    <3>2. CASE FoundIn(buf') = look.found
      <4>1. look.found # Blank /\ look'.found = look.found  BY <1>8, <2>3, <3>2
      <4> QED  BY <1>1, <1>2, <3>1, <4>1, Zenon DEF Scanned, c
    <3>3. CASE FoundIn(buf') \in buf'.entries /\ FoundIn(buf').name = look.name
      <4>1. RowIn(Sum(c), FoundIn(buf').name, FoundIn(buf'))  BY <1>13, <3>1, <3>3
      <4>2. look'.found = FoundIn(buf')  BY <1>8
      <4> QED  BY <3>3, <4>1, <4>2, Zenon
    <3> QED  BY <1>14, <3>2, <3>3
  <2>4. look'.name = look.name  BY <1>8
  <2> QED  BY <2>1, <2>2, <2>3, <2>4 DEF Scanned, HeaderOK, Chunks, Sum, RowIn
<1>16. AnswersAreVouchedFor'  BY <1>10 DEF AnswersAreVouchedFor, At
<1>17. ASSUME Clean' PROVE RightCopy' /\ RightScan' /\ RightAnswer'
  <2>1. RightCopy /\ RightScan /\ buf' = Chunks(c)[k] /\ UNCHANGED gpt  BY <1>1, <1>6, <1>17
  <2>2. look'.copy = c /\ look'.info = look.info  BY <1>8
  <2>3. RightCopy'
    BY <1>1, <2>1, <2>2 DEF RightCopy, Looking, Sound, HeaderOK, EntriesOK, c
  <2>4. /\ look.summed <=> \A i \in 1 .. k - 1 : Chunks(c)[i] = Sum(c)[i]
        /\ ~look.info => look.found = Blank
        /\ look.summed /\ look.info /\ look.found = Blank =>
             \A i \in 1 .. k - 1 : \A e \in Chunks(c)[i].entries : e.name # look.name
    BY <1>1, <2>1, Zenon DEF RightScan, c, k
  <2>5. \A i : i \in 1..k <=> i \in 1..k - 1 \/ i = k  BY <1>3
  <2>6. AddsUp(buf') <=> \A i \in 1 .. k : Chunks(c)[i] = Sum(c)[i]
    <3>1. AddsUp(buf') <=> look.summed /\ Chunks(c)[k] = Sum(c)[k]
      BY <2>1, Zenon DEF AddsUp, c, k
    <3> QED  BY <2>4, <2>5, <3>1
  <2>7. ~look.info => FoundIn(buf') = Blank  BY <1>14, <2>4, Zenon
  <2>8. ASSUME AddsUp(buf'), look.info, FoundIn(buf') = Blank,
               NEW i \in 1..k, NEW e \in Chunks(c)[i].entries
        PROVE  e.name # look.name
    <3>1. look.found = Blank /\ \A d \in buf'.entries : d.name # look.name
      <4>1. Blank \notin buf'.entries  BY <1>13, <2>8
      <4> QED  BY <1>14, <2>8, <4>1, Zenon
    <3>2. look.summed  BY <2>8, Zenon DEF AddsUp
    <3> QED  BY <2>1, <2>4, <2>5, <2>8, <3>1, <3>2, Zenon
  <2>9. pc' = "sum" => k + 1 = Len(Chunks(c)) + 1
    <3>1. pc' = "sum" => ~(k < Len(Chunks(c)))  BY <1>1
    <3> QED  BY <1>3, <1>4, <3>1
  <2>10. RightScan'
    <3>1. look'.summed = AddsUp(buf') /\ look'.chunk = k + 1 /\ look'.found = FoundIn(buf')
          /\ look'.name = look.name
      BY <1>8
    <3>2. Chunks(look.copy)' = Chunks(c) /\ Sum(look.copy)' = Sum(c)
      BY <2>1, <2>2 DEF Chunks, Sum
    <3>3. pc' = "sum" => look'.chunk = Len(Chunks(look.copy)') + 1  BY <2>9, <3>1, <3>2, Zenon
    <3>7. look'.chunk - 1 = k  BY <1>3, <3>1
    <3>4. look'.summed <=> \A i \in 1 .. look'.chunk - 1 :
                            Chunks(look.copy)'[i] = Sum(look.copy)'[i]
      BY <2>6, <3>1, <3>2, <3>7, Zenon
    <3>5. ~look'.info => look'.found = Blank  BY <2>2, <2>7, <3>1, Zenon
    <3>6. look'.summed /\ look'.info /\ look'.found = Blank =>
            \A i \in 1 .. look'.chunk - 1 : \A e \in Chunks(look.copy)'[i].entries :
               e.name # look'.name
      BY <2>2, <2>8, <3>1, <3>2, <3>7, Zenon
    <3> QED  BY <3>3, <3>4, <3>5, <3>6, Zenon DEF RightScan
  <2>11. RightAnswer'  BY <1>10 DEF RightAnswer
  <2> QED  BY <2>3, <2>10, <2>11
<1>18. ReadableBoots'
  <2> SUFFICES ASSUME pc' = "halt", Clean' PROVE ~Readable'
      BY Zenon DEF ReadableBoots, At, Clean
  <2>1. ~look.info /\ RightCopy  BY <1>1, <1>6
  <2>2. c = "backup" /\ ~Sound("primary") /\ HeaderOK("primary")
    BY <1>1, <2>1, Zenon DEF RightCopy, Looking, c
  <2>3. ~Readable  BY <2>2 DEF Readable
  <2> QED  BY <1>1, <2>3, DiskSame
<1> QED  BY <1>9, <1>11, <1>15, <1>16, <1>17, <1>18 DEF IInv, Rightly

\* All chunks add up just if the entries are what they should be.
LEMMA SumIs ==
  ASSUME TypeOK, NEW c \in Copy
  PROVE  EntriesOK(c) <=> \A k \in 1 .. Len(Chunks(c)) : Chunks(c)[k] = Sum(c)[k]
<1>1. /\ Chunks(c) \in Seq(Chunk) /\ Sum(c) \in Seq(Chunk) /\ Len(Sum(c)) = Len(Chunks(c))
      /\ DOMAIN Chunks(c) = 1..Len(Chunks(c))
  BY CopyType
<1>2. ASSUME \A k \in 1 .. Len(Chunks(c)) : Chunks(c)[k] = Sum(c)[k] PROVE Chunks(c) = Sum(c)
  BY <1>1, <1>2, SeqEqual
<1> QED  BY <1>2 DEF EntriesOK, Chunks, Sum

LEMMA SumStep == IInv /\ CheckSum => IInv'
<1> SUFFICES ASSUME IInv, CheckSum PROVE IInv'
    OBVIOUS
<1> DEFINE c == look.copy
<1>1. pc = "sum" /\ UNCHANGED <<build, disk, caller, buf, booted, history>> /\ UNCHANGED gpt
  BY DEF CheckSum, At, disk
<1>2. /\ TypeOK /\ Scanned /\ look \in Looks /\ buf \in Chunk
      /\ ans \in [ret : {0, 1}, entry : Entry]
  BY DEF IInv, TypeOK
<1>3. c \in Copy /\ c \in {"primary", "backup"} /\ HeaderOK(c) /\ look.found \in Entry
  BY <1>1, <1>2, LookIs DEF Scanned, Copy
<1>4. HistoryType' /\ (Clean' => Clean)
  <2>1. failed' = failed /\ fails' = fails  BY <1>1 DEF history
  <2>2. HistoryType  BY <1>2 DEF TypeOK, HistoryType
  <2> QED  BY <2>1, <2>2, Zenon DEF HistoryType, Clean
<1>5. Clean' => RightCopy /\ RightScan  BY <1>4 DEF IInv, Rightly
<1>6. RightScan => (look.summed <=> EntriesOK(c))
  <2> SUFFICES ASSUME RightScan PROVE look.summed <=> EntriesOK(c)
      OBVIOUS
  <2>1. /\ look.chunk = Len(Chunks(c)) + 1
        /\ look.summed <=> \A k \in 1 .. look.chunk - 1 : Chunks(c)[k] = Sum(c)[k]
    BY <1>1, Zenon DEF RightScan
  <2>2. look.chunk - 1 = Len(Chunks(c))  BY <1>2, <1>3, <2>1, CopyType
  <2> QED  BY <1>2, <1>3, <2>1, <2>2, SumIs, Zenon
<1>7. CASE look.summed /\ pc' = "answer" /\ ans' = [ret |-> 0, entry |-> look.found] /\ UNCHANGED look
  <2>1. /\ ans' \in [ret : {0, 1}, entry : Entry] /\ ans'.entry = look.found /\ ans'.ret = 0
    BY <1>3, <1>7
  <2>2. TypeOK'  BY <1>1, <1>2, <1>4, <1>7, <2>1, TypeKept
  <2>3. /\ Asked' /\ HalvesAgree' /\ HalfFirst' /\ TableRows'
        /\ Clean' => RightMetadata' /\ RightExt' /\ RightHalf'
    BY <1>1, <1>4, <1>7, LookupKeeps DEF Looking, Waiting
  <2>4. Scanned' /\ ReadableBoots'  BY <1>7 DEF Scanned, ReadableBoots, At
  <2>5. AnswersAreVouchedFor'
    <3> SUFFICES ASSUME look.found # Blank
                 PROVE  HeaderOK(c)' /\ \E k \in DOMAIN Sum(c) : look.found \in Sum(c)[k].entries
        BY <1>1, <1>3, <2>1 DEF AnswersAreVouchedFor, Sum, HeaderOK
    <3>1. RowIn(Sum(c), look.name, look.found)  BY <1>1, <1>2, <1>7, Zenon DEF Scanned
    <3> QED  BY <1>1, <1>3, <1>7, <3>1 DEF RowIn, HeaderOK
  <2>6. ASSUME Clean' PROVE RightCopy' /\ RightScan' /\ RightAnswer'
    <3>1. RightCopy /\ RightScan /\ EntriesOK(c)  BY <1>5, <1>6, <1>7, <2>6, Zenon
    <3>2. Sound(c)  BY <1>3, <3>1 DEF Sound
    <3>3. \/ c = "primary" /\ look.info
          \/ c = "backup" /\ ~Sound("primary") /\ (look.info <=> ~HeaderOK("primary"))
      BY <1>1, <3>1, Zenon DEF RightCopy, Looking
    <3>4. Chunks(c) = Sum(c)  BY <3>1 DEF EntriesOK, Chunks, Sum
    <3>5. CASE Readable
      <4>1. Source = c /\ look.info
        BY <1>3, <3>2, <3>3, <3>5, Zenon DEF Source, Readable
      <4>2. look.found # Blank
        <5> SUFFICES ASSUME look.found = Blank PROVE FALSE
            OBVIOUS
        <5>1. \A k \in 1 .. Len(Sum(c)) : \A e \in Sum(c)[k].entries : e.name # look.name
          <6>1. look.chunk = Len(Chunks(c)) + 1  BY <1>1, <3>1, Zenon DEF RightScan
          <6>2. look.chunk - 1 = Len(Sum(c))  BY <1>2, <1>3, <3>4, <6>1, CopyType
          <6> QED  BY <1>1, <1>7, <3>1, <3>4, <4>1, <6>2, Zenon DEF RightScan
        <5>2. PICK e : RowIn(Sum(c), look.name, e)  BY <1>2, <1>3, CopyType, LookIs, Rows
        <5>3. DOMAIN Sum(c) = 1..Len(Sum(c))  BY <1>2, <1>3, CopyType
        <5> QED  BY <5>1, <5>2, <5>3 DEF RowIn
      <4>3. RowIn(Sum(c), look.name, look.found)
        BY <1>1, <1>2, <1>7, <4>2, Zenon DEF Scanned
      <4>4. IsRow(look.name, look.found)  BY <4>1, <4>3 DEF IsRow
      <4>5. Readable' /\ IsRow(look.name, look.found)'
        BY <1>1, <1>7, <3>5, <4>4, DiskSame DEF IsRow, RowIn, Sum, Source
      <4>6. RightAnswer'
        BY <1>1, <1>7, <2>1, <4>1, <4>4, <4>5, DiskSame DEF RightAnswer, IsRow
      <4> QED  BY <1>7, <4>6 DEF RightCopy, RightScan, Looking
    <3>6. CASE ~Readable
      <4>1. ~look.info  BY <3>2, <3>3, <3>6, Zenon DEF Readable
      <4>2. look.found = Blank  BY <1>1, <3>1, <4>1, Zenon DEF RightScan
      <4>3. ~Readable'  BY <1>1, <3>6, DiskSame
      <4>4. RightAnswer'  BY <2>1, <4>2, <4>3 DEF RightAnswer
      <4> QED  BY <1>7, <4>4 DEF RightCopy, RightScan, Looking
    <3> QED  BY <3>5, <3>6
  <2> QED  BY <2>2, <2>3, <2>4, <2>5, <2>6 DEF IInv, Rightly
<1>8. CASE /\ ~look.summed /\ c = "primary" /\ pc' = "header"
           /\ look' = [look EXCEPT !.copy = "backup", !.info = FALSE] /\ UNCHANGED ans
  <2>1. look' \in Looks /\ look'.name = look.name /\ look'.copy = "backup"
    BY <1>2, <1>8 DEF Looks, Copy
  <2>2. look'.info = FALSE  BY <1>2, <1>8 DEF Looks
  <2>3. TypeOK'  BY <1>1, <1>2, <1>4, <1>8, <2>1, TypeKept
  <2>4. /\ Asked' /\ HalvesAgree' /\ HalfFirst' /\ TableRows'
        /\ Clean' => RightMetadata' /\ RightExt' /\ RightHalf'
    BY <1>1, <1>4, <1>8, <2>1, LookupKeeps DEF Looking, Waiting
  <2>5. Scanned' /\ AnswersAreVouchedFor' /\ ReadableBoots'
    BY <1>8 DEF Scanned, AnswersAreVouchedFor, ReadableBoots, At
  <2>6. ASSUME Clean' PROVE RightCopy' /\ RightScan' /\ RightAnswer'
    <3>1. ~EntriesOK("primary") /\ HeaderOK("primary")
      BY <1>3, <1>5, <1>6, <1>8, <2>6, Zenon
    <3>2. ~Sound("primary")' /\ HeaderOK("primary")'
      BY <1>1, <3>1 DEF Sound, HeaderOK, EntriesOK
    <3>3. RightCopy'  BY <2>1, <2>2, <3>2, Zenon DEF RightCopy
    <3> QED  BY <1>8, <3>3 DEF RightScan, RightAnswer
  <2> QED  BY <2>3, <2>4, <2>5, <2>6 DEF IInv, Rightly
<1>9. CASE /\ ~look.summed /\ c = "backup" /\ pc' = "answer"
           /\ ans' = [ret |-> 1, entry |-> Blank] /\ UNCHANGED look
  <2>1. ans' \in [ret : {0, 1}, entry : Entry] /\ ans'.entry = Blank  BY <1>9, BlankIs
  <2>2. TypeOK'  BY <1>1, <1>2, <1>4, <1>9, <2>1, TypeKept
  <2>3. /\ Asked' /\ HalvesAgree' /\ HalfFirst' /\ TableRows'
        /\ Clean' => RightMetadata' /\ RightExt' /\ RightHalf'
    BY <1>1, <1>4, <1>9, LookupKeeps DEF Looking, Waiting
  <2>4. Scanned' /\ AnswersAreVouchedFor' /\ ReadableBoots'
    BY <1>9, <2>1 DEF Scanned, AnswersAreVouchedFor, ReadableBoots, At
  <2>5. ASSUME Clean' PROVE RightCopy' /\ RightScan' /\ RightAnswer'
    <3>1. ~EntriesOK("backup") /\ RightCopy
      BY <1>3, <1>5, <1>6, <1>9, <2>5, Zenon
    <3>2. ~Sound("primary")  BY <1>1, <1>9, <3>1, Zenon DEF RightCopy, Looking
    <3>3. ~Readable'  BY <1>1, <3>1, <3>2, DiskSame DEF Readable, Sound
    <3>4. RightAnswer'  BY <2>1, <3>3 DEF RightAnswer
    <3> QED  BY <1>9, <3>4 DEF RightCopy, RightScan, Looking
  <2> QED  BY <2>2, <2>3, <2>4, <2>5 DEF IInv, Rightly
<1> QED  BY <1>3, <1>7, <1>8, <1>9, Zenon DEF CheckSum

-----------------------------------------------------------------------------
(* Its callers.                                                            *)

\* A lookup begins.
LEMMA LookUpStep ==
  ASSUME IInv, pc # "done", NEW n \in Name, NEW for, n = IF for \in Ext THEN for ELSE "para",
         LookUp(n, for), UNCHANGED <<build, gpt, para, table, half>>, HistoryType', Clean' => Clean,
         meta' \in Suffix \cup {NONE}, suffix' \in Suffix \cup {NONE},
         ext' \in [Ext -> [addr : Place, active : BOOLEAN]],
         Clean' => RightMetadata' /\ RightExt'
  PROVE  IInv'
<1>1. /\ pc' = "header" /\ caller' = for /\ look' = [Start EXCEPT !.name = n]
      /\ UNCHANGED <<buf, ans>>
  BY DEF LookUp
<1>2. look'.name = n /\ look'.copy = "primary" /\ look'.info = TRUE /\ look' \in Looks
  <2>1. look' = [name |-> n, copy |-> "primary", chunk |-> 1, found |-> Blank,
                 info |-> TRUE, summed |-> TRUE]
    BY <1>1 DEF Start
  <2>2. TRUE \in BOOLEAN /\ "primary" \in Copy /\ 1 \in Nat \ {0}  BY DEF Copy
  <2> QED  BY <2>1, <2>2, BlankIs DEF Looks
<1>3. TypeOK'
  <2>1. TypeOK  BY DEF IInv
  <2> QED  BY <1>1, <1>2, <2>1 DEF TypeOK, HistoryType
<1>4. Asked'  BY <1>1, <1>2 DEF Asked
<1>5. Scanned' /\ AnswersAreVouchedFor' /\ ReadableBoots'
  BY <1>1 DEF Scanned, AnswersAreVouchedFor, ReadableBoots, At
<1>6. HalvesAgree'  BY Zenon DEF IInv, HalvesAgree, Clean
<1>7. HalfFirst' /\ TableRows'  BY <1>1 DEF IInv, HalfFirst, TableRows
<1>8. RightCopy'  BY <1>2, Zenon DEF RightCopy
<1>9. RightScan' /\ RightAnswer' /\ RightHalf'
  BY <1>1 DEF RightScan, RightAnswer, RightHalf
<1> QED  BY <1>3, <1>4, <1>5, <1>6, <1>7, <1>8, <1>9 DEF IInv, Rightly

\* No lookup is under way.
LEMMA RestStep ==
  ASSUME pc' \notin Waiting, TypeOK', HalvesAgree', HalfFirst', TableRows',
         Clean' => RightExt' /\ RightHalf', pc' = "halt" => ~Clean' \/ ~Readable'
  PROVE  IInv'
<1>1. pc' \notin {"header", "chunk", "sum", "answer"}  BY DEF Waiting, Looking
<1>2. Asked' /\ Scanned' /\ AnswersAreVouchedFor'
  BY <1>1 DEF Asked, Scanned, AnswersAreVouchedFor, At, Waiting, Looking
<1>3. RightCopy' /\ RightScan' /\ RightAnswer' /\ RightMetadata'
  BY <1>1 DEF RightCopy, RightScan, RightAnswer, RightMetadata, Waiting, Looking
<1>4. ReadableBoots'  BY Zenon DEF ReadableBoots, At, Clean
<1> QED  BY <1>2, <1>3, <1>4 DEF IInv, Rightly

\* The answer, when no access has failed.
LEMMA AnswerIs ==
  ASSUME IInv, NEW for, Answered(for), Clean
  PROVE  LET n == IF for \in Ext THEN for ELSE "para" IN
         /\ Readable => /\ ans.ret = 0 /\ IsRow(n, ans.entry) /\ ans.entry.addr = n
                        /\ ans.entry \in Entry
         /\ ~Readable => ans.entry = Blank
<1>1. pc = "answer" /\ caller = for  BY DEF Answered, At
<1>2. look.name = IF for \in Ext THEN for ELSE "para"  BY <1>1 DEF IInv, Asked, Waiting
<1>3. RightAnswer /\ TypeOK  BY DEF IInv, Rightly
<1>4. CASE Readable
  <2>1. ans.ret = 0 /\ IsRow(look.name, ans.entry)  BY <1>1, <1>3, <1>4, Zenon DEF RightAnswer
  <2>2. Sum(Source) \in TABLES  BY <1>3, SourceIs, CopyType
  <2>3. ans.entry.addr = look.name /\ ans.entry \in Entry
    BY <2>1, <2>2, Rows DEF IsRow
  <2> QED  BY <1>2, <1>4, <2>1, <2>3
<1>5. CASE ~Readable  BY <1>1, <1>3, <1>5, Zenon DEF RightAnswer
<1> QED  BY <1>4, <1>5

LEMMA MetadataType ==
  ASSUME TypeOK, NEW place
  PROVE  Metadata(place) \in Suffix \cup {NONE}
<1>1. "primary" \in Copy  BY DEF Copy
<1>2. Chunks("primary") \in Seq(Chunk) /\ 1 \in DOMAIN Chunks("primary")
  BY <1>1, CopyType
<1>3. Chunks("primary")[1] \in Chunk  BY <1>2, ElementOfSeq
<1>4. gpt["primary"].chunks[1].mark \in {"gpt", NONE} \cup Suffix
  BY <1>3 DEF Chunk, Chunks
<1>5. para \in Suffix \cup {NONE}  BY DEF TypeOK
<1> QED  BY <1>4, <1>5 DEF Metadata

\* The start of the device is in the first chunk of the primary.
LEMMA WriteType ==
  ASSUME TypeOK, NEW place, NEW s \in Suffix \cup {NONE}, WriteMetadata(place, s)
  PROVE  /\ gpt' \in [Copy -> GptCopy] /\ para' \in Suffix \cup {NONE}
         /\ \A c \in Copy : Len(gpt'[c].chunks) = Len(gpt'[c].sum)
         /\ AccessOK \/ AccessFails
         /\ (place = "para" => UNCHANGED gpt)
<1>1. /\ gpt \in [Copy -> GptCopy] /\ para \in Suffix \cup {NONE}
      /\ \A c \in Copy : Len(gpt[c].chunks) = Len(gpt[c].sum)
  BY DEF TypeOK
<1>2. CASE place = "zero" /\ UNCHANGED para /\ gpt' = [gpt EXCEPT !["primary"].chunks[1].mark = s]
  <2>1. "primary" \in Copy  BY DEF Copy
  <2>2. Chunks("primary") \in Seq(Chunk) /\ 1 \in DOMAIN Chunks("primary")
    BY <2>1, CopyType
  <2>3. Chunks("primary")[1] \in Chunk  BY <2>2, ElementOfSeq
  <2> DEFINE new == [Chunks("primary")[1] EXCEPT !.mark = s]
             chunks == [Chunks("primary") EXCEPT ![1] = new]
             copy == [gpt["primary"] EXCEPT !.chunks = chunks]
  <2>4. new \in Chunk  BY <2>3 DEF Chunk
  <2>5. chunks \in Seq(Chunk) /\ Len(chunks) = Len(Chunks("primary"))
    <3> HIDE DEF new
    <3> QED  BY <2>2, <2>4, ExceptSeq
  <2>6. gpt' = [gpt EXCEPT !["primary"] = copy]  BY <1>2 DEF Chunks
  <2> HIDE DEF new, chunks
  <2>7. copy \in GptCopy /\ copy.sum = gpt["primary"].sum /\ copy.chunks = chunks
    BY <1>1, <2>1, <2>5 DEF GptCopy
  <2> HIDE DEF copy
  <2>8. gpt' \in [Copy -> GptCopy]  BY <1>1, <2>6, <2>7
  <2>9. ASSUME NEW c \in Copy PROVE Len(gpt'[c].chunks) = Len(gpt'[c].sum)
    <3>1. CASE c = "primary"
      <4>1. gpt'[c] = copy  BY <1>1, <2>1, <2>6, <3>1
      <4> QED  BY <1>1, <2>1, <2>5, <2>7, <3>1, <4>1 DEF Chunks
    <3>2. CASE c # "primary"
      <4>1. gpt'[c] = gpt[c]  BY <1>1, <2>6, <3>2
      <4> QED  BY <1>1, <4>1
    <3> QED  BY <3>1, <3>2
  <2>10. para' \in Suffix \cup {NONE} /\ place # "para"  BY <1>1, <1>2
  <2>11. AccessOK \/ AccessFails  BY DEF WriteMetadata
  <2> QED  BY <2>8, <2>9, <2>10, <2>11
<1>3. CASE UNCHANGED gpt
  <2>1. AccessOK \/ AccessFails  BY DEF WriteMetadata
  <2>2. para' \in Suffix \cup {NONE}  BY <1>1 DEF WriteMetadata, disk
  <2> QED  BY <1>1, <1>3, <2>1, <2>2
<1> QED  BY <1>2, <1>3 DEF WriteMetadata, disk

LEMMA BooksAre ==
  ASSUME TypeOK
  PROVE  /\ para \in Suffix \cup {NONE} /\ suffix \in Suffix \cup {NONE}
         /\ meta \in Suffix \cup {NONE} /\ gpt \in [Copy -> GptCopy]
         /\ ext \in [Ext -> [addr : Place, active : BOOLEAN]]
         /\ HistoryType
BY DEF TypeOK, HistoryType

LEMMA HistoryKept == TypeOK /\ UNCHANGED history => HistoryType' /\ (Clean' => Clean)
<1> SUFFICES ASSUME TypeOK, UNCHANGED history PROVE HistoryType' /\ (Clean' => Clean)
    OBVIOUS
<1>1. failed' = failed /\ fails' = fails  BY DEF history
<1>2. HistoryType  BY BooksAre
<1> QED  BY <1>1, <1>2, Zenon DEF HistoryType, Clean

\* A call of boot control that ends, by a failed read or a write.
LEMMA CallEnds ==
  ASSUME IInv, pc = "answer", pc' \in {"booted", "done"},
         UNCHANGED <<build, lookup, ext, table, half>>,
         gpt' \in [Copy -> GptCopy], para' \in Suffix \cup {NONE},
         \A c \in Copy : Len(gpt'[c].chunks) = Len(gpt'[c].sum),
         meta' \in Suffix \cup {NONE}, suffix' \in Suffix \cup {NONE},
         AccessOK \/ AccessFails
  PROVE  IInv'
<1>1. TypeOK  BY DEF IInv
<1>2. HistoryType' /\ (Clean' => Clean)  BY <1>1, AccessIs
<1>3. TypeOK'  BY <1>1, <1>2 DEF TypeOK, HistoryType, lookup
<1>4. HalvesAgree'  BY <1>2, Zenon DEF IInv, HalvesAgree, Clean
<1>5. HalfFirst' /\ TableRows'  BY DEF IInv, HalfFirst, TableRows
<1>6. RightExt' /\ RightHalf'  BY DEF RightExt, RightHalf, Waiting, Looking
<1>7. pc' \notin Waiting /\ pc' # "halt"  BY DEF Waiting, Looking
<1> QED  BY <1>3, <1>4, <1>5, <1>6, <1>7, RestStep

\* One that looks "para" up anew.
LEMMA LooksAgain ==
  ASSUME IInv, pc # "done", NEW for, for \notin Ext, LookUp("para", for),
         UNCHANGED <<build, disk, ext, table, half>>, HistoryType', Clean' => Clean,
         meta' \in Suffix \cup {NONE}, suffix' \in Suffix \cup {NONE},
         Clean' /\ Readable =>
           /\ for \in {"active_read", "active_write"} => para = NONE
           /\ for = "update_write" => meta' = para
  PROVE  IInv'
<1>1. pc' = "header" /\ caller' = for  BY DEF LookUp
<1>2. UNCHANGED <<gpt, para>>  BY DEF disk
<1>3. ASSUME Clean' PROVE RightMetadata' /\ RightExt'
  <2>1. RightMetadata'
    <3>1. Readable' <=> Readable  BY <1>2, DiskSame
    <3> QED  BY <1>1, <1>2, <1>3, <3>1 DEF RightMetadata
  <2>2. RightExt'
    <3>1. for # "ext2"  BY DEF Ext
    <3> QED  BY <1>1, <3>1 DEF RightExt
  <2> QED  BY <2>1, <2>2
<1>4. ext' \in [Ext -> [addr : Place, active : BOOLEAN]]  BY BooksAre DEF IInv
<1>5. "para" \in Name  BY DEF Name
<1> QED  BY <1>2, <1>3, <1>4, <1>5, LookUpStep

\* The place of the metadata, when no access has failed.
LEMMA MetadataIs ==
  ASSUME IInv, NEW for, for \notin Ext, Answered(for), Clean, Readable
  PROVE  ans.entry.addr = "para" /\ Metadata(ans.entry.addr) = para
<1>1. ans.entry.addr = "para"  BY AnswerIs
<1> QED  BY <1>1 DEF Metadata

LEMMA BootControlStep == IInv /\ BootControl => IInv'
<1> SUFFICES ASSUME IInv, BootControl PROVE IInv'
    OBVIOUS
<1>1. TypeOK  BY DEF IInv
<1>2. /\ para \in Suffix \cup {NONE} /\ suffix \in Suffix \cup {NONE}
      /\ meta \in Suffix \cup {NONE} /\ gpt \in [Copy -> GptCopy] /\ HistoryType
      /\ \A c \in Copy : Len(gpt[c].chunks) = Len(gpt[c].sum)
  BY <1>1, BooksAre DEF TypeOK
<1>3. Metadata(ans.entry.addr) \in Suffix \cup {NONE} /\ "a" \in Suffix
  BY <1>1, MetadataType DEF Suffix
<1>4. /\ "suffix_read" \notin Ext /\ "active_read" \notin Ext /\ "active_write" \notin Ext
      /\ "update_read" \notin Ext /\ "update_write" \notin Ext
  BY DEF Ext
<1>5. CASE GetSuffix
  <2>1. /\ pc = "get_suffix" /\ LookUp("para", "suffix_read")
        /\ UNCHANGED <<build, disk, meta, suffix, ext, table, half>>
    BY <1>5 DEF GetSuffix, At, booted
  <2>2. HistoryType' /\ (Clean' => Clean)  BY <1>1, <1>5, HistoryKept DEF GetSuffix
  <2> QED  BY <1>2, <1>4, <2>1, <2>2, LooksAgain
<1>6. CASE SuffixRead
  <2>1. Answered("suffix_read") /\ pc = "answer" /\ UNCHANGED <<build, disk, meta, ext, table, half>>
    BY <1>6 DEF SuffixRead, Answered, At
  <2>2. UNCHANGED <<gpt, para>>  BY <2>1 DEF disk
  <2>3. CASE /\ AccessOK \/ AccessFails
             /\ suffix' \in {NONE, Metadata(ans.entry.addr)}
             /\ pc' = "booted" /\ UNCHANGED <<caller, lookup>>
    BY <1>2, <1>3, <2>1, <2>2, <2>3, CallEnds
  <2>4. CASE /\ AccessOK /\ Metadata(ans.entry.addr) = NONE /\ suffix' = "a"
             /\ LookUp("para", "active_read")
    <3>1. HistoryType' /\ (Clean' => Clean)  BY <1>1, <2>4, AccessIs
    <3>2. Clean' /\ Readable => para = NONE  BY <1>4, <2>1, <2>4, <3>1, MetadataIs
    <3> QED  BY <1>2, <1>3, <1>4, <2>1, <2>4, <3>1, <3>2, LooksAgain
  <2> QED  BY <1>6, <2>3, <2>4 DEF SuffixRead
<1>7. CASE ActiveRead
  <2>1. Answered("active_read") /\ pc = "answer" /\ UNCHANGED <<build, disk, meta, suffix, ext, table, half>>
    BY <1>7 DEF ActiveRead, Answered, At, booted
  <2>2. UNCHANGED <<gpt, para>>  BY <2>1 DEF disk
  <2>3. CASE AccessFails /\ pc' = "booted" /\ UNCHANGED <<caller, lookup>>
    BY <1>2, <2>1, <2>2, <2>3, CallEnds
  <2>4. CASE AccessOK /\ LookUp("para", "active_write")
    <3>1. HistoryType' /\ (Clean' => Clean)  BY <1>1, <2>4, AccessIs
    <3>2. Clean' /\ Readable => para = NONE
      <4>1. Clean => RightMetadata  BY DEF IInv, Rightly
      <4>2. pc \in Waiting /\ caller = "active_read"  BY <2>1 DEF Waiting, Answered
      <4> QED  BY <3>1, <4>1, <4>2 DEF RightMetadata
    <3> QED  BY <1>2, <1>4, <2>1, <2>4, <3>1, <3>2, LooksAgain
  <2> QED  BY <1>7, <2>3, <2>4 DEF ActiveRead
<1>8. CASE ActiveWrite
  <2>1. /\ pc = "answer" /\ pc' = "booted" /\ WriteMetadata(ans.entry.addr, "a")
        /\ UNCHANGED <<build, lookup, meta, suffix, ext, table, half>>
    BY <1>8 DEF ActiveWrite, Answered, At, booted
  <2> QED  BY <1>1, <1>2, <1>3, <2>1, WriteType, CallEnds
<1>9. CASE Update
  <2>1. /\ pc = "booted" /\ LookUp("para", "update_read")
        /\ UNCHANGED <<build, disk, meta, suffix, ext, table, half>>
    BY <1>9 DEF Update, At, booted
  <2>2. HistoryType' /\ (Clean' => Clean)  BY <1>1, <1>9, HistoryKept DEF Update
  <2> QED  BY <1>2, <1>4, <2>1, <2>2, LooksAgain
<1>10. CASE UpdateRead
  <2>1. Answered("update_read") /\ pc = "answer" /\ UNCHANGED <<build, disk, suffix, ext, table, half>>
    BY <1>10 DEF UpdateRead, Answered, At
  <2>2. UNCHANGED <<gpt, para>>  BY <2>1 DEF disk
  <2>3. CASE AccessFails /\ pc' = "done" /\ UNCHANGED <<caller, lookup, meta>>
    BY <1>2, <2>1, <2>2, <2>3, CallEnds
  <2>4. CASE AccessOK /\ meta' = Metadata(ans.entry.addr) /\ LookUp("para", "update_write")
    <3>1. HistoryType' /\ (Clean' => Clean)  BY <1>1, <2>4, AccessIs
    <3>2. Clean' /\ Readable => meta' = para  BY <1>4, <2>1, <2>4, <3>1, MetadataIs
    <3> QED  BY <1>2, <1>3, <1>4, <2>1, <2>4, <3>1, <3>2, LooksAgain
  <2> QED  BY <1>10, <2>3, <2>4 DEF UpdateRead
<1>11. CASE UpdateWrite
  <2>1. /\ pc = "answer" /\ pc' = "done" /\ WriteMetadata(ans.entry.addr, meta)
        /\ UNCHANGED <<build, lookup, meta, suffix, ext, table, half>>
    BY <1>11 DEF UpdateWrite, Answered, At, booted
  <2> QED  BY <1>1, <1>2, <2>1, WriteType, CallEnds
<1> QED  BY <1>5, <1>6, <1>7, <1>8, <1>9, <1>10, <1>11 DEF BootControl

-----------------------------------------------------------------------------
(* The extension.                                                          *)

InfoType == [addr : Place, active : BOOLEAN]

\* What an answer makes of the place of the extension that was asked for.
LEMMA InfoIs ==
  ASSUME IInv, NEW n \in Ext, Answered(n), NEW i \in Info, ext' = [ext EXCEPT ![n] = i]
  PROVE  /\ ext' \in [Ext -> InfoType] /\ ext'[n] = i
         /\ \A m \in Ext \ {n} : ext'[m] = ext[m]
         /\ Clean => IF Readable
                     THEN \E e \in Entry : IsRow(n, e) /\ i = [addr |-> e.addr, active |-> e.active]
                     ELSE ~HasImage(i.addr)
<1>1. TypeOK  BY DEF IInv
<1>2. ans \in [ret : {0, 1}, entry : Entry] /\ ext \in [Ext -> InfoType]
  BY <1>1 DEF TypeOK, InfoType
<1>3. ans.entry \in Entry /\ ans.ret \in {0, 1}  BY <1>2
<1>4. ans.entry.addr \in Place /\ ans.entry.active \in BOOLEAN  BY <1>3 DEF Entry
<1>5. \/ ans.ret = 0 /\ i = [addr |-> ans.entry.addr, active |-> ans.entry.active]
      \/ ans.ret # 0 /\ \E b \in BOOLEAN : i = [addr |-> "elsewhere", active |-> b]
  BY DEF Info
<1>6. i \in InfoType /\ (ans.ret # 0 => i.addr = "elsewhere")
  BY <1>4, <1>5 DEF InfoType, Place
<1>7. /\ ext' \in [Ext -> InfoType] /\ ext'[n] = i /\ \A m \in Ext \ {n} : ext'[m] = ext[m]
  BY <1>2, <1>6
<1>8. ASSUME Clean, Readable
      PROVE  \E e \in Entry : IsRow(n, e) /\ i = [addr |-> e.addr, active |-> e.active]
  <2>1. ans.ret = 0 /\ IsRow(n, ans.entry)  BY <1>8, AnswerIs
  <2> QED  BY <1>3, <1>5, <2>1
<1>9. ASSUME Clean, ~Readable PROVE ~HasImage(i.addr)
  <2>1. ans.entry = Blank  BY <1>9, AnswerIs
  <2>2. Blank.addr = "zero"  BY DEF Blank
  <2>3. i.addr \in {"zero", "elsewhere"}  BY <1>5, <1>6, <2>1, <2>2
  <2> QED  BY <2>3 DEF HasImage, Ext
<1> QED  BY <1>7, <1>8, <1>9

LEMMA InfoSteps == IInv /\ (LoadExtDram \/ Ext1Info \/ Ext2Info) => IInv'
<1> SUFFICES ASSUME IInv, LoadExtDram \/ Ext1Info \/ Ext2Info PROVE IInv'
    OBVIOUS
<1>1. TypeOK  BY DEF IInv
<1>2. /\ UNCHANGED <<build, disk, meta, suffix, table, half, history>> /\ pc # "done"
      /\ UNCHANGED <<gpt, para>>
  BY DEF LoadExtDram, Ext1Info, Ext2Info, Answered, At, booted, disk
<1>3. HistoryType' /\ (Clean' => Clean)  BY <1>1, <1>2, HistoryKept
<1>4. /\ suffix \in Suffix \cup {NONE} /\ meta \in Suffix \cup {NONE}
      /\ ext \in [Ext -> InfoType]
  BY <1>1, BooksAre DEF InfoType
<1>5. "ext1" \in Ext /\ "ext2" \in Ext /\ Ext \subseteq Name  BY DEF Ext, Name
<1>6. CASE LoadExtDram
  <2>1. LookUp("ext1", "ext1") /\ UNCHANGED ext  BY <1>6 DEF LoadExtDram, booted
  <2>2. pc' = "header" /\ caller' = "ext1"  BY <2>1 DEF LookUp
  <2>3. RightMetadata' /\ RightExt'  BY <2>2 DEF RightMetadata, RightExt
  <2> QED  BY <1>2, <1>3, <1>4, <1>5, <2>1, <2>3, LookUpStep DEF InfoType
<1>7. CASE Ext1Info
  <2>1. Answered("ext1") /\ LookUp("ext2", "ext2")  BY <1>7 DEF Ext1Info
  <2>2. PICK i \in Info : ext' = [ext EXCEPT !["ext1"] = i]  BY <1>7 DEF Ext1Info
  <2>3. pc' = "header" /\ caller' = "ext2"  BY <2>1 DEF LookUp
  <2>4. /\ ext' \in [Ext -> InfoType] /\ ext'["ext1"] = i
        /\ Clean => IF Readable
                    THEN \E e \in Entry : IsRow("ext1", e) /\ i = [addr |-> e.addr, active |-> e.active]
                    ELSE ~HasImage(i.addr)
    BY <1>5, <2>1, <2>2, InfoIs
  <2>5. Clean' => RightInfo("ext1")'  BY <1>2, <1>3, <2>4, DiskSame DEF RightInfo
  <2>6. Clean' => RightMetadata' /\ RightExt'
    BY <2>3, <2>5 DEF RightMetadata, RightExt
  <2> QED  BY <1>2, <1>3, <1>4, <1>5, <2>1, <2>4, <2>6, LookUpStep DEF InfoType
<1>8. CASE Ext2Info
  <2>1. Answered("ext2") /\ pc' = "ext_dram" /\ UNCHANGED <<caller, lookup>>
    BY <1>8 DEF Ext2Info
  <2>2. PICK i \in Info : ext' = [ext EXCEPT !["ext2"] = i]  BY <1>8 DEF Ext2Info
  <2>3. /\ ext' \in [Ext -> InfoType] /\ ext'["ext2"] = i /\ ext'["ext1"] = ext["ext1"]
        /\ Clean => IF Readable
                    THEN \E e \in Entry : IsRow("ext2", e) /\ i = [addr |-> e.addr, active |-> e.active]
                    ELSE ~HasImage(i.addr)
    BY <1>5, <2>1, <2>2, InfoIs
  <2>4. Clean' => RightInfo("ext2")'  BY <1>2, <1>3, <2>3, DiskSame DEF RightInfo
  <2>5. Clean' => RightInfo("ext1")'
    <3>1. pc \in Waiting /\ caller = "ext2"  BY <2>1 DEF Answered, At, Waiting
    <3>2. Clean => RightInfo("ext1")  BY <3>1 DEF IInv, Rightly, RightExt
    <3> QED  BY <1>2, <1>3, <2>3, <3>2, DiskSame DEF RightInfo
  <2>6. Clean' => RightExt' /\ RightHalf'
    BY <2>1, <2>4, <2>5 DEF RightExt, RightHalf
  <2>7. TypeOK'  BY <1>1, <1>2, <1>3, <2>1, <2>3 DEF TypeOK, HistoryType, lookup, InfoType
  <2>8. HalvesAgree'  BY <1>2, <1>3, Zenon DEF IInv, HalvesAgree, Clean
  <2>9. HalfFirst' /\ TableRows'  BY <1>2, <2>1 DEF IInv, HalfFirst, TableRows
  <2>10. pc' \notin Waiting /\ pc' # "halt"  BY <2>1 DEF Waiting, Looking
  <2> QED  BY <2>6, <2>7, <2>8, <2>9, <2>10, RestStep
<1> QED  BY <1>6, <1>7, <1>8

\* The row that a name was given by, and its place.
LEMMA ExtIs ==
  ASSUME TypeOK, Readable, NEW n \in Ext, RightInfo(n)
  PROVE  /\ ext[n].addr = n
         /\ \A e \in Entries(Source) : e.name = n => (e.active <=> ext[n].active)
         /\ \E e \in Entries(Source) : e.name = n
<1>1. PICK e \in Entry : IsRow(n, e) /\ ext[n] = [addr |-> e.addr, active |-> e.active]
  BY Zenon DEF RightInfo
<1>2. Sum(Source) \in TABLES  BY SourceIs, CopyType
<1>3. e.addr = n /\ e.name = n  BY <1>1, <1>2, Rows DEF IsRow
<1>4. e \in Entries(Source)  BY <1>1, <1>3, EntriesAre
<1>5. ASSUME NEW d \in Entries(Source), d.name = n PROVE d = e
  <2>1. IsRow(n, d)  BY <1>5, EntriesAre
  <2> QED  BY <1>1, <1>2, <2>1, Rows DEF IsRow
<1>6. ext[n].addr = n /\ ext[n].active = e.active  BY <1>1, <1>3
<1> QED  BY <1>3, <1>4, <1>5, <1>6, Zenon

LEMMA DramStep == IInv /\ LoadDramHalf => IInv'
<1> SUFFICES ASSUME IInv, LoadDramHalf PROVE IInv'
    OBVIOUS
<1> DEFINE at == ext[Picked].addr
<1>1. /\ pc = "ext_dram" /\ look' = [look EXCEPT !.copy = "primary"]
      /\ UNCHANGED <<build, disk, caller, buf, ans, meta, suffix, ext, table>>
      /\ \/ /\ AccessOK /\ HasImage(at)
            /\ half' = [half EXCEPT !.dram = at] /\ pc' = "part_init"
         \/ AccessOK /\ ~HasImage(at) /\ pc' = "halt" /\ UNCHANGED half
         \/ AccessFails /\ pc' = "halt" /\ UNCHANGED half
  BY DEF LoadDramHalf, At, Picked
<1>2. TypeOK /\ look \in Looks /\ half.etc = NONE /\ half \in [{"dram", "etc"} -> Ext \cup {NONE}]
  BY <1>1 DEF IInv, TypeOK, HalfFirst
<1>3. HistoryType' /\ (Clean' => Clean /\ AccessOK)  BY <1>1, <1>2, AccessIs
<1>4. UNCHANGED gpt  BY <1>1 DEF disk
<1>5. look' \in Looks /\ look'.copy = "primary"  BY <1>1, <1>2 DEF Looks, Copy
<1>6. half' \in [{"dram", "etc"} -> Ext \cup {NONE}] /\ half'.etc = NONE
  <2>1. HasImage(at) => at \in Ext  BY DEF HasImage
  <2> QED  BY <1>1, <1>2, <2>1
<1>7. TypeOK'  BY <1>1, <1>2, <1>3, <1>5, <1>6 DEF TypeOK, HistoryType, disk
<1>8. HalvesAgree' /\ HalfFirst' /\ TableRows'
  BY <1>1, <1>6 DEF HalvesAgree, HalfFirst, TableRows
<1>9. pc' \in {"part_init", "halt"}  BY <1>1
<1>10. Clean => RightInfo("ext1") /\ RightInfo("ext2")
  BY <1>1 DEF IInv, Rightly, RightExt
<1>11. Picked \in Ext  BY DEF Picked, Chosen, Ext
<1>12. Clean => (HasImage(at) <=> Readable)
  <2>1. CASE Clean /\ Readable
    <3>1. at = Picked
      <4>1. ext["ext1"].addr = "ext1" /\ ext["ext2"].addr = "ext2"
        BY <1>2, <1>10, <2>1, ExtIs DEF Ext
      <4> QED  BY <1>11, <4>1 DEF Ext
    <3> QED  BY <1>11, <2>1, <3>1 DEF HasImage
  <2>2. CASE Clean /\ ~Readable
    <3>1. ~HasImage(ext["ext1"].addr) /\ ~HasImage(ext["ext2"].addr)
      BY <1>10, <2>2, Zenon DEF RightInfo
    <3> QED  BY <1>11, <2>2, <3>1 DEF Ext
  <2> QED  BY <2>1, <2>2
<1> HIDE DEF at
<1>13. Clean' => (pc' = "part_init" <=> Readable')
  <2>1. Readable' <=> Readable  BY <1>4, DiskSame
  <2>2. AccessFails => ~Clean'  BY Zenon DEF AccessFails, Clean
  <2>3. Clean' => (pc' = "part_init" <=> HasImage(at))
    <3>1. HasImage(at) \/ ~HasImage(at)  OBVIOUS
    <3> QED  BY <1>1, <2>2
  <2> QED  BY <1>3, <1>12, <2>1, <2>3
<1>14. ASSUME Clean' PROVE RightExt' /\ RightHalf'
  <2>1. RightInfo("ext1")' /\ RightInfo("ext2")'
    BY <1>1, <1>3, <1>4, <1>10, <1>14, DiskSame DEF RightInfo
  <2>2. RightExt'  BY <2>1 DEF RightExt
  <2>3. pc' = "part_init" => half'.dram = at  BY <1>1, <1>2
  <2>4. at = ext'[Picked'].addr  BY <1>1 DEF at, Picked
  <2>5. RightHalf'
    BY <1>5, <1>9, <1>13, <1>14, <2>3, <2>4 DEF RightHalf
  <2> QED  BY <2>2, <2>5
<1>15. pc' \notin Waiting  BY <1>9 DEF Waiting, Looking
<1> QED  BY <1>7, <1>8, <1>9, <1>13, <1>14, <1>15, RestStep

LEMMA TableIs ==
  ASSUME TypeOK, NEW c \in Copy, EntriesOK(c)
  PROVE  Entries(c) \subseteq Entry /\ \A e \in Entries(c) : e.addr = e.name
<1>1. Sum(c) \in TABLES /\ Chunks(c) = Sum(c)  BY CopyType DEF EntriesOK, Chunks, Sum
<1>2. \A e \in Entries(c) : RowIn(Sum(c), e.name, e)  BY <1>1 DEF Entries, RowIn, Chunks
<1> QED  BY <1>1, <1>2, Rows

LEMMA PartInitStep == IInv /\ PartInit => IInv'
<1> SUFFICES ASSUME IInv, PartInit PROVE IInv'
    OBVIOUS
<1> DEFINE c == look.copy
<1>1. /\ pc = "part_init" /\ UNCHANGED <<build, disk, caller, buf, ans, meta, suffix, ext, half>>
      /\ AccessOK \/ AccessFails
      /\ \/ /\ Sound(c) /\ table' = Entries(c) /\ pc' = "ext_etc" /\ UNCHANGED look
         \/ /\ AccessOK => ~Sound(c)
            /\ \/ /\ c = "primary" /\ pc' = "part_init" /\ UNCHANGED table
                  /\ look' = [look EXCEPT !.copy = "backup"]
               \/ c # "primary" /\ table' = {} /\ pc' = "ext_etc" /\ UNCHANGED look
  <2>1. /\ pc = "part_init" /\ UNCHANGED <<build, disk, caller, buf, ans, meta, suffix, ext, half>>
    BY DEF PartInit, At
  <2>2. AccessFails => ~AccessOK
    <3>1. fails \in Nat
      <4>1. AccessOK \/ AccessFails  BY DEF PartInit
      <4> QED  BY <4>1, AccessIs DEF IInv
    <3>2. AccessFails => fails' # fails  BY <3>1 DEF AccessFails
    <3>3. AccessOK => fails' = fails  BY DEF AccessOK, history
    <3> QED  BY <3>2, <3>3
  <2> QED  BY <2>1, <2>2, Zenon DEF PartInit, CopyAt, Sound
<1>2. /\ TypeOK /\ look \in Looks /\ half.etc = NONE /\ UNCHANGED gpt /\ c \in {"primary", "backup"}
      /\ table = NONE \/ table \subseteq Entry
  BY <1>1, LookIs DEF IInv, TypeOK, HalfFirst, disk, Copy
<1>3. HistoryType' /\ (Clean' => Clean /\ AccessOK)  BY <1>1, <1>2, AccessIs
<1>4. look' \in Looks  BY <1>1, <1>2 DEF Looks, Copy
<1>5. c \in Copy  BY <1>2 DEF Copy
<1>6. Sound(c) => Entries(c) \subseteq Entry /\ \A e \in Entries(c) : e.addr = e.name
  BY <1>2, <1>5, TableIs DEF Sound
<1>7. TypeOK'
  <2>1. table' = NONE \/ table' \subseteq Entry  BY <1>1, <1>2, <1>6
  <2> QED  BY <1>1, <1>2, <1>3, <1>4, <2>1 DEF TypeOK, HistoryType, disk
<1>8. HalvesAgree' /\ HalfFirst'  BY <1>1, <1>2 DEF HalvesAgree, HalfFirst
<1>9. TableRows'  BY <1>1, <1>6 DEF TableRows
<1>10. ASSUME Clean' PROVE RightExt' /\ RightHalf'
  <2>1. RightExt /\ RightHalf  BY <1>3, <1>10 DEF IInv, Rightly
  <2>2. RightInfo("ext1")' /\ RightInfo("ext2")'
    BY <1>1, <1>2, <2>1, DiskSame DEF RightExt, RightInfo
  <2>3. RightExt'  BY <2>2 DEF RightExt
  <2>4. Readable /\ half.dram = ext[Picked].addr /\ (c = "backup" => ~Sound("primary"))
    BY <1>1, <2>1 DEF RightHalf
  <2>5. Readable' /\ half'.dram = ext'[Picked'].addr
    BY <1>1, <1>2, <2>4, DiskSame DEF Picked
  <2>6. CASE Sound(c) /\ table' = Entries(c) /\ pc' = "ext_etc" /\ UNCHANGED look
    <3>1. Source = c  BY <1>2, <2>4, <2>6, Zenon DEF Source
    <3>2. Source' = c /\ gpt' = gpt  BY <1>2, <3>1, DiskSame
    <3>4. Entries(Source)' = Entries(c)  BY <3>2 DEF Entries
    <3>3. RightHalf'  BY <2>5, <2>6, <3>4 DEF RightHalf
    <3> QED  BY <2>3, <3>3
  <2>7. CASE /\ AccessOK => ~Sound(c)
             /\ c = "primary" /\ pc' = "part_init" /\ look' = [look EXCEPT !.copy = "backup"]
    <3>1. ~Sound("primary")'  BY <1>2, <1>3, <1>10, <2>7, DiskSame
    <3>2. RightHalf'  BY <2>5, <2>7, <3>1 DEF RightHalf
    <3> QED  BY <2>3, <3>2
  <2>8. CASE (AccessOK => ~Sound(c)) /\ c # "primary"
    <3>1. ~Sound("primary") /\ ~Sound("backup")  BY <1>2, <1>3, <1>10, <2>4, <2>8
    <3> QED  BY <2>4, <3>1 DEF Readable
  <2> QED  BY <1>1, <2>6, <2>7, <2>8
<1>11. pc' \notin Waiting /\ pc' # "halt"  BY <1>1 DEF Waiting, Looking
<1> QED  BY <1>7, <1>8, <1>9, <1>10, <1>11, RestStep

LEMMA EtcStep == IInv /\ LoadEtcHalf => IInv'
<1> SUFFICES ASSUME IInv, LoadEtcHalf PROVE IInv'
    OBVIOUS
<1> DEFINE n == Chosen(Active("ext1"), Active("ext2"))
           found == {e \in table : e.name = n}
           etc == (CHOOSE e \in found : TRUE).addr
           Listed == \E e \in table : e.name = "ext1"
<1>1. /\ pc = "ext_etc" /\ UNCHANGED <<build, disk, caller, lookup, meta, suffix, ext, table>>
      /\ AccessOK \/ AccessFails
      /\ \/ /\ AccessOK /\ Listed /\ half' = [half EXCEPT !.etc = etc] /\ pc' = "done"
         \/ AccessOK /\ ~Listed /\ pc' = "halt" /\ UNCHANGED half
         \/ AccessFails /\ pc' = "halt" /\ UNCHANGED half
  BY DEF LoadEtcHalf, At
<1>2. /\ TypeOK /\ half.etc = NONE /\ UNCHANGED gpt
      /\ half \in [{"dram", "etc"} -> Ext \cup {NONE}]
      /\ table \subseteq Entry /\ \A e \in table : e.addr = e.name
  BY <1>1 DEF IInv, TypeOK, HalfFirst, disk, TableRows
<1>3. HistoryType' /\ (Clean' => Clean /\ AccessOK)  BY <1>1, <1>2, AccessIs
<1>4. n \in Ext /\ (Listed => \E e \in found : TRUE)
  <2>1. n \in Ext  BY DEF Chosen, Ext
  <2>2. n = "ext2" => Active("ext2")  BY DEF Chosen
  <2>3. ASSUME Listed PROVE \E e \in table : e.name = n
    <3>1. CASE n = "ext1"  BY <2>3, <3>1
    <3>2. CASE n = "ext2"  BY <2>2, <3>2 DEF Active
    <3> QED  BY <2>1, <3>1, <3>2 DEF Ext
  <2> QED  BY <2>1, <2>3
<1>5. ASSUME Listed PROVE etc = n /\ etc \in Ext
  <2>1. (CHOOSE e \in found : TRUE) \in found  BY <1>4, <1>5
  <2> HIDE DEF n
  <2> QED  BY <1>2, <1>4, <2>1
<1> HIDE DEF n, found, etc, Listed
<1>6. half' \in [{"dram", "etc"} -> Ext \cup {NONE}]  BY <1>1, <1>2, <1>5
<1>7. TypeOK'  BY <1>1, <1>2, <1>3, <1>6 DEF TypeOK, HistoryType, disk, lookup
<1>8. Clean => Listed /\ half.dram = n
  <2> SUFFICES ASSUME Clean PROVE Listed /\ half.dram = n
      OBVIOUS
  <2>1. /\ Readable /\ half.dram = ext[Picked].addr /\ table = Entries(Source)
        /\ RightInfo("ext1") /\ RightInfo("ext2")
    BY <1>1 DEF IInv, Rightly, RightExt, RightHalf
  <2>2. \A x \in Ext : /\ ext[x].addr = x
                       /\ \A e \in table : e.name = x => (e.active <=> ext[x].active)
                       /\ \E e \in table : e.name = x
    BY <1>2, <2>1, ExtIs DEF Ext
  <2>3. "ext1" \in Ext /\ "ext2" \in Ext  BY DEF Ext
  <2>4. \A x \in Ext : Active(x) <=> ext[x].active  BY <2>2, Zenon DEF Active
  <2>5. n = Picked  BY <2>3, <2>4, Zenon DEF n, Picked, Chosen
  <2>6. half.dram = n  BY <1>4, <2>1, <2>2, <2>5
  <2> QED  BY <2>2, <2>3, <2>6 DEF Listed
<1>9. HalvesAgree'
  <2>1. CASE AccessOK /\ Listed /\ half' = [half EXCEPT !.etc = etc] /\ pc' = "done"
    <3>1. half'.etc = n /\ half'.dram = half.dram  BY <1>2, <1>5, <2>1
    <3> QED  BY <1>3, <1>8, <3>1, Zenon DEF HalvesAgree, Clean
  <2>2. CASE UNCHANGED half  BY <1>2, <2>2 DEF HalvesAgree
  <2> QED  BY <1>1, <2>1, <2>2
<1>10. HalfFirst' /\ TableRows'  BY <1>1, <1>2 DEF HalfFirst, TableRows
<1>11. Clean' => pc' # "halt"
  <2>1. AccessFails => ~Clean'  BY Zenon DEF AccessFails, Clean
  <2> QED  BY <1>1, <1>3, <1>8, <2>1
<1>12. RightExt' /\ RightHalf' /\ pc' \notin Waiting
  BY <1>1 DEF RightExt, RightHalf, Waiting, Looking
<1> QED  BY <1>7, <1>9, <1>10, <1>11, <1>12, RestStep

-----------------------------------------------------------------------------
(* The induction.                                                          *)

LEMMA RestartStep == IInv /\ Restart => IInv'
<1> SUFFICES ASSUME IInv, Restart PROVE IInv'
    OBVIOUS
<1>1. /\ pc' = "get_suffix" /\ look' = Start /\ buf' \in {buf, Garbage} /\ ans' = NoAnswer
      /\ meta' = NONE /\ suffix' = NONE /\ ext' = NoInfo /\ table' = NONE /\ half' = NoHalves
      /\ failed' = FALSE /\ UNCHANGED <<build, gpt, para, fails>>
  BY DEF Restart, disk
<1>2. TypeOK  BY DEF IInv
<1>3. look' \in Looks /\ ans' \in [ret : {0, 1}, entry : Entry]
  BY <1>1, BlankIs DEF Start, Looks, NoAnswer, Copy, Name
<1>4. ext' \in [Ext -> [addr : Place, active : BOOLEAN]]
  BY <1>1 DEF NoInfo, Place
<1>5. half' \in [{"dram", "etc"} -> Ext \cup {NONE}] /\ half'.dram = NONE /\ half'.etc = NONE
  BY <1>1 DEF NoHalves
<1>6. buf' \in Chunk
  <2>1. buf \in Chunk /\ Garbage \in Chunk  BY <1>2 DEF TypeOK, Garbage, Chunk
  <2> QED  BY <1>1, <2>1
<1>7. failed' \in BOOLEAN  BY <1>1
<1>8. TypeOK'  BY <1>1, <1>2, <1>3, <1>4, <1>5, <1>6, <1>7 DEF TypeOK
<1>9. HalvesAgree' /\ HalfFirst' /\ TableRows'
  BY <1>1, <1>5 DEF HalvesAgree, HalfFirst, TableRows
<1>10. RightExt' /\ RightHalf' /\ pc' \notin Waiting /\ pc' # "halt"
  BY <1>1 DEF RightExt, RightHalf, Waiting, Looking
<1> QED  BY <1>8, <1>9, <1>10, RestStep

LEMMA DamagedIs ==
  ASSUME NEW t \in TABLES, NEW d \in Damaged(t)
  PROVE  d \in GptCopy /\ Len(d.chunks) = Len(d.sum)
<1>1. t \in Seq(Chunk)  BY TablesAssumption DEF TablesAssumption
<1>2. CASE d \in {[header |-> h, sum |-> t, chunks |-> t] : h \in {"good", "bad"}}
  BY <1>1, <1>2 DEF GptCopy
<1>3. ASSUME NEW k \in DOMAIN t,
             d = [header |-> "good", sum |-> t, chunks |-> [t EXCEPT ![k] = Junk]]
      PROVE  d \in GptCopy /\ Len(d.chunks) = Len(d.sum)
  <2>1. Junk \in Chunk
    <3>1. \A n \in Name : [name |-> n, addr |-> "elsewhere", active |-> TRUE] \in Entry
      BY DEF Entry, Place
    <3> QED  BY <3>1 DEF Junk, Chunk
  <2>2. [t EXCEPT ![k] = Junk] \in Seq(Chunk) /\ Len([t EXCEPT ![k] = Junk]) = Len(t)
    BY <1>1, <2>1, ExceptSeq
  <2> QED  BY <1>1, <1>3, <2>2 DEF GptCopy
<1> QED  BY <1>2, <1>3 DEF Damaged

LEMMA InitInv == Init => IInv
<1> SUFFICES ASSUME Init PROVE IInv
    OBVIOUS
<1>1. /\ pc = "get_suffix" /\ look = Start /\ buf = Garbage /\ ans = NoAnswer
      /\ meta = NONE /\ suffix = NONE /\ ext = NoInfo /\ table = NONE /\ half = NoHalves
      /\ failed = FALSE /\ fails = 0 /\ build \in BUILDS /\ para \in Suffix \cup {NONE}
  BY DEF Init
<1>2. look \in Looks /\ ans \in [ret : {0, 1}, entry : Entry] /\ buf \in Chunk
  BY <1>1, BlankIs DEF Start, Looks, NoAnswer, Copy, Name, Garbage, Chunk
<1>3. ext \in [Ext -> [addr : Place, active : BOOLEAN]]  BY <1>1 DEF NoInfo, Place
<1>4. half \in [{"dram", "etc"} -> Ext \cup {NONE}] /\ half.dram = NONE /\ half.etc = NONE
  BY <1>1 DEF NoHalves
<1>5. gpt \in [Copy -> GptCopy] /\ \A c \in Copy : Len(gpt[c].chunks) = Len(gpt[c].sum)
  <2>1. gpt \in [Copy -> UNION {Damaged(t) : t \in TABLES}]  BY DEF Init
  <2>2. ASSUME NEW c \in Copy PROVE gpt[c] \in GptCopy /\ Len(gpt[c].chunks) = Len(gpt[c].sum)
    <3>1. PICK t \in TABLES : gpt[c] \in Damaged(t)  BY <2>1
    <3> QED  BY <3>1, DamagedIs
  <2> QED  BY <2>1, <2>2
<1>6. failed \in BOOLEAN /\ fails \in 0..MaxFails
  <2>1. fails \in 0..MaxFails  BY <1>1, ConstantsAssumption DEF ConstantsAssumption
  <2> QED  BY <1>1, <2>1, Zenon
<1>7. TypeOK  BY <1>1, <1>2, <1>3, <1>4, <1>5, <1>6 DEF TypeOK
<1>8. Asked /\ Scanned /\ AnswersAreVouchedFor
  BY <1>1 DEF Asked, Scanned, AnswersAreVouchedFor, At, Waiting, Looking
<1>9. RightCopy /\ RightScan /\ RightAnswer /\ RightMetadata /\ RightExt /\ RightHalf
  BY <1>1 DEF RightCopy, RightScan, RightAnswer, RightMetadata, RightExt, RightHalf,
              Waiting, Looking
<1>10. ReadableBoots /\ HalvesAgree /\ HalfFirst /\ TableRows
  BY <1>1, <1>4 DEF ReadableBoots, At, HalvesAgree, HalfFirst, TableRows
<1> QED  BY <1>7, <1>8, <1>9, <1>10 DEF IInv, Rightly

LEMMA StutterStep == IInv /\ UNCHANGED vars => IInv'
<1> SUFFICES ASSUME IInv, UNCHANGED vars PROVE IInv'
    OBVIOUS
<1>1. UNCHANGED <<build, disk, gpt, para, pc, caller, lookup, booted, history>>
  BY DEF vars, disk
<1>2. UNCHANGED <<look, buf, ans, meta, suffix, ext, table, half, failed, fails>>
  BY <1>1 DEF lookup, booted, history
<1>3. TypeOK'  BY <1>1, <1>2, Zenon DEF IInv, TypeOK
<1>4. Asked' /\ HalfFirst' /\ TableRows'
  BY <1>1, <1>2 DEF IInv, Asked, HalfFirst, TableRows
<1>5. Scanned'  BY <1>1, <1>2 DEF IInv, Scanned, HeaderOK, Chunks, Sum, RowIn
<1>6. AnswersAreVouchedFor'
  BY <1>1, <1>2 DEF IInv, AnswersAreVouchedFor, At, HeaderOK
<1>7. HalvesAgree' /\ ReadableBoots'
  BY <1>1, <1>2, Zenon DEF IInv, HalvesAgree, ReadableBoots, At, Readable, Sound, HeaderOK, EntriesOK
<1>8. ASSUME Rightly, Clean' PROVE RightCopy' /\ RightScan' /\ RightAnswer' /\ RightMetadata'
                                  /\ RightExt' /\ RightHalf'
  <2>1. Clean  BY <1>2, <1>8, Zenon DEF Clean
  <2>2. RightCopy /\ RightScan /\ RightAnswer /\ RightMetadata /\ RightExt /\ RightHalf
    BY <1>8, <2>1 DEF Rightly
  <2>3. RightCopy'
    BY <1>1, <1>2, <2>2 DEF RightCopy, Looking, Sound, HeaderOK, EntriesOK
  <2>4. RightScan'  BY <1>1, <1>2, <2>2 DEF RightScan, Chunks, Sum
  <2>5. RightAnswer' /\ RightMetadata'
    BY <1>1, <1>2, <2>2, DiskSame DEF RightAnswer, RightMetadata, IsRow, RowIn, Sum, Source
  <2>6. RightExt'  BY <1>1, <1>2, <2>2, DiskSame DEF RightExt, RightInfo
  <2>7. RightHalf'
    <3>1. Source' = Source /\ (Sound("primary")' <=> Sound("primary")) /\ (Readable' <=> Readable)
      BY <1>1, DiskSame
    <3>2. Entries(Source)' = Entries(Source)  BY <1>1, <3>1 DEF Entries
    <3> QED  BY <1>1, <1>2, <2>2, <3>1, <3>2 DEF RightHalf, Picked
  <2> QED  BY <2>3, <2>4, <2>5, <2>6, <2>7
<1> QED  BY <1>3, <1>4, <1>5, <1>6, <1>7, <1>8 DEF IInv, Rightly

LEMMA Inductive == IInv /\ [Next]_vars => IInv'
BY HeaderStep, ChunkStep, SumStep, BootControlStep, InfoSteps, DramStep, PartInitStep,
   EtcStep, RestartStep, StutterStep
   DEF Next, Lookup, Extension

LEMMA Invariance == Spec => []IInv
BY InitInv, Inductive, PTL DEF Spec

\* What a step writes to a readable device in a boot without a failed access.
WriteIsSafe ==
  Readable /\ ~failed =>
    /\ gpt' = gpt
    /\ para' # para => para = NONE

LEMMA SafeStep == IInv /\ [Next]_vars => WriteIsSafe
<1> SUFFICES ASSUME IInv, [Next]_vars, Readable, Clean
             PROVE  gpt' = gpt /\ (para' # para => para = NONE)
    BY Zenon DEF WriteIsSafe, Clean
<1>1. CASE ActiveWrite
  <2>1. /\ Answered("active_write") /\ WriteMetadata(ans.entry.addr, "a")
    BY <1>1 DEF ActiveWrite
  <2>2. ans.entry.addr = "para"  BY <2>1, MetadataIs DEF Ext
  <2>3. para = NONE
    <3>1. RightMetadata  BY DEF IInv, Rightly
    <3> QED  BY <2>1, <3>1 DEF RightMetadata, Answered, At, Waiting
  <2> QED  BY <2>1, <2>2, <2>3 DEF WriteMetadata, disk
<1>2. CASE UpdateWrite
  <2>1. /\ Answered("update_write") /\ WriteMetadata(ans.entry.addr, meta)
    BY <1>2 DEF UpdateWrite
  <2>2. ans.entry.addr = "para"  BY <2>1, MetadataIs DEF Ext
  <2>3. meta = para
    <3>1. RightMetadata  BY DEF IInv, Rightly
    <3> QED  BY <2>1, <3>1 DEF RightMetadata, Answered, At, Waiting
  <2> QED  BY <2>1, <2>2, <2>3 DEF WriteMetadata, disk
<1>3. CASE ~(ActiveWrite \/ UpdateWrite)
  <2>1. UNCHANGED disk
    <3>1. CASE Lookup  BY <3>1 DEF Lookup, ReadHeader, ReadChunk, CheckSum
    <3>2. CASE BootControl
      BY <1>3, <3>2 DEF BootControl, GetSuffix, SuffixRead, ActiveRead, Update, UpdateRead
    <3>3. CASE Extension
      BY <3>3 DEF Extension, LoadExtDram, Ext1Info, Ext2Info, LoadDramHalf, PartInit, LoadEtcHalf
    <3>4. CASE Restart  BY <3>4 DEF Restart
    <3>5. CASE UNCHANGED vars  BY <3>5 DEF vars
    <3> QED  BY <3>1, <3>2, <3>3, <3>4, <3>5 DEF Next
  <2> QED  BY <2>1 DEF disk
<1> QED  BY <1>1, <1>2, <1>3

-----------------------------------------------------------------------------

\* The type of every variable: what a lookup finds is an entry, and the copies
\* keep their chunks.
THEOREM TypeCorrect == Spec => []TypeOK
<1>1. IInv => TypeOK  BY DEF IInv
<1> QED  BY <1>1, Invariance, PTL

\* Whatever reads fail, and whatever a chunk that was not read has left in the
\* buffer, mt_get_part_info_by_name gives no place that a good header and a sum
\* do not vouch for.
THEOREM AnswersVouchedFor == Spec => []AnswersAreVouchedFor
<1>1. IInv => AnswersAreVouchedFor  BY DEF IInv
<1> QED  BY <1>1, Invariance, PTL

\* The early lookups and the table choose the same partition of the extension,
\* when no access has failed: mt_get_part_info_by_name and read_gpt go by the
\* same copy.
THEOREM HalvesAgreed == Spec => []HalvesAgree
<1>1. IInv => HalvesAgree  BY DEF IInv
<1> QED  BY <1>1, Invariance, PTL

\* Only a failed access or an unreadable device ends in an ASSERT or an abort.
THEOREM ReadableBooted == Spec => []ReadableBoots
<1>1. IInv => ReadableBoots  BY DEF IInv
<1> QED  BY <1>1, Invariance, PTL

\* Boot control writes neither over the table nor over a choice of slot
\* (read_write_partition_info writes to the place that the lookup gave).
THEOREM SafeWrites == Spec => WritesAreSafe
<1>1. IInv /\ [Next]_vars => [WriteIsSafe]_vars  BY SafeStep
<1> QED  BY <1>1, Invariance, PTL DEF Spec, WritesAreSafe, WriteIsSafe
=============================================================================
