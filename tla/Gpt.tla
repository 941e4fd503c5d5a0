---------------------------------- MODULE Gpt ----------------------------------
(***************************************************************************)
(* How the mt6739 preloader finds its partitions, and what it does with    *)
(* the answers.  The device holds two copies of the partition table, each  *)
(* with a checksummed header and checksummed entries.  Before DRAM works,  *)
(* mt_get_part_info_by_name (inc/drivers/efi.c) looks a single name up     *)
(* through a buffer of one chunk; with DRAM, part_init (core/partition.c)  *)
(* keeps the whole table.                                                  *)
(*                                                                         *)
(* Two users of both ways are composed with them, one per build:           *)
(*  "ab"    the boot control calls (common/bootctrl/bootctrl_api.c), which *)
(*          look "para" up before every access;                            *)
(*  "bits"  the two halves of the preloader's extension (core/main.c), of  *)
(*          which one is loaded by the early answers and the other, once   *)
(*          DRAM works, by the table, from the partition marked active.    *)
(*                                                                         *)
(* One action is one read of the device, which may fail, or one decision.  *)
(* A checksum is right exactly if everything it covers is.  Partitions     *)
(* stand for their places; "zero" is the start of the device.              *)
(***************************************************************************)
EXTENDS Naturals, Sequences

CONSTANTS TABLES,      \* sound tables: sequences of chunks, a chunk a set of entries
          BUILDS,      \* subset of {"ab", "bits"}
          MaxFails,    \* bound: reads and writes of the device that fail
          NONE

ASSUME ConstantsAssumption == BUILDS \subseteq {"ab", "bits"} /\ MaxFails \in Nat

Copy == {"primary", "backup"}
Suffix == {"a", "b"}
Ext == {"ext1", "ext2"}
Name == {"para"} \cup Ext
Place == Name \cup {"zero", "elsewhere"}
Entry == [name : Name, addr : Place, active : BOOLEAN]
\* mark: "gpt", or the slot that metadata written over the chunk name.
Chunk == [entries : SUBSET Entry, mark : {"gpt", NONE} \cup Suffix]

\* A sound table has each name once, for the place of that partition.
ASSUME TablesAssumption ==
  \A t \in TABLES :
    /\ t \in Seq(Chunk) /\ t # <<>>
    /\ \A n \in Name : \E k \in DOMAIN t : \E e \in t[k].entries : e.name = n
    /\ \A j, k \in DOMAIN t : \A d \in t[j].entries : \A e \in t[k].entries :
         d.name = e.name => d = e
    /\ \A k \in DOMAIN t : \A e \in t[k].entries : e.addr = e.name

VARIABLES
  build,
  \* durable
  gpt,       \* [Copy -> [header, sum, chunks]]: the copies, sum what they should hold
  para,      \* slot the metadata in "para" name, NONE without the magic number
  \* volatile
  pc,
  caller,    \* what the lookup under way is for
  look,      \* the lookup: name, copy, chunk, found, info, summed
  buf,       \* gpt_sram_buf
  ans,       \* its answer
  meta,      \* metadata as read
  suffix,    \* ab_suffix
  ext,       \* loader_ext1_info, loader_ext2_info
  table,     \* partition_info, NONE before part_init
  half,      \* partitions the two halves of the extension came from
  \* history
  failed,    \* an access failed in this boot
  fails

disk == <<gpt, para>>
lookup == <<look, buf, ans>>
booted == <<meta, suffix, ext, table, half>>
history == <<failed, fails>>
vars == <<build, disk, pc, caller, lookup, booted, history>>

Junk == [entries |-> {[name |-> n, addr |-> "elsewhere", active |-> TRUE] : n \in Name},
         mark |-> "gpt"]
Garbage == [entries |-> {}, mark |-> "gpt"]
Blank == [name |-> "para", addr |-> "zero", active |-> FALSE]

Start == [name |-> "para", copy |-> "primary", chunk |-> 1, found |-> Blank,
          info |-> TRUE, summed |-> TRUE]
NoAnswer == [ret |-> 0, entry |-> Blank]
NoInfo == [n \in Ext |-> [addr |-> "elsewhere", active |-> FALSE]]
NoHalves == [dram |-> NONE, etc |-> NONE]

At(label) == pc = label
AccessOK == UNCHANGED history
AccessFails == fails < MaxFails /\ fails' = fails + 1 /\ failed' = TRUE

HeaderOK(c) == gpt[c].header = "good"
EntriesOK(c) == gpt[c].chunks = gpt[c].sum

-----------------------------------------------------------------------------
(* mt_get_part_info_by_name: one name, in the primary, then in the backup. *)

\* A lookup of n for the step that is to go on with the answer.
LookUp(n, for) ==
  /\ pc' = "header" /\ caller' = for
  /\ look' = [Start EXCEPT !.name = n]
  /\ UNCHANGED <<buf, ans>>

\* The copy is of no use: get_part_ptr_by_gpt has returned 1.
CopyFails ==
  IF look.copy = "primary"
  THEN /\ pc' = "header" /\ look' = [look EXCEPT !.copy = "backup"]
       /\ UNCHANGED ans
  ELSE /\ pc' = "answer" /\ ans' = [ret |-> 1, entry |-> Blank]
       /\ UNCHANGED look

ReadHeader ==
  /\ At("header")
  /\ \/ /\ AccessOK /\ HeaderOK(look.copy)
        /\ pc' = "chunk"
        /\ look' = [look EXCEPT !.chunk = 1, !.found = Blank, !.summed = TRUE]
        /\ UNCHANGED ans
     \/ AccessOK /\ ~HeaderOK(look.copy) /\ CopyFails
     \/ AccessFails /\ CopyFails
  /\ UNCHANGED <<build, disk, caller, buf, booted>>

\* The entry of the chunk that the scan stops at; none once one was found.
Matches(chunk) ==
  {e \in chunk.entries : e.name = look.name /\ look.found = Blank}

\* The result of the read is not looked at: a failing one leaves the buffer as
\* it was or with part of the chunk.  The scan copies every name it passes to
\* part_ptr->info, which is NULL once the entries of the other copy were bad:
\* that write to address 0 aborts, or is lost so that no name is equal.
ReadChunk ==
  /\ At("chunk")
  /\ \/ AccessOK /\ buf' = gpt[look.copy].chunks[look.chunk]
     \/ AccessFails /\ buf' \in {buf, Garbage}
  /\ LET m == IF look.info THEN Matches(buf') ELSE {}
     IN /\ look' = [look EXCEPT
               !.chunk = @ + 1,
               !.summed = @ /\ buf' = gpt[look.copy].sum[look.chunk],
               !.found = IF m = {} THEN @ ELSE CHOOSE e \in m : TRUE]
        /\ \/ pc' = IF look.chunk < Len(gpt[look.copy].chunks) THEN "chunk" ELSE "sum"
           \/ ~look.info /\ buf'.entries # {} /\ pc' = "halt"
  /\ UNCHANGED <<build, disk, caller, ans, booted>>

\* Mutant: what was found is returned without the sum.
CheckSumNot ==
  /\ At("sum")
  /\ pc' = "answer"
  /\ ans' = [ret |-> 0, entry |-> look.found]
  /\ UNCHANGED <<look, build, disk, caller, buf, booted, history>>

\* A wrong sum clears all of part_ptr, the pointer info included; so does a
\* name that was not found, which is no error.
CheckSum ==
  /\ At("sum")
  /\ IF look.summed
     THEN /\ pc' = "answer" /\ ans' = [ret |-> 0, entry |-> look.found]
          /\ UNCHANGED look
     ELSE IF look.copy = "primary"
     THEN /\ pc' = "header"
          /\ look' = [look EXCEPT !.copy = "backup", !.info = FALSE]
          /\ UNCHANGED ans
     ELSE /\ pc' = "answer" /\ ans' = [ret |-> 1, entry |-> Blank]
          /\ UNCHANGED look
  /\ UNCHANGED <<build, disk, caller, buf, booted, history>>

Lookup == ReadHeader \/ ReadChunk \/ CheckSum

-----------------------------------------------------------------------------
(* Boot control, before DRAM: read_write_partition_info and its callers.   *)

\* get_part_addr is 0 if the name was not found or the lookup failed, and the
\* access goes on, from the start of the device.
Metadata(place) == IF place = "para" THEN para
                   ELSE IF place = "zero"
                   THEN LET mark == gpt["primary"].chunks[1].mark
                        IN IF mark = "gpt" THEN NONE ELSE mark
                   ELSE NONE

WriteMetadata(place, s) ==
  \/ /\ AccessOK /\ place = "para" /\ para' = s /\ UNCHANGED gpt
  \/ /\ AccessOK /\ place = "zero" /\ UNCHANGED para
     /\ gpt' = [gpt EXCEPT !["primary"].chunks[1].mark = s]
  \/ AccessFails /\ UNCHANGED disk

Answered(for) == At("answer") /\ caller = for

GetSuffix ==
  /\ At("get_suffix") /\ build = "ab"
  /\ LookUp("para", "suffix_read")
  /\ UNCHANGED <<build, disk, booted, history>>

\* Mutant: the magic number read as its opposite.
SuffixReadInverted ==
  /\ Answered("suffix_read")
  /\ AccessOK
  /\ suffix' = IF Metadata(ans.entry.addr) = NONE THEN "a" ELSE Metadata(ans.entry.addr)
  /\ IF Metadata(ans.entry.addr) # NONE
     THEN LookUp("para", "active_read")
     ELSE pc' = "booted" /\ UNCHANGED <<caller, lookup>>
  /\ UNCHANGED <<build, disk, meta, ext, table, half>>

\* Without the magic number the default is slot a, and set_active_slot makes
\* it so.
SuffixRead ==
  /\ Answered("suffix_read")
  /\ \/ AccessFails /\ suffix' = NONE /\ pc' = "booted" /\ UNCHANGED <<caller, lookup>>
     \/ /\ AccessOK /\ Metadata(ans.entry.addr) # NONE
        /\ suffix' = Metadata(ans.entry.addr)
        /\ pc' = "booted" /\ UNCHANGED <<caller, lookup>>
     \/ /\ AccessOK /\ Metadata(ans.entry.addr) = NONE
        /\ suffix' = "a"
        /\ LookUp("para", "active_read")
  /\ UNCHANGED <<build, disk, meta, ext, table, half>>

ActiveRead ==
  /\ Answered("active_read")
  /\ \/ AccessFails /\ pc' = "booted" /\ UNCHANGED <<caller, lookup>>
     \/ AccessOK /\ LookUp("para", "active_write")
  /\ UNCHANGED <<build, disk, booted>>

ActiveWrite ==
  /\ Answered("active_write")
  /\ WriteMetadata(ans.entry.addr, "a")
  /\ pc' = "booted"
  /\ UNCHANGED <<build, caller, lookup, booted>>

\* A call that changes a field of the metadata: reduce_retry_count and the
\* like, which look the place up for the read and again for the write, and do
\* not look at the magic number.
Update ==
  /\ At("booted") /\ build = "ab" /\ suffix # NONE
  /\ LookUp("para", "update_read")
  /\ UNCHANGED <<build, disk, booted, history>>

UpdateRead ==
  /\ Answered("update_read")
  /\ \/ AccessFails /\ pc' = "done" /\ UNCHANGED <<caller, lookup, meta>>
     \/ AccessOK /\ meta' = Metadata(ans.entry.addr) /\ LookUp("para", "update_write")
  /\ UNCHANGED <<build, disk, suffix, ext, table, half>>

UpdateWrite ==
  /\ Answered("update_write")
  /\ WriteMetadata(ans.entry.addr, meta)
  /\ pc' = "done"
  /\ UNCHANGED <<build, caller, lookup, booted>>

-----------------------------------------------------------------------------
(* The extension: bldr_load_loader_ext_dram with the early answers, then   *)
(* part_init and bldr_load_loader_ext_etc with the table.                  *)

LoadExtDram ==
  /\ At("get_suffix") /\ build = "bits"
  /\ LookUp("ext1", "ext1")
  /\ UNCHANGED <<build, disk, booted, history>>

\* A failing lookup is reported only; the answer then is what the stack held.
Info == IF ans.ret = 0 THEN {[addr |-> ans.entry.addr, active |-> ans.entry.active]}
        ELSE {[addr |-> "elsewhere", active |-> b] : b \in BOOLEAN}

Ext1Info ==
  /\ Answered("ext1")
  /\ \E i \in Info : ext' = [ext EXCEPT !["ext1"] = i]
  /\ LookUp("ext2", "ext2")
  /\ UNCHANGED <<build, disk, meta, suffix, table, half, history>>

Ext2Info ==
  /\ Answered("ext2")
  /\ \E i \in Info : ext' = [ext EXCEPT !["ext2"] = i]
  /\ pc' = "ext_dram"
  /\ UNCHANGED <<build, disk, caller, lookup, meta, suffix, table, half, history>>

Chosen(active1, active2) == IF ~active1 /\ active2 THEN "ext2" ELSE "ext1"

\* Only a partition of the extension begins with an image header.
HasImage(place) == place \in Ext

\* A header that cannot be read or has no magic number is an ASSERT.
LoadDramHalf ==
  /\ At("ext_dram")
  /\ LET at == ext[Chosen(ext["ext1"].active, ext["ext2"].active)].addr
     IN \/ /\ AccessOK /\ HasImage(at)
           /\ half' = [half EXCEPT !.dram = at] /\ pc' = "part_init"
        \/ AccessOK /\ ~HasImage(at) /\ pc' = "halt" /\ UNCHANGED half
        \/ AccessFails /\ pc' = "halt" /\ UNCHANGED half
  /\ look' = [look EXCEPT !.copy = "primary"]
  /\ UNCHANGED <<build, disk, caller, buf, ans, meta, suffix, ext, table>>

\* Mutants: the backup first; the primary twice.
CopyAtBackup(try) == IF try = "primary" THEN "backup" ELSE "primary"
CopyAtPrimary(try) == "primary"
\* The copy that read_gpt parses at its first and at its second try.
CopyAt(try) == try

Entries(c) == UNION {gpt[c].chunks[k].entries : k \in DOMAIN gpt[c].chunks}

\* Every read is looked at, and names are taken after the sum.
PartInit ==
  /\ At("part_init")
  /\ LET c == CopyAt(look.copy)
     IN \/ /\ AccessOK /\ HeaderOK(c) /\ EntriesOK(c)
           /\ table' = Entries(c) /\ pc' = "ext_etc"
           /\ UNCHANGED look
        \/ /\ (AccessOK /\ ~(HeaderOK(c) /\ EntriesOK(c))) \/ AccessFails
           /\ IF look.copy = "primary"
              THEN look' = [look EXCEPT !.copy = "backup"] /\ UNCHANGED <<pc, table>>
              ELSE table' = {} /\ pc' = "ext_etc" /\ UNCHANGED look
  /\ UNCHANGED <<build, disk, caller, buf, ans, meta, suffix, ext, half>>

Active(n) == \E e \in table : e.name = n /\ e.active

\* part_get finds no loader_ext1, or the image cannot be read: ASSERT.
LoadEtcHalf ==
  /\ At("ext_etc")
  /\ LET n == Chosen(Active("ext1"), Active("ext2"))
         found == {e \in table : e.name = n}
     IN \/ /\ AccessOK /\ \E e \in table : e.name = "ext1"
           /\ half' = [half EXCEPT !.etc = (CHOOSE e \in found : TRUE).addr]
           /\ pc' = "done"
        \/ /\ ~(\E e \in table : e.name = "ext1") /\ AccessOK
           /\ pc' = "halt" /\ UNCHANGED half
        \/ AccessFails /\ pc' = "halt" /\ UNCHANGED half
  /\ UNCHANGED <<build, disk, caller, lookup, meta, suffix, ext, table>>

-----------------------------------------------------------------------------

\* A copy is sound, or its header or one of its chunks is damaged; the copies
\* may differ, if an update of the active bits reached only one.
Damaged(t) ==
  {[header |-> h, sum |-> t, chunks |-> t] : h \in {"good", "bad"}}
  \cup {[header |-> "good", sum |-> t, chunks |-> [t EXCEPT ![k] = Junk]] : k \in DOMAIN t}

Init ==
  /\ build \in BUILDS
  /\ gpt \in [Copy -> UNION {Damaged(t) : t \in TABLES}]
  /\ para \in (IF build = "ab" THEN Suffix \cup {NONE} ELSE {NONE})
  /\ pc = "get_suffix" /\ caller = NONE
  /\ look = Start /\ buf = Garbage /\ ans = NoAnswer
  /\ meta = NONE /\ suffix = NONE /\ ext = NoInfo
  /\ table = NONE /\ half = NoHalves
  /\ failed = FALSE /\ fails = 0

\* Power is cut, the watchdog fires, or the system that was booted restarts.
\* SRAM, and with it the buffer, may keep what it held.
Restart ==
  /\ pc' = "get_suffix" /\ caller' = NONE
  /\ look' = Start /\ buf' \in {buf, Garbage} /\ ans' = NoAnswer
  /\ meta' = NONE /\ suffix' = NONE /\ ext' = NoInfo
  /\ table' = NONE /\ half' = NoHalves
  /\ failed' = FALSE
  /\ UNCHANGED <<build, disk, fails>>

BootControl ==
  \/ GetSuffix \/ SuffixRead \/ ActiveRead \/ ActiveWrite
  \/ Update \/ UpdateRead \/ UpdateWrite

Extension ==
  \/ LoadExtDram \/ Ext1Info \/ Ext2Info \/ LoadDramHalf \/ PartInit \/ LoadEtcHalf

Next == Lookup \/ BootControl \/ Extension \/ Restart

Spec == Init /\ [][Next]_vars

-----------------------------------------------------------------------------
(* Properties.                                                             *)

\* Every variable is in range.
GptCopy == [header : {"good", "bad"}, sum : TABLES, chunks : Seq(Chunk)]
Looks == [name : Name, copy : Copy, chunk : Nat \ {0}, found : Entry,
          info : BOOLEAN, summed : BOOLEAN]

TypeOK ==
  /\ build \in BUILDS /\ gpt \in [Copy -> GptCopy]
  /\ \A c \in Copy : Len(gpt[c].chunks) = Len(gpt[c].sum)
  /\ para \in Suffix \cup {NONE} /\ suffix \in Suffix \cup {NONE}
  /\ meta \in Suffix \cup {NONE}
  /\ look \in Looks
  /\ buf \in Chunk /\ ans \in [ret : {0, 1}, entry : Entry]
  /\ ext \in [Ext -> [addr : Place, active : BOOLEAN]]
  /\ table = NONE \/ table \subseteq Entry
  /\ half \in [{"dram", "etc"} -> Ext \cup {NONE}]
  /\ fails \in 0..MaxFails /\ failed \in BOOLEAN

Sound(c) == HeaderOK(c) /\ EntriesOK(c)

\* An early lookup gives no place but those of a table that a good header
\* vouches for, whatever reads failed on the way and whatever was left in the
\* buffer: mt_get_part_info_by_name acts on no entry before the sum.  The copy
\* itself need not be sound: a chunk that a failing read left in the buffer may
\* stand for the one that cannot be read.
AnswersAreVouchedFor ==
  At("answer") /\ ans.entry # Blank =>
    \E c \in Copy : /\ HeaderOK(c)
                    /\ \E k \in DOMAIN gpt[c].sum : ans.entry \in gpt[c].sum[k].entries

\* What the lookup makes of a device whose every read succeeds is a question
\* of the copies alone: it works unless both are damaged, or the primary has
\* bad entries below a good header, after which the backup is read with info
\* NULL.
Readable == Sound("primary") \/ (~HeaderOK("primary") /\ Sound("backup"))

\* Both halves of the extension come from the same partition, although one was
\* found by two early lookups and the other in the table, and although the
\* copies may differ: unless an access failed in this boot.
HalvesAgree ==
  half.dram # NONE /\ half.etc # NONE /\ ~failed => half.dram = half.etc

\* The preloader boots a readable device: it ends in an ASSERT or an abort only
\* after an access failed in this boot.
ReadableBoots == At("halt") => failed \/ ~Readable

\* Boot control writes nothing but its metadata: the partition table stays as it
\* is, and so does a choice of slot, unless an access has failed in this boot or
\* the table was not readable.
WritesAreSafe ==
  [][Readable /\ ~failed =>
       /\ gpt' = gpt
       /\ para' # para => para = NONE]_vars
=============================================================================
