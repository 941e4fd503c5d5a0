# Verification of the preloader

The preloader is the first program the boot ROM of a MediaTek phone loads. It
brings up DRAM and storage, listens for a host that wants to flash the device,
decides which of two installations ("slots") to boot, loads the next stages and
jumps to them. It is one thread of C without an operating system: what makes it
hard is not threads but *power* (which may be lost between any two storage
operations), *failing storage*, *a peer at the other end of a cable*, and *state
that outlives the run* (boot-control metadata, the bad-block table, the log).

This directory holds TLA+ modules of the parts where those matter, the TLC
configurations that check them, and TLAPS proofs. `src/platform/common` is shared
code; `mt6735` and `mt6739` are two chips, with copies of the older drivers that
have drifted apart. Where the copies differ in behaviour, the module has a
constant that selects one.

| file | what it is |
|---|---|
| `AbSlots.tla` | abstract: what a change of the durable boot-control state needs to be justified |
| `AbBoot.tla`, `MCAbBoot.tla` | the A/B slot decision and the boot-control calls under it |
| `Mblock.tla`, `MCMblock.tla` | the DRAM map handed to the next stages |
| `HandoverProofs.tla` | proofs about what is handed to the next stage: `Mblock`, and `AbBoot` with its refinement of `AbSlots` |
| `Bmt.tla`, `MCBmt.tla` | the bad-block table of raw NAND, with power cuts and failing operations |
| `BmtProofs.tla` | proofs about `Bmt` |
| `ByteStream.tla` | abstract: one direction of a connection as a queue of bytes |
| `CircBuf.tla`, `UsbTty.tla`, `MCUsbTty.tla` | the ring buffer, and the USB console between its two of them and the bulk endpoints |
| `UsbTtyProofs.tla` | proofs about `CircBuf` and `UsbTty`, its two refinements of `ByteStream` included |
| `UsbEp0.tla`, `MCUsbEp0.tla` | the control endpoint and a host that enumerates the device |
| `UsbEp0Proofs.tla` | proofs about `UsbEp0` |
| `Handshake.tla`, `MCHandshake.tla` | the dialog with the tools at the other end of USB and UART |
| `HandshakeProofs.tla` | proofs about `Handshake` |
| `ByteStore.tla` | abstract: media of bytes, with calls that may fail half-way |
| `BlkDev.tla`, `MCBlkDev.tla` | reads and writes of any range of bytes on a device of blocks |
| `BlkDevProofs.tla` | proofs about `BlkDev`, its refinement of `ByteStore` included |
| `Gpt.tla`, `MCGpt.tla` | the partition table in two copies, and the two users that act on its answers |
| `GptProofs.tla` | proofs about `Gpt` |
| `LogStore.tla`, `MCLogStore.tla` | the log that outlives a reset |
| `LogStoreProofs.tla` | proofs about `LogStore` |
| `*.cfg` | the TLC instances |
| `PROJECT.json` | components, runs, mutants, the map from definitions to source lines, findings, hazards, theorems |

To repeat: `tlc -config X.cfg MCModule` for a run, `tlapm XProofs.tla` for proofs.

## 1. Inventory

For each component: the state it keeps, its operations, whom it talks to, what
is hard, and what makes it correct.

### A/B boot control — `common/ab_bootcheck.c`, `common/bootctrl/bootctrl_api.c`

* State: durable `boot_ctrl_t` in the `para` partition (magic, and per slot
  priority 0..7, retry_count 0..7, successful_boot, normal_boot) and the boot
  partition of the ROM (eMMC) or boot LU (UFS). In memory: `ab_suffix`,
  `ab_retry`, `g_boot_mode`.
* Operations: `get_suffix`, `get_retry_count`, `check_valid_slot`,
  `get_boot_mode`, `get_bootup_status`, `reduce_retry_count`,
  `mark_slot_invalid`, `set_active_slot`, `ab_set_boot_part`; the decision
  `ab_ota_boot_check` that calls them.
* Interacts with: the block device below; the operating system and its update
  engine, which write the same metadata while they run; the loader, which picks
  partitions by `ab_suffix`; the watchdog.
* Hard: each call reads the metadata again, and any read or write may fail; most
  results are ignored; power may go between the two durable writes of a rollback.
* Correct when: a slot that never confirms is left after its retries and not
  before; a confirmed slot is never given up; the slot booted is the best valid
  one; the preloader belongs to the slot it boots.

### DRAM memory map — `common/mblock/mblock.c`, `mblock_v2.c`

* State: the sorted list `mblock[]` of free blocks; in version 2 `reserved[]`;
  the part of DRAM beyond `CUSTOM_CONFIG_MAX_DRAM_SIZE`.
* Operations: `setup_mblock_info`, `mblock_reserve` (`_ext`).
* Interacts with: every firmware that wants memory at boot; the kernel, which
  receives the list.
* Hard: address arithmetic at block, rank and limit boundaries; an insertion into
  a fixed array after a long sequence of requests.
* Correct when: memory is partitioned into free, reserved and excluded; the list
  stays sorted and within the array; the highest possible place is found.

### NAND bad-block table — `drivers/bmt.c`

* State: on flash, the bad-block marks, the table in page 0 of one pool block and
  the index in the spare area of each data page; in memory `bmt`,
  `bmt_block_index`, `pool_erased`.
* Operations: `init_bmt` (load or reconstruct), `update_bmt` after a failed
  write, erase or bad-block check, `get_mapping_block_index`.
* Interacts with: `nand.c` above it (every access is redirected through the
  table) and below it (physical operations).
* Hard: each physical operation may fail or be cut by a loss of power, in the
  middle of a migration or of the rewriting of the table, and recursion retries.
* Correct when: acknowledged pages survive, no two blocks share a replacement,
  marks and table agree, an update ends.

### NAND driver — `drivers/nand.c` (two, one for each chip)

* State: the controller, the page cache, spare-area buffers.
* Operations: logical read/write/erase/bad-block check on top of `bmt`.
* Correct when: each logical access goes to the mapped block and a failure is
  handed to `update_bmt`. Only these accesses of mt6735's driver are modelled, inside
  `Bmt`; mt6739's adds sub-page and TLC accesses to the same scheme.

### USB controller and control endpoint — `drivers/usbd.c`

* State: `ep0_state` (idle, rx, tx), the current URB and the count of bytes sent,
  `fifo_addr`, the set-address flag.
* Operations: `mt_udc_ep0` with idle, rx and tx handlers, `udc_endpoint_write`,
  bus reset, SET_CONFIGURATION.
* Hard: the host may end a transfer early (SETUPEND), or reset the bus, at any
  point; the driver is polled, so several conditions are seen at once.
* Correct when: the answer sent always belongs to the last SETUP packet, starts
  at its first byte, and the FIFO space handed out stays within the hardware's.

### USB console — `drivers/usbtty.c`, `drivers/circbuf.c`

* State: two ring buffers of 1024 bytes; a transmit URB; `endpoint->last`/`sent`.
* Operations: `usbtty_getc/putc/query`, `mt_usbtty_getcn/putcn`, `ep_to_buf`,
  `buf_to_ep`, polling.
* Hard: buffers at their limits, a peer that stops reading, a bus reset while a
  transfer is on its way.
* Correct when: bytes arrive once and in order and nobody waits for ever while
  the peer makes progress.

### Download handshake — `core/handshake_usb.c`, `handshake_uart.c`, `download.c`

* State: progress in the start sequence, the timeout, the force-download flag.
* Operations: token exchange, command loop, `bldr_handshake`.
* Hard: noise, a late answer racing the timeout, a command half received.
* Correct when: download mode is entered only after the complete sequence, both
  sides then know it, the mode booted is the one the tool was promised, and
  without a host the boot continues within the timeout.

### Block device layer — `core/blkdev.c`

* State: a list of block devices, one shared bounce buffer.
* Operations: `blkdev_read`, `blkdev_write` at byte granularity over block I/O.
* Hard: start and end aligned or not, in one block or several; three writes of
  which any may fail.
* Correct when: equal to a byte-wise copy; bytes outside the range are unchanged.

### Persistent log — `inc/drivers/log_store_pl.c`

* State: SRAM header (signature, reboot count, save-to-eMMC count), DRAM header,
  buffer and two mirror buffers.
* Operations: init, write, `log_store_enable`, choice of the mirror.
* Hard: state that survives resets of a sort, and may be stale or partly lost.
* Correct when: the log of the last boot that needs attention is kept until it was
  saved, and counters neither overflow nor stop the saving.

### Watchdog — `common/watchdog/wdt_v2`

* State: mode, length, status registers, a copy of the reset status.
* Correct when: the status is read before it is cleared, and a dead system resets.

### Loader — `common/loader`, `core/part.c`

* State: image header, partition, addresses.
* Operations: find a named image in a partition, check sizes, load.
* Correct when: each image of a boot comes from the one chosen slot and is loaded
  within its bounds. (`common/loader` has no caller in the two chips.)

### Partition table — mt6739 `inc/drivers/efi.c`, `core/partition.c`

* State: primary and backup GPT on the device; a buffer of one chunk in SRAM; the
  table in DRAM.
* Operations: the early lookup of one name, `mt_get_part_info_by_name`; `part_init`.
* Interacts with: boot control, which looks `para` up before each access; the
  loader of the preloader's own extension, of which one half is found by early
  lookups and the other in the table.
* Hard: results that are not looked at, two ways to the same answer, two copies
  that may differ.
* Correct when: no answer comes from a table that does not verify, one damaged
  copy is made up for, both ways agree, and what is written by an answer is only
  what it should be.

### Not core to this program's own logic

RPMB, the eMMC/SD and UFS host drivers, EMI protection, DRAM calibration, power
and clocks, the straight-line boot flow in `main.c`, the security libraries (no
source), the board tables and the build tools. `PROJECT.json` gives the reason
for each.

### How they fit together

```
 host --- USB/UART --- usbd/usbtty --- handshake/download
                                            |
 ROM -> main.c --- ab_ota_boot_check --- boot control ---+
           |                                             |
           +--- loader --- partition table --- blkdev ---+--- eMMC | UFS | nand.c
           |                                                               |
           +--- mblock (regions for each stage)                          bmt.c
           v
   next stages, operating system (writes the boot-control state, kicks the watchdog)
```

There are no locks, no interrupt handlers that share state, and no tasks; calls
are synchronous. Interleavings come from the host, the booted system, the storage
that fails and the power that goes.

## 2. Plan

| order | modules | question | state |
|---|---|---|---|
| 1 | `AbSlots`, `AbBoot`, `HandoverProofs` | which slot boots, whatever fails | modelled, proved |
| 2 | `Mblock`, `HandoverProofs` | is memory handed out once | modelled, proved |
| 3 | `Bmt`, `BmtProofs` | do data and table survive failures and cuts | modelled, proved |
| 4 | `UsbEp0`, `UsbEp0Proofs` | control transfers against a host that aborts and resets | modelled, proved |
| 5 | `CircBuf`, `UsbTty`, refining `ByteStream` twice, `UsbTtyProofs` | order and progress through full buffers | modelled, proved |
| 6 | `BlkDev`, refining `ByteStore`, `BlkDevProofs` | the split of a transfer, cut anywhere | modelled, proved |
| 7 | `LogStore`, `LogStoreProofs` | mirror and schedule across resets | modelled, proved |
| 8 | `Handshake`, `HandshakeProofs` | tools, deadlines and late answers | modelled, proved |
| 9 | `Gpt`, composed with boot control and the loader of the extension, `GptProofs` | two copies, two ways to look up | modelled, proved |

"Proved" means every safety property a run checks, for all values of the constants, or
under the hypothesis on failures that section 6 states; section 6 also says what stays
with TLC.

Two plans were given up. `common/loader` and the watchdog driver are sequential
code without state between calls: `Gpt` has the one part of loading that chooses,
and the effect of the watchdog is the `Reset` of `AbBoot`. A logical NAND as the
abstraction of `Bmt` says the same as `Durable`.

## 3. The modules and the code

### AbBoot

One action per boot-control call of `ab_ota_boot_check`; `pc` is the next call.
The metadata are the durable variables `magic`, `priority`, `retry_count`,
`successful_boot`, `normal_boot`, with the widths of the bit fields, and
`bootPart` is the boot partition. `ab_suffix`, `ab_retry`, `g_boot_mode` are the
code's variables.

* Each read succeeds (`AccessOK`) or fails (`AccessFails`). A read that fails
  makes the call return -1, and the model follows what each caller makes of it:
  255 retries (`NoRetry`, through `uint8_t`), "true" for `get_boot_mode` and
  `get_bootup_status`, "no slot" for `check_valid_slot`.
* A write (`Store`) fails with all or nothing stored: the metadata are eight
  bytes in one block.
* `GetSuffix` includes the repair of metadata without magic.
* `CHECKS_AFTER_INVALID` is TRUE for `common/ab_bootcheck.c` and FALSE for the
  copy of the loop in mt6735's `main.c`, which switches preloaders without asking
  whether the other slot is valid.
* `LoadImages` compares `ab_suffix` with `"_a"`; with a null suffix that reads
  address 0, which is either no match or a data abort: both are outcomes.
* The environment: `PowerCut` between any two calls (the cut during a write is
  the cut before or after it), `Reset` by the watchdog when the loaded system
  does not work, `Reboot`, and the booted system's writes: confirm, activate a
  slot after an update, change the boot mode. Slots in `HEALTHY` have a system
  that can confirm itself. The model gives the system exactly the writes that the
  boot-control interface of `bootctrl.h` offers.
* History variables `boots`, `faulty`, `storage`, `faults`, `cuts`, `parted` count for the
  properties and bounds only.

`AbSlots` is the promise: a durable change is a default, a charge, an abandoning
or a rollback by the preloader, or a write of the system, and each has its reason
*in the durable state it is applied to*. The program acts on copies read calls
earlier, so that this is not obvious; `ImplementsSlots` says it.

### Mblock

`MblockInit` is `setup_mblock_info`, `mblock_reserve(r)` is the whole call: the two
checks (`Refused`), the search (`Fits`, `IsTarget`), the check of the entry in
`reserved[]` (`SlotTaken`), the cut of the target (`Split`) with its three cases, and
the insertion. `VERSION` selects `mblock.c` or
`mblock_v2.c`. The list is the array counted from 1; `reserved` is the array of
version 2, and a history variable in version 1, which keeps no record. `answer` is
what the caller got.

`Refused` for version 2 is the C expression as the compiler reads it, where `?:`
takes the whole disjunction for its condition (finding `mblock_v2_full`). So nothing
keeps the insertion within `mblock[]`; the model ends with the first block beyond it,
which is written over `mblock_magic`, `mblock_version` and `reserved_num`. `reserved[]`
is kept within its bounds by another check, made after the search: an entry whose start
is not zero is taken. `setup_mblock_info` zeroed the array, so the check never fires
inside it; one entry too far the code reads `orig_dram_info.rank_num`, which follows in
`boot_arg_t` and is never zero (`NextStart`), and the request is refused. An
alignment below a page becomes 0 and masks every address to 0 (`AlignedDown`).
Requests larger than the end of a block would wrap `end - reserved_size`; the
assumption `RequestsAssumption` excludes them (sizes are at most the DRAM base,
0x40000000 on these chips), so the model's subtraction equals the u64's.

### Bmt

One action is at most one physical operation: an erase, a program, a bad mark. `pc`
is the point in `init_bmt`, `update_bmt`, `find_available_block`,
`migrate_from_bad` or `write_bmt_to_flash`; `op` is the access on whose behalf
they run. A page is blank, garbage (its program failed, was cut, or hit a page
that was not erased), data, or a table; each carries its spare-area index.

* Any erase or program may fail, and any may be cut, which leaves the block or
  page garbage or untouched or done. A failure and the mark that follows at once
  are one action: a cut between them leaves what a cut during the operation does.
* `reconstruct_bmt` is the round of its loop for one block of the pool, with
  `is_block_mapped` asked for the wrong thing, as in the code (section 7).
* `Erasable` has the comparison of the code, which does not protect the table's
  block (section 7).
* `Retry` clears the spare area in `g_nand_spare`, since marking a block fills
  that buffer with 0xFF.
* `MARKS_TARGET` is TRUE for mt6739, which marks the pool block that failed, and
  FALSE for mt6735, which passes its number where an address is due.
* The client of the driver erases a block before it writes it and writes its
  pages in order; it acknowledges a write when the call returns.

Simplifications: `MTK_TLC_NAND_SUPPORT` is off; the accesses are those of mt6735's
`nand.c`; reads are exact (ECC errors are not modelled) and a checksum is taken to
tell a table from garbage.

### CircBuf, UsbTty

`CircBuf` is `circbuf.c`: a record of the array, the two pointers and the count,
with `buf_push`, which never looks for room, and `buf_pop`. `UsbTty` keeps one for
each direction, the transfer block of each endpoint and the FIFOs of the
controller.

* A call of the program (`usb_send`, `usb_recv`, `usb_listen` with its "READY") is a
  sequence of steps, `call.at`. A poll is the list of routines in `todo`:
  `service_interrupts` copies the latches, `mt_udc_irq` works the copy off,
  `buf_to_ep` and `ep_to_buf` move bytes. Which of them a call runs differs: a flush
  runs all four, a query leaves `buf_to_ep` out, `puts` runs the interrupts only.
* Between any two routines the host may read a packet or send one.
* `Timeout` is the flush that gives up after 300 ms.
* Bytes are numbered as they are handed over; `ByteStream`, a queue, is implemented
  once for each direction, with everything between the two ends as its one
  variable.

`MAX_OUT`, `MAX_IN` and `TIMEOUTS` bound the runs. The host sends at most `AHEAD`
bytes before the program asks for them, as a tool does that sends the next command.
Three conditions are stated rather than found out by the properties: answers are
not longer than a transfer block, the timeouts do not fill the ring, and the bus
is not reset after the configuration; section 7 says what happens otherwise.

### UsbEp0

The variables `ep0_state`, `sent`, `actual_length`, `set_address` are the code's;
`CSR0`, `FADDR` and `fifo` are the controller's registers. `service_interrupts` takes
the latched interrupts, `mt_udc_irq` handles them (reset first) with what CSR0 says
*then*. The host goes through a script of requests: descriptors that fit in a
packet or do not, read whole or in part, an unsupported one, the address, the
configuration and one with data from the host. It may give a transfer up, reset
the bus, and, `RACES` times, act between the two halves of a poll. `HUGE` is 2^32,
where `actual_length - sent` wraps.

### Handshake

One action is a round of a loop or a call: `usb_connect`, `usb_listen`, a round of
`usbdl_check_start_command`, `bldr_cmd_handler` for a token, `uart_listen`. The
deadlines of `usb_listen` and of the start sequence pass as actions of their own.
Tools are modelled from what the code expects: a download tool sends a byte of the
sequence, waits for the complement and repeats its first byte if none comes; a tool
with a token sends it in packets of any size; a noisy one sends anything; a tool may
be unplugged for another; a UART tool may have sent its token at any time, which is
modelled as arriving while `uart_listen` runs, since nothing reads the FIFO before.

* `usb_listen` drops the chunk that begins with a0 without an answer and calls
  `usbdl_handler`; the tool's repetition is what gets on.
* An extra a0 within the sequence sets the index back and is not answered.
* `uart_listen` stores `c` again after a gap of 10 ms.
* META and ADVMETA acknowledged over USB stop the UART token, other modes are
  overridden by it.

Bounds: `MaxSlips` start deadlines that pass although the tool is prompt (the tool
repeats a0 within the 300 ms; otherwise it never gets in step) and `MaxHaste`
answers that a tool does not wait for. Left out: the parameters of META and
factory mode, DISCONNECT, the loss of the port, the switch of the modem
(`CFG_DT_MD_DOWNLOAD`, off by default), the commands of download mode.

### BlkDev

`blkdev_read`, `blkdev_boot_read` and `blkdev_write` begin a call; `ReadHead`,
`WriteHead`, `TransferMiddle`, `ReadTail`, `WriteTail` are the transfers the split
leads to, in the code's order and with its formulas. `addr`, `size` and `pos` are the
caller's counters as the code advances them, `buf` is the one bounce buffer, which
keeps its contents between calls. `Fail` and `PowerCut` end the call before or within
any transfer; of a failing write of several blocks any subset is written. `ByteStore`
knows neither blocks nor buffer: a write puts bytes of its range in any grouping,
and only success says that all are there. The mapping takes the medium as it is, and
the call's range and data from its arguments.

### Gpt

`ReadHeader`, `ReadChunk` and `CheckSum` are the lookup of one name, copy by copy,
through the buffer of one chunk; `part_init` is `PartInit`. The two users are the
boot-control calls (`build = "ab"`) and the halves of the preloader's extension
(`"bits"`), each continuing at the lookup's answer.

* Each access may fail. The result of reading a chunk is not looked at: the buffer
  stays as it was or holds part of the chunk.
* A sum that is wrong clears the pointer `info` too, so that the lookup in the backup
  writes names through a null pointer (lost, or an abort).
* An address 0 from a lookup that found nothing is reported only; boot control then
  reads or writes the metadata at the start of the device.
* The copies: each sound, or with a damaged header or one damaged chunk; they may
  differ in the active bits. Tables have no holes and fill whole chunks, as 128
  entries of 128 bytes do; a write of the metadata is atomic.

`AbBoot` takes a lookup as part of the access that follows it.

### LogStore

`pc` walks through `log_store_init`: the move of the mirror, one `memset`, `memcpy` or
assignment a step, the copy to expdb write by write, the new header, the
reservation and `format_log_buff`; then `pl_log_store` adds characters. `Reset` may
come at each of them and keeps SRAM and DRAM; `PowerLoss` clears both. A write may
fail, the reservation may fail or move (its mirror is then taken as empty). `logged`,
`rough`, `calm`, `owed` are history. Sizes are in units of half a mirror.

## 4. Runs

Passing runs visit every action between them; state counts are distinct states.

| run | bounds | states | shows |
|---|---|---|---|
| `ab_decision` | real priorities and budget (7, 3), one healthy slot, 2 boots with failing storage, 1 power cut | 445,734 | the safety properties of the decision, the refinement of `AbSlots`, and that a slot that never confirms is left |
| `mblock_v1` | two ranks, 4 entries in the list, 4 requests of 15 kinds | 10,055 | partition, array bound and optimality of `mblock.c` |
| `mblock_v2` | two ranks, maximum exactly at the end of a rank, 3 entries in `reserved[]`, 4 requests of 36 kinds | 61,057 | no overlap and optimality of `mblock_v2.c` with room in `mblock[]`; `reserved[]` is not overrun |
| `mblock_v2_full` | 4 entries in either array, 4 requests | violated | `mblock[]` is overrun by the third request that cuts a block in two |
| `bmt` | 2 system and 3 pool blocks of 3 pages, failures without bound, 1 cut, 2 writes | 318,235 | after one failure stored data survive and redirected blocks are marked; whatever fails, no shared replacement, no stray mark, and updates end |
| `bmt_marks_block_0` | mt6735's form, 2 failures | violated | block 0 is marked in place of the block that failed |
| `usbtty` | packets of 2, buffers of 4, 6 bytes out and 5 in, 1 timeout, 2 bytes ahead | 181,783 | each direction is a queue, the receiving block is not overrun, every answer arrives |
| `usbep0` | packets of 2, 7 requests, 3 resets, 2 aborts, 2 races | 102,331 | right answers, an agreed address, enumeration in the end |
| `handshake` | tokens of 3 pieces, 3 tokens, 1 slip, 1 hasty answer | 380,434 | download mode by the sequence only and known to both, the mode agreed on, the boot or the download reached |
| `blkdev` | 3 blocks of 4 bytes, every range, 2 calls | 336,519 | order of the parts, the refinement of `ByteStore` |
| `gpt` | 2 copies of 2 chunks, 3 failing accesses, both builds | 455,396 | answers from sound tables only, halves that agree, no halt and no stray write without a failure |
| `logstore` | halves of 1, log of 2, 7 boots, 1 loss of power, 1 fault | 3,534,681 | the newest log is kept, with the one before it; a save owed is due; the first saves happen |

A run lists the properties that could be wrong. `TypeOK` is among them in
`ab_decision`, where the fields have widths; the other modules state it for the
reader and for the proofs, as `Mblock` does with `Sorted` and `RankIsRight`, and
`AbBoot` with `ConfirmedIsKept` and `AbandonedAfterBudget` and `Handshake` with
`MetaIsKept`, which are proved for every value of the constants.

Why the bounds are enough:

* A/B: with two slots and a budget of 3, every value of the retry counter is
  reached, the budget is exhausted, and the whole rollback to the other slot and
  on to recovery is played. Failures are per boot, and within such a boot every
  access may fail or not; two such boots cover a failure met again after a
  restart. A second cut meets the same durable states, since each cut leads to
  one of the states from which `PowerOn` starts. The proofs remove the bounds for
  the safety properties. The older loop of mt6735 (`CHECKS_AFTER_INVALID = FALSE`)
  has no run; the proofs hold for both values.
* Mblock: two ranks show adjacent blocks of different ranks; the requests include
  exact fits at both ends, a cut in two, limits within a block, at its end and
  beyond, page and sub-page alignment and too large a request; four requests fill
  a list of four, and are one more than fit in the `reserved[]` of `mblock_v2`. The
  proofs remove the bounds.
* Bmt: two system blocks so that one may be the innocent bystander; three pool
  blocks for a table, a replacement and one to retry on; a factory-bad block to
  exercise the bad-block check; three pages so that some lie before and after the
  page that failed. `fails` counts up to `MaxFails` and stays there while operations
  go on failing: `Durable` and `RedirectedIsMarked` speak of the states up to one
  failure, the others of all. Beyond that the code does lose data: see section 7.
* UsbTty: buffers of two packets as in the code (1024 and 512), answers below a
  packet and as long as the block, six bytes out so that the ring wraps. One
  timeout leaves an answer half sent in front of the next.
* UsbEp0: a packet of 2 for 64 with answers that fill it, pass it and fall short;
  three resets, so that one meets the state the last one left.
* Handshake: three pieces are the shortest token that the bytes left by a slip and
  a hasty tool do not fill (section 7).
* BlkDev: three blocks give head, middle and tail; every start and length is
  tried, and the second call meets the buffer and the medium of the first.
* Gpt: two chunks, so that a stale one may stand for the other; three failing
  accesses, one for each part of a lookup, in every boot the bound has room for.
* LogStore: seven boots pass the first saves, the sparse save that is due at the
  reboot `SCALE` times as many (`reboot_count` 6), and a move of the mirror that itself is cut short; two rough boots in a row are in it, which is
  where `NewestIsKept` is tight.

Deadlock is not checked where the system really stops: a boot that has made all its
requests (`Mblock`), calls and bytes used up (`UsbTty`, `BlkDev`, `LogStore`), a device
that is enumerated (`UsbEp0`), the next stage in charge (`Handshake`, `Gpt`). `AbBoot` and
`Bmt` are checked for it.

## 5. Fairness

* `AbBoot!Fairness`: `WF(Preloader)`: the processor executes the next call when
  the device is on (it is a single thread that never waits for another), and the
  device is switched on again. `WF(Reset)`: the preloader leaves the watchdog
  running, so a system that does not work, or a preloader that ended in
  `ASSERT(0)`, is reset. Nothing is assumed of the user, the updater, or of a
  healthy system's confirmation; storage may fail at any step within the bound.
* `Bmt!FairSpec`: `WF(Driver)`: the driver goes on with the access it is in. No
  operation is assumed to succeed: each may fail for ever, and the update ends
  because each failure uses up a block of the pool.
* `UsbTty!Fairness`: the program's loop goes on and comes to wait for the next
  command; the host reads the packets offered to it and sends what it was asked for.
  A flush may still give up.
* `UsbEp0!Spec`: `usb_connect` polls in a loop; the host answers or, when nothing
  comes, resets and tries again. Aborts, resets and races have no fairness.
* `Handshake!Fairness`: the processor runs; the deadline of `usb_listen` passes;
  the 300 ms of the start sequence pass even though the tool goes on repeating
  itself (strong fairness, since each repetition may end the waiting for a moment);
  a download tool reads and repeats. Nothing is assumed of other tools.
* `BlkDev`, `Gpt`, `LogStore` and `Mblock` have safety properties only.

## 6. Proofs

`HandoverProofs` has the theorems of two modules, `AbBoot` and `Mblock` (whose `Spec`,
`Init` and `Next` carry its name in front, so that both can be extended). About
`AbBoot` it proves, for every retry budget and priority, every set of healthy
slots and any bound on failures and cuts, that `AbBoot` satisfies `TypeOK`,
`RetryAccounting`, `BootedSlotIsBest`, `RecoveryIsLastResort`, `PreloaderMatchesSlot`,
`AbandonedAfterBudget` and `ConfirmedIsKept`, and implements `AbSlots!Spec`. The assumption is `ConstantsAssumption`.

The properties are not inductive because the decision acts on what it read before.
The strengthening `IInv` adds to `TypeOK`:

* the retry accounting for slots with valid metadata; and
* the decision in progress: what the copies say about the durable state at each
  `pc`. While storage has been sound since power-on, `ab_suffix` is the active slot
  and `ab_retry` its retry count until the step that changes them; before
  `reduce_retry_count` or `mark_slot_invalid` the slot's `successful_boot` is 0
  *whatever failed*, because a failing read of the status ends the decision; and
  `mark_slot_invalid` is reached only with `ab_retry = 0`, which a failing read
  (255) can not give. The value 255, which looks like a mistake, is thus what
  protects a slot from being given up for a storage failure.

One lemma per group of actions shows that a step keeps `IInv`; the action
properties and the refinement follow step by step from `IInv`. For the refinement,
`AbSlots` has the same variables, so the mapping is the identity on the durable
state and each call is a step of `AbSlots` or a stutter. `PreloaderMatchesSlot` has an
invariant of its own, `Matching`: the boot partition is switched after the metadata, and
in between (`Switching`) it is still that of the slot just given up, while nobody else
may write. A cut there, or a failure in a boot that gets there, sets the history variable
`parted`, and the next update, which writes both, clears it; while it is not set,
`Matching` holds through failures and cuts anywhere else. Metadata without magic need a
word of their own: a boot with sound storage has repaired them before it decides.

About `Mblock` it proves, for any ranks, maximum, requests and number of requests,
`MblockTypeOK`, `Sorted`, `RankIsRight`, `Conserved`, `Exclusive`, `HighestPossible`,
`ListHolds` (for `mblock.c`) and `RecordHolds` (for `mblock_v2.c`). For `mblock_v2.c` all
of this is said of the calls before `mblock[]` is overrun, where the model ends. The argument: a granted region lies inside the target (`GrantedInside`); a split
changes the list in one of three shapes (`SplitShape`), each of which takes from
the set of free addresses exactly the region given away (`SplitTakes`); hence the
set of free addresses, the regions and the excluded part stay a partition. Order
and ranks ride along, since each part of a cut block lies within the old one.
`HighestPossible` needs `Separated`: two free blocks of one rank are never adjacent,
since a cut always leaves the region granted between its parts. So a range of free
memory within a rank lies within one block, and the block with the highest end is the
one to take the region from. The assumptions are those of `MblockAssumption` in
`Mblock`.

`BmtProofs` proves about `Bmt`, for any number of blocks, pool blocks and pages, any
factory-bad blocks and any bounds (`ConstantsAssumption`), with four invariants, of which
the second rests on the first and the last two on both:

* `IInv` holds whatever fails and whenever power is cut, and gives `TypeOK`, `Disjoint`
  and, for the address that mt6739 passes (`MARKS_TARGET`), `MarkedAfterRedirected`.
  `Disjoint` is not inductive because tables come from flash: a table there never names
  the block it is in (`Fits`), and its page has no index (`GoodPage`), so that it is neither
  moved as data nor taken for a replacement. `Target` says that the block a migration fills is
  unused still, `Tabled` that a table is written only after the entry is in it, `Rebuilt` that
  a table being rebuilt names only blocks already read, which is why the wrong question
  of `is_block_mapped` (section 7) does no harm here. What `FirstEntry` finds, and that
  the pool has a lowest and a highest block, take well-founded induction on numbers
  (`FirstIs`, `LowestIs`).
* `Known` holds up to one failing operation (`MaxFails <= 1`) and any number of cuts, and
  gives `RedirectedIsMarked`. `Registered`: every entry is of a marked block, save the one
  just made. `Costly` says what only a failure can have brought about, `Seated` that the
  table has a block unless none is left: so an unmarked block's entry is never kept in
  memory only, where the check or the erase that gave up would leave it. With two failures
  it is (TLC shows it), hence the hypothesis.
* `Calm` holds as long as nothing fails (`MaxFails = 0`), however often power is cut, and gives
  `Durable`: either nothing is redirected on flash (`Blank`) and memory is on its way to
  replace the block that is bad from the start (`Replacing`), which holds no data yet; or the
  one table on flash redirects it (`Committed`), and is not touched again.
* `Sound` holds up to one failing operation as long as power is not cut in the middle of an
  access (`MaxFails <= 1`, `MaxCuts = 0`), and gives `Durable` once more, through everything that
  `update_bmt` does: the search, the migration page by page, the new table and its retry in
  another block, the mark; and through every boot after it. `Loaded` says where the data of
  every block are while there is a table in memory (`InPlace`), and that no pool block is
  *indexed* for a block but the one it is redirected to; `Written`, that the table on flash is
  the one in memory, or about to be replaced; `Rebuildable`, that without a table the indices of
  the pages say the same, so that a boot may take either way, and `Rebuilding` how much of it is
  done; `Swept`, that blocks to be picked are erased; `Working` and `Filling`, what the
  access in progress and the block being filled hold, page for page. The delicate part is a
  replacement that fails itself: until it is marked, two blocks carry the index of the same block
  (`Relieved`), and a table is in memory that says which one counts.

`HandshakeProofs` proves, for tokens of any length, any set of tokens and any number of
slips and hasty answers, `TypeOK`, `StartIsComplete`, `InStep`, `ModeIsAgreed` and
`MetaIsKept` (`HandshakeAssumption`). `HeardIsIndex` says that the index of
`usbdl_check_start_command` is how much of the sequence the bytes read end with;
it is kept because an unexpected byte is a beginning of the sequence only if it is its
first byte (`NextIndexIsMatched`). `LastAnswer`: the answer to the last byte is
on its way only from a device in download mode. `Decision`: no answer was given before
the mode is decided, the mode is that of the last answer that grants one, and the UART is
only listened to if that was not META.

`BlkDevProofs` proves, for blocks of any size, any device and any number of calls,
`TypeOK`, `InOrder` and the refinement of `ByteStore` (`SizesAssumption`). Head, middle and
tail tile the range: the head ends at a block boundary or where the range does, the middle
at `AlignedEnd`, and what is left is the tail (`SplitIs`, arithmetic with `%` and
`\div` in `DivMod` and its like). `Placed` says so for each `pc`; `Buffered`, that the
bounce buffer written back is what the medium holds outside the range; `Carried`, that
the bytes done are those below `addr`; `Known` keeps the data of calls apart. Each
transfer is then a write of `ByteStore` (or a read), a failing or cut one a write of some
of its bytes.

`GptProofs` proves, for any set of tables, any damage and any number of failing accesses,
`TypeOK`, `AnswersAreVouchedFor`, `HalvesAgree`, `ReadableBoots` and `WritesAreSafe`
(`ConstantsAssumption`; `TablesAssumption`: a sound table has one entry for each name and
every entry its place). `Scanned` holds whatever fails: what a chunk that adds up says is
the table's. `Rightly` is what is known while no access has failed: both ways to look up
go by the same copy (`Source`, the primary if it is sound, else the backup), so they agree.

`LogStoreProofs` proves, for any size of the log, `TOP`, `SCALE` and any number of resets,
losses of power and faults, `TypeOK`, `NewestIsKept`, `PreviousIsKept`, `OwedIsDue` and
`TopAreSaved` (`SizesAssumption`). The invariant follows a log through the phases of a
boot: it is `Pending` in the buffer until it is `Pushed` into the mirror, and once there
`Moved` from one half to the other before the next takes its place; `Headers`, `Status`,
`Counts` and `Home` say what the headers in SRAM are worth at each step, since that is
what decides where the code looks.

`UsbTtyProofs` proves, for buffers, packets, answers and requests of any size and any
bounds,

* `ReceiveBlockFits` and the refinement `InIsQueue` from `SizesFit`: a ring of two
  packets or more, a transfer block of a packet or more, and what the host sends ahead
  fits with a token into either. The code has 1024, 512 and 8;
* `OutIsQueue`, from `SizesFit` and `AnswersFit(K)`: no answer is longer than `K`, and
  the ring has room for one answer more than there are flushes that give up
  (`K` = 512 and one such flush in the code). Two theorems lie between: the
  direction is a queue in every behaviour that does not push the output ring beyond its
  size (`OutQueue`), and none does (`AnswersNeverOverrun`). In the TLC instance the
  bytes in all (`MAX_OUT`) keep the ring from filling in place of `AnswersFit`, so that
  it covers a case the second theorem does not, and the first does;
* `TypeOK` on the same condition.

A ring buffer is shown to be a queue as long as nobody pushes beyond its size
(`PushAppends`, `PopTakes`: pointers that wrap, and a count), and so are the transfer
block and the FIFO behind it. What remains is to show that nobody does, although
`buf_push` never looks: towards the program by the host's restraint (`InStock`) and
because bytes stay in the receiving block only where the call moves them on (`Held`, which
fails in the mutant whose `query` leaves out `ep_to_buf`); towards the host because each
flush that gives up leaves at most one answer behind (`Backlog`).

`UsbEp0Proofs` proves `AnswerIsRight` and `AddressIsAgreed` (`EnumerationAssumption`). The
handlers of `usbd.c` are functions of a record, so the first invariant is a predicate
`Good` of a record: each handler has a lemma that it keeps it, and a poll applies them one
after the other. `sent` is zero except in `EP0_TX` (`Rewound`), and `EP0_TX` is one of
three (`Busy`): the answer the host is reading (`Sending`), one that a reset of the bus
has cut, or the same with the first request after the reset already waiting (`Asked`),
which is never read in that state. `AnswersRight` has a hypothesis: the enumeration begins
with a read, or the host gives up no transfer. TLC shows that it is needed (section 7).
`AddressAgreed` has none: an address that is assigned and not taken belongs to a host that
has it, is about to use it, or has reset the bus, which sets it to 0 before it is taken
(`Assigned`); and a SET_ADDRESS that waits is that of the host's present transfer (`Waits`).

Only model-checked:

* liveness (`FailingSlotIsLeft`, `UpdateEnds`, `AnswersArrive`, `Enumerated`,
  `BootGoesOn`, `StartIsReached`): the prover does not do fairness;
* `Durable` of `Bmt` when an operation fails *and* power is cut; each alone is proved, for
  every geometry. Both together are too much for some geometries (section 7), so that the pool of
  three blocks in run `bmt` is part of what the run says.

## 7. What was found

Two runs expect a violation, with the quotation in `PROJECT.json`:

1. `mblock_v2_full`: the full-array guard has no effect for a request with a name
   of legal length, and `mblock[]` can be written beyond its end. `reserved[]` can not:
   the check for a taken entry stops the request, by reading `rank_num` behind the
   array (`RecordHolds`, proved).
2. `bmt_marks_block_0`: mt6735 marks block 0 in place of the pool block that failed.

Other departures from what the code says of itself, which the models contain as
they are:

* A power cut between `mark_slot_invalid` and `ab_set_boot_part` leaves the preloader of
  the failed slot in charge of the other slot until the next update
  (`ab_bootcheck.c:110-117`). `PreloaderMatchesSlot` exempts this cut (`parted`), and says
  that nothing but it and a failure in such a boot has that effect.
* A failing read of the metadata makes `get_boot_mode` or `get_bootup_status` "true":
  the slot is taken for confirmed and boots uncharged (`ab_bootcheck.c:103`,
  `bootctrl_api.c:379-383`). `RetryAccounting` counts such boots apart.
* The erase of the pool before the first update of a boot compares the loop's fixed
  `block`, not `block + i`, with the table's block (`bmt.c:414-416`, mt6739
  `bmt.c:381`): the table is erased too, and is missing until the update writes it.
* `reconstruct_bmt` asks `is_block_mapped` for a pool block with the number of the
  bad block (`bmt.c:659-661`), and so never recognises a block it has entered.
* With two cuts and a failure, or a cut and two failures, `Durable` of `Bmt` fails: a
  page 0 that was torn leaves a blank index, so that a rebuilt table misses its block.
* With two pool blocks, one cut and one failure are enough: the search for a
  replacement erases the table on flash, finds no block and returns without writing the table
  again; at the next boot it is rebuilt from an index that the cut had spoilt.
* The table's block is chosen from blocks that are merely unmapped;
  `pool_erased` is set once a boot, so that a block freed since is programmed
  without an erase (with two failures).
* A second attempt to move a block that was itself a replacement writes pages
  without an index (`g_nand_spare` was overwritten in between; with two failures
  and four pool blocks).
* In mt6735's form `migrate_from_bad` never excludes the block it fails on, so that
  a block that keeps failing is tried for ever.

About the USB console:

* A reset of the bus after the configuration, between two packets of an answer,
  leaves `endpoint->last` nonzero with no packet due: `buf_to_ep` ("if the endpoint is
  idle", `usbtty.c:903`) never starts a transfer again, while `usb_configured`
  stays 1.
* `mt_usbtty_puts` waits for room in a loop that only runs the interrupts: once
  timed-out answers have filled the ring it never ends (`usbtty.c:1207-1217`).
* An answer longer than a transfer block whose flush gave up stays in the ring while
  the program waits in `usb_recv`, because a query never moves the output on; the
  host may wait for it too. No answer in the source is that long.

About endpoint 0: a host that ends a read early leaves `sent` as it was. Later answers
start behind their end and, by the unsigned difference, have no end (`cutShort` in
`AnswerIsRight` and `Enumerated`); the check that prints "something is wrong" compares
unsigned numbers and cannot fire. A SETUP that comes before the program has seen the
reset may be answered with the rest of the old answer (`early`). A host between the two
halves of a poll can make the address change before the status stage. All but the
first are mended by the host's next attempt. A reset in the middle of a read and then a
first request without a data stage that the host gives up leave `sent` in mid-answer, and
the next read begins there: `AnswerIsRight` fails for a script that begins with
SET_ADDRESS (one reset, one transfer given up). A host that begins with the device
descriptor never gets there (`AnswersRight`).

About the handshake:

* A tool that restarts just as the device times out may leave both waiting until the
  300 ms pass once more: `StartIsReached` depends on that deadline.
* Bytes of start sequences that timed out stay in the token buffer. A token's length
  of them makes an unknown token and ends the handshake, even one that was told to
  wait for ever: with `TOKEN_SZ = 2` one slip and one hasty answer are enough, with
  `TOKEN_SZ = 3` two hasty answers; the code's 8 take more of the same.
* A hasty tool that restarts after the device has answered the last byte talks to
  the command loop, which echoes it; there is no way back and no timeout.
* `RECOVERY` from the slot decision overrides any tool's mode (`main.c:1505-1520`).

About the partition table:

* A primary with a good header and bad entries makes every early lookup fail,
  although the backup is sound. `Readable` leaves such a device out, and with it
  `ReadableBoots`.
* A lookup of `para` that fails once, before a write of the metadata, damages the
  primary's entries for good; before a read, it makes slot a active. `WritesAreSafe`
  exempts boots with a failing access, so that it says only that nothing else does so.
* An answer of a failing lookup is what the caller's stack held.

About the log: the comment on the schedule says 10 times, the code multiplies by
`SCALE` = 5; a boot that writes no log still makes the next one move the mirror, so that
two such boots lose a log; a missing partition passes for a save; `format_log_buff`
clears `LOG_STORE_SIZE_MIRROR` bytes, the size of the mirror in DRAM, at the mirror's
header in SRAM, which is a few words long.

Seen while reading, outside the modules: `setup_mblock_info` of `mblock_v2.c` stores
`mblock_magic` and `mblock_version` and then clears the structure they are in (line
67); the boot tags are given the constants again by `mblock_set_mem_tag`, so that
nothing comes of it. `mt_udc_rxtxmap_recover` writes the packet sizes of IN endpoints
to RXMAP and of OUT endpoints to TXMAP; the next SET_CONFIGURATION writes both again.
Each SET_CONFIGURATION adds the sizes of all endpoints to `fifo_addr` (`usbd.c:1406`), and
only `usbdl_init` sets it back.

## 8. Not modelled, and why

* The watchdog driver, the image loader and the operations of other storage types
  under `common/partition` are sequential, keep nothing between calls, and the last
  two have no caller in the two chips; what they decide is in `AbBoot` and `Gpt`.
* RPMB turns on cryptography. The eMMC, UFS, EMI, DRAM, PMIC and clock drivers, which
  with their register tables are by far the largest part of the source, are
  register sequences whose control is a retry at most; most of their lines are
  definitions of registers. Verification of images is in libraries without source.
  The board tables are generated.
* The commands of download mode are a dialog whose other half is not in the
  repository, and most read or write one register.
* Within the modelled parts: logging and boot tags; `mblock_resize` and
  `mblock_create`, which are compiled out; ECC and TLC NAND; the contents of
  descriptors, the addresses of endpoint FIFOs and the PHY; `usbtty_getc`, `putc` and
  `tstc`, which nothing calls; the list of block devices; the header check of
  `part_load`.
