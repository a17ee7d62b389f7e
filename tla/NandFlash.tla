----------------------------- MODULE NandFlash ------------------------------
(***************************************************************************)
(* nandflash_smallblock.c, the small-block NAND flash, behind the NAND     *)
(* controller of dev_nandflash_s3c2410.c, and a driver (external code).    *)
(*                                                                         *)
(* A page is two half pages of HalfPage bytes and a spare area of Spare    *)
(* bytes; a read command chooses one of the three areas, and the program   *)
(* command that follows uses that choice.  Every access of the controller  *)
(* leaves CLE, ALE, WE and RE at their resting levels, nothing drives WP,  *)
(* and the status byte is constant, so none of them is in the model.       *)
(* Bytes are 0, 15, 240 or 255, for which And is exact.                    *)
(***************************************************************************)
EXTENDS Naturals, Sequences

CONSTANTS HalfPage,          \* 256
          Spare,             \* obbsize                                    (16)
          PagesPerBlock,     \* pagenum                                    (32)
          Blocks,            \* blocknum                                 (4096)
          RowBase,           \* values of one address byte                (256)
          IDs,               \* the four bytes of the identification
          Image,             \* the file the chip is started with
          NandBytes,         \* bytes the driver programs
          MaxCommits,        \* bound: pages programmed and blocks erased
          MaxData,           \* bound: bytes programmed by one command
          MaxReads           \* bound: bytes read by one command

PageSize == 2 * HalfPage
PageDump == PageSize + Spare
EraseSize == PageDump * PagesPerBlock
DeviceSize == EraseSize * Blocks

\* nandflash_sb_setup extends a file that is shorter than the device.
ASSUME NandAssumption ==
  /\ {HalfPage, Spare, PagesPerBlock, Blocks, RowBase} \subseteq Nat \ {0}
  /\ IDs \in [1 .. 4 -> Nat]
  /\ NandBytes \subseteq {15, 240}
  /\ Image \in [0 .. DeviceSize - 1 -> {0, 15, 240, 255}]
  /\ {MaxCommits, MaxData, MaxReads} \subseteq Nat

READ0 == 0
READ1 == 1
PAGEPROG == 16
READOOB == 80
ERASE1 == 96
STATUSCMD == 112
SEQIN == 128
READID == 144
ERASE2 == 208
RESETCMD == 255
Pointers == {READ0, READ1, READOOB}
NandCmds == Pointers \cup {PAGEPROG, ERASE1, STATUSCMD, SEQIN, READID, ERASE2, RESETCMD}

FF == 255

\* cmdstatus: how much of the address is known, or how much of the ID is read.
NOSTATUS == "none"
FINISH == "addr_finish"
AddrCycles == <<"addr_1st", "addr_2nd", "addr_3rd", "addr_4th">>
IdCycles == <<"id_1st", "id_2nd", "id_3rd", "id_4th">>

VARIABLES cells,             \* the file behind the chip
          nf,                \* struct nandflash_sb_status
          enabled,           \* S3C2410_NFCONF_EN
          job,               \* the driver: what it is doing
          commits            \* the driver: programs and erasures completed

nand == <<cells, nf, enabled, job, commits>>

FreshPage == [i \in 0 .. PageDump - 1 |-> FF]

Range0(a, len) == a .. a + len - 1

NandType ==
  /\ cells \in [0 .. DeviceSize - 1 -> {0, 15, 240, FF}]
  /\ nf.iostatus \in {"cmd", "addr", "read", "write", "status", "id", "none"}
  \* no byte is put behind the end of the write buffer
  /\ nf.iostatus = "write" => nf.pageoffset <= PageDump
  /\ nf.writebuffer \in [0 .. PageDump - 1 -> {FF} \cup NandBytes]
  /\ nf.CE \in BOOLEAN /\ enabled \in BOOLEAN

-----------------------------------------------------------------------------
(* nandflash_smallblock.c: the chip.  CE is TRUE when the pin is low. *)

\* nandflash_sb_poweron, then nandflash_s3c2410_reset.
PowerOn == [CE |-> FALSE, cmd |-> READ0, cmdstatus |-> NOSTATUS, iostatus |-> "none",
            address |-> 0, pageoffset |-> 0, writebuffer |-> FreshPage, IOPIN |-> 0]

sb_reset(s) == [s EXCEPT !.cmd = READ0, !.cmdstatus = NOSTATUS, !.iostatus = "none",
                         !.pageoffset = 0, !.writebuffer = FreshPage, !.IOPIN = 0]

And(x, y) == IF x = FF THEN y ELSE IF y = FF \/ x = y THEN x ELSE 0

\* Seeded fault: the erasure starts at the page that was addressed.
EraseBaseOfPage(address) == address - (address % PageDump)

EraseBase(address) == address - (address % EraseSize)

doerase(s, c) == [i \in DOMAIN c |->
                    IF i \in Range0(EraseBase(s.address), EraseSize) THEN FF ELSE c[i]]

finishwrite(s, c) ==
  LET base == s.address - (s.address % PageDump)
  IN [i \in DOMAIN c |-> IF i \in Range0(base, PageDump)
                           THEN And(c[i], s.writebuffer[i - base]) ELSE c[i]]

\* A byte behind the end of the page goes past the buffer: that write is not
\* modelled, and NandType says it never happens.
dodatawrite(s, byte) ==
  [s EXCEPT !.writebuffer[s.pageoffset] = byte, !.pageoffset = @ + 1]

\* Seeded fault: a read of the spare area runs into the next page's data.
NextAddressPlain(s) == s.address + 1

\* A read of the spare area goes on in the spare area of the next page.
NextAddress(s) ==
  IF (s.address + 1) % PageDump = 0 /\ s.cmd = READOOB THEN s.address + 1 + PageSize
                                                       ELSE s.address + 1

doread(s, c) ==
  IF s.address < DeviceSize THEN [s EXCEPT !.IOPIN = c[s.address], !.address = NextAddress(s)]
                            ELSE s

doreadid(s) ==
  LET k == CHOOSE i \in 1 .. 4 : IdCycles[i] = s.cmdstatus
  IN IF k = 4 THEN [s EXCEPT !.IOPIN = IDs[4], !.cmdstatus = NOSTATUS, !.iostatus = "none"]
              ELSE [s EXCEPT !.IOPIN = IDs[k], !.cmdstatus = IdCycles[k + 1]]

\* A command that an address follows, from cycle k on.
Begin(s, cmd, k, offset) ==
  [s EXCEPT !.cmd = cmd, !.cmdstatus = AddrCycles[k], !.iostatus = "addr",
            !.address = 0, !.pageoffset = offset]

\* Seeded fault: the write buffer keeps the bytes of an earlier program.
SeqinBuffer(s) == s.writebuffer

SeqinFresh(s) == FreshPage

\* nandflash_sb_docmd: the chip afterwards.  SEQIN keeps the page offset.
docmd(s, cmd) ==
  CASE cmd = READ0 -> Begin(s, cmd, 1, 0)
    [] cmd = READ1 -> Begin(s, cmd, 1, HalfPage)
    [] cmd = READOOB -> Begin(s, cmd, 1, PageSize)
    [] cmd = SEQIN -> [Begin(s, cmd, 1, s.pageoffset) EXCEPT !.writebuffer = SeqinFresh(s)]
    [] cmd = ERASE1 -> Begin(s, cmd, 2, 0)
    [] cmd = READID -> Begin(s, cmd, 4, 0)
    [] cmd = STATUSCMD -> [s EXCEPT !.cmd = cmd, !.cmdstatus = "status", !.iostatus = "status"]
    [] cmd = ERASE2 -> [s EXCEPT !.cmd = RESETCMD]         \* NAND_CMD_NONE, in eight bits
    [] cmd = PAGEPROG -> IF s.cmd = SEQIN /\ s.cmdstatus = FINISH
                           THEN [s EXCEPT !.cmd = cmd] ELSE s
    [] cmd = RESETCMD -> sb_reset(s)
    [] OTHER -> s

\* ... and the file.
docmdCells(s, cmd, c) ==
  CASE cmd = ERASE2 /\ s.cmd = ERASE1 /\ s.cmdstatus = FINISH -> doerase(s, c)
    [] cmd = PAGEPROG /\ s.cmd = SEQIN /\ s.cmdstatus = FINISH -> finishwrite(s, c)
    [] OTHER -> c

\* The shift of the k-th address byte: 9, 17 or 25 bits.
Shift(k) == CASE k = 2 -> PageSize
              [] k = 3 -> PageSize * RowBase
              [] k = 4 -> PageSize * RowBase * RowBase

\* After the fourth byte: rows * 528 + pageoffset, and what comes next.
Addressed(s) ==
  LET t == [s EXCEPT !.address = ((s.address \div PageSize) * PageDump) + s.pageoffset]
  IN CASE s.cmd \in Pointers -> [t EXCEPT !.iostatus = "read"]
       [] s.cmd = SEQIN -> [t EXCEPT !.iostatus = "write", !.cmdstatus = FINISH]
       [] s.cmd = READID -> [t EXCEPT !.iostatus = "id", !.cmdstatus = IdCycles[1]]
       [] s.cmd = ERASE1 -> [t EXCEPT !.iostatus = "cmd", !.cmdstatus = FINISH]
       [] OTHER -> t

\* nandflash_sb_doaddr.
doaddr(s, byte) ==
  CASE s.cmdstatus = "addr_1st" ->
         [s EXCEPT !.address = 0, !.pageoffset = @ + byte, !.cmdstatus = "addr_2nd"]
    [] s.cmdstatus = "addr_2nd" ->
         [s EXCEPT !.address = @ + (byte * Shift(2)), !.cmdstatus = "addr_3rd"]
    [] s.cmdstatus = "addr_3rd" ->
         [s EXCEPT !.address = @ + (byte * Shift(3)), !.cmdstatus = "addr_4th"]
    [] s.cmdstatus = "addr_4th" -> Addressed([s EXCEPT !.address = @ + (byte * Shift(4))])
    [] OTHER -> s

\* nandflash_sb_setWE, the rising edge: what the byte means depends on iostatus
\* alone.  First the chip, then the file.
setWE(s, byte) ==
  LET t == [s EXCEPT !.IOPIN = byte]
  IN CASE s.iostatus = "cmd" -> docmd(t, byte)
       [] s.iostatus = "addr" -> doaddr(t, byte)
       [] s.iostatus = "write" -> dodatawrite(t, byte)
       [] OTHER -> t

setWECells(s, byte, c) == IF s.iostatus = "cmd" THEN docmdCells(s, byte, c) ELSE c

\* nandflash_sb_sendcmd and sendaddr: raising CLE or ALE sets iostatus.
sendcmd(s, cmd) == IF s.CE THEN setWE([s EXCEPT !.iostatus = "cmd"], cmd) ELSE s
sendcmdCells(s, cmd, c) == IF s.CE THEN setWECells([s EXCEPT !.iostatus = "cmd"], cmd, c) ELSE c
sendaddr(s, byte) == IF s.CE THEN setWE([s EXCEPT !.iostatus = "addr"], byte) ELSE s
senddata(s, byte) == IF s.CE THEN setWE(s, byte) ELSE s
senddataCells(s, byte, c) == IF s.CE THEN setWECells(s, byte, c) ELSE c

\* nandflash_sb_readdata: the falling edge of RE.
readdata(s, c) ==
  CASE s.CE /\ s.iostatus = "read" -> doread(s, c)
    [] s.CE /\ s.iostatus = "id" -> doreadid(s)
    [] s.CE /\ s.iostatus = "status" -> [s EXCEPT !.IOPIN = 192, !.iostatus = "none"]
    [] OTHER -> s

setCE(s, low) == [s EXCEPT !.CE = low, !.iostatus = IF ~low /\ @ = "read" THEN "none" ELSE @]

-----------------------------------------------------------------------------
(* The driver.  It may give up a command at any point by sending another    *)
(* one, and selects, deselects and disables the chip at any time.  It sends *)
(* a read command right before SEQIN, PAGEPROG only to end a program, the   *)
(* addresses and the data each command wants, and stays in the page.        *)

NewJob(cmd, area) == [cmd |-> cmd, area |-> area, addrs |-> <<>>, data |-> <<>>, read |-> 0]

NoJob == NewJob(RESETCMD, 0)

\* Address bytes each command wants.
Wants(cmd) == CASE cmd \in Pointers \cup {SEQIN} -> 4
                [] cmd = ERASE1 -> 3
                [] cmd = READID -> 1
                [] OTHER -> 0
Complete == Len(job.addrs) = Wants(job.cmd)

AreaOf(cmd) == CASE cmd = READ0 -> 0 [] cmd = READ1 -> HalfPage [] OTHER -> PageSize

\* Where the driver's addresses point.
RowBytes(addrs) == IF Len(addrs) = 4 THEN Tail(addrs) ELSE addrs
Row(addrs) == LET r == RowBytes(addrs) IN r[1] + (RowBase * r[2]) + (RowBase * RowBase * r[3])
Start == (Row(job.addrs) * PageDump) + job.area + job.addrs[1]

\* The cell of byte k of a read.
ReadCell(k) == LET spare == job.addrs[1] + k
               IN IF job.cmd = READOOB
                    THEN ((Row(job.addrs) + (spare \div Spare)) * PageDump)
                           + PageSize + (spare % Spare)
                    ELSE Start + k

Reaches == enabled /\ nf.CE

NandInit ==
  /\ cells = Image
  /\ nf = PowerOn /\ enabled = FALSE
  /\ job = NoJob /\ commits = 0

\* nandflash_s3c2410_write_word, NFCONF.  Without EN the chip is selected.
NFCONF(en, nFCE) ==
  /\ enabled' = en
  /\ nf' = setCE(nf, ~(en /\ nFCE))
  /\ job' = IF en /\ nFCE /\ job.cmd \in Pointers THEN NoJob ELSE job
  /\ UNCHANGED <<cells, commits>>

\* A program or an erasure that the driver completes with this command.
Commits(cmd) == /\ Reaches /\ Complete
                /\ <<job.cmd, cmd>> \in {<<SEQIN, PAGEPROG>>, <<ERASE1, ERASE2>>}

NFCMD(cmd) ==
  /\ cmd = SEQIN => Reaches /\ job.cmd \in Pointers /\ job.addrs = <<>>
  /\ cmd = PAGEPROG /\ Reaches => Commits(cmd)
  /\ Commits(cmd) => commits < MaxCommits
  /\ nf' = IF enabled THEN sendcmd(nf, cmd) ELSE nf
  /\ cells' = IF enabled THEN sendcmdCells(nf, cmd, cells) ELSE cells
  /\ job' = IF Reaches THEN NewJob(cmd, IF cmd = SEQIN THEN job.area ELSE AreaOf(cmd))
                       ELSE job
  /\ commits' = IF Commits(cmd) THEN commits + 1 ELSE commits
  /\ UNCHANGED enabled

\* The byte is the column, or part of the row of a page of the device.
MayAddress(byte) ==
  LET addrs == Append(job.addrs, byte)
  IN /\ Reaches /\ ~Complete
     /\ Wants(job.cmd) = 4 /\ Len(addrs) = 1 =>
          byte < (IF job.area = PageSize THEN Spare ELSE HalfPage)
     /\ Wants(job.cmd) \in {3, 4} /\ Len(addrs) = Wants(job.cmd) =>
          Row(addrs) < PagesPerBlock * Blocks

NFADDR(byte) ==
  /\ MayAddress(byte)
  /\ nf' = sendaddr(nf, byte)
  /\ job' = [job EXCEPT !.addrs = Append(@, byte)]
  /\ UNCHANGED <<cells, enabled, commits>>

\* A byte to program; one that does not reach the chip is ignored.
NFDATA(byte) ==
  /\ job.cmd = SEQIN /\ Complete /\ Len(job.data) < MaxData
  /\ job.area + job.addrs[1] + Len(job.data) < PageDump
  /\ nf' = IF enabled THEN senddata(nf, byte) ELSE nf
  /\ cells' = IF enabled THEN senddataCells(nf, byte, cells) ELSE cells
  /\ job' = IF Reaches THEN [job EXCEPT !.data = Append(@, byte)] ELSE job
  /\ UNCHANGED <<enabled, commits>>

\* How many bytes a complete command lets the driver read.
Readable == CASE job.cmd = READID -> 4 [] job.cmd = STATUSCMD -> 1
              [] job.cmd \in Pointers -> MaxReads [] OTHER -> 0

MayRead == /\ Reaches /\ Complete /\ job.read < Readable
           /\ job.cmd \in Pointers => ReadCell(job.read) < DeviceSize

NFDATA_Read ==
  /\ MayRead
  /\ nf' = readdata(nf, cells)
  /\ job' = [job EXCEPT !.read = @ + 1]
  /\ UNCHANGED <<cells, enabled, commits>>

NandNext ==
  \/ \E en, nFCE \in BOOLEAN : NFCONF(en, nFCE)
  \/ \E cmd \in NandCmds : NFCMD(cmd)
  \/ \E byte \in 0 .. RowBase - 1 : NFADDR(byte)
  \/ \E byte \in NandBytes : NFDATA(byte)
  \/ NFDATA_Read

-----------------------------------------------------------------------------
(* Properties *)

\* What the completed command makes of the file.
Outcome ==
  IF job.cmd = ERASE1
    THEN [i \in DOMAIN cells |->
            IF i \div EraseSize = Row(job.addrs) \div PagesPerBlock THEN FF ELSE cells[i]]
    ELSE [i \in DOMAIN cells |->
            IF i \in Range0(Start, Len(job.data)) THEN And(cells[i], job.data[i - Start + 1])
                                                  ELSE cells[i]]

\* The file changes only when the driver completes a program or an erasure, and
\* then exactly as it asked: its bytes are and-ed from the area, column and row
\* it addressed, or its block is set to ones.  Commands given up halfway,
\* deselection, reads and bytes of an earlier program leave nothing behind.
NandCommitExact == [][cells' = IF commits' # commits THEN Outcome ELSE cells]_<<cells, commits>>

\* A read returns the byte the driver addressed, in the area the read command
\* chose, and a read of the spare area stays in spare areas.
NandReadExact ==
  MayRead /\ job.cmd \in Pointers => readdata(nf, cells).IOPIN = cells[ReadCell(job.read)]
=============================================================================
