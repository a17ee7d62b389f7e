----------------------------- MODULE IntelFlash -----------------------------
(***************************************************************************)
(* dev_flash_intel.c: the write state machine (WSM) of the 28F128J3A, two  *)
(* chips side by side on a 32-bit bus, written by a guest in any order.    *)
(* A word of the array is the set of its bits that are 1, so that an       *)
(* erased word is Bits and programming intersects.  Addresses count words. *)
(*                                                                         *)
(* The busy bits are set and cleared inside one write and vpen stays 1, so *)
(* nothing is ever suspended and the voltage error never occurs; reads     *)
(* change nothing.                                                         *)
(***************************************************************************)
EXTENDS Naturals, FiniteSets

CONSTANTS Bits,
          Words,             \* number of words of the array
          SectorWords,       \* FLASH_SECTOR_SIZE, in words
          BufWords,          \* INTEL_WRITEBUFFER_SIZE, in words
          WordBytes,         \* 4
          Data,              \* what the guest writes
          Written,           \* the addresses it writes to
          Cmd, Count, BitsOf \* a written word as a command, as a count of words
                             \* to load (data & 0xff) + 1, and as array contents

ASSUME FlashAssumption ==
  /\ {Words, SectorWords, BufWords, WordBytes} \subseteq Nat \ {0}
  /\ Written \subseteq 0 .. Words - 1
  /\ Words % SectorWords = 0 /\ SectorWords % BufWords = 0
  /\ Count \in [Data -> Nat \ {0}] /\ BitsOf \in [Data -> SUBSET Bits]

Addrs == 0 .. Words - 1
Sectors == 0 .. (Words \div SectorWords) - 1

VARIABLES array,             \* the words of the flash
          lock,              \* the sectors whose lock bit is set
          read_mode, wsm_mode,
          errors,            \* the error bits that are set
          pb,                \* the buffer program: [count, loaded, latch, start, buf]
          loads,             \* history: the words loaded by the command
          wild,              \* history: one of them was outside the window of
                             \* BufWords words that begins at the first
          refused            \* history: what was refused since the last CLEAR_STATUS

io   == <<lock, read_mode, wsm_mode, errors, pb>>
hist == <<loads, wild, refused>>
intel == <<array, io, hist>>

READY == "ready"
BUFFER == "write_buffer"
PROGRAM == "program"
ERASE == "block_erase"
LOCK == "lock_access"
STATUS == "status"
ARRAY == "array"

PROTECTION == "protection_error"
PROGRAM_ERROR == "program_setlb_error"
ERASE_ERROR == "erase_clearlb_error"

SECTOR(a) == a \div SectorWords
WordsOf(s) == {a \in Addrs : SECTOR(a) = s}
ISLOCKED(a) == SECTOR(a) \in lock

Blank == [i \in 0 .. BufWords - 1 |-> Bits]
Empty == [a \in {} |-> Bits]

IntelType ==
  /\ array \in [Addrs -> SUBSET Bits]
  /\ lock \subseteq Sectors
  /\ read_mode \in {ARRAY, STATUS, "id", "query"}
  /\ wsm_mode \in {READY, BUFFER, PROGRAM, ERASE, LOCK}
  /\ errors \subseteq {PROTECTION, PROGRAM_ERROR, ERASE_ERROR}
  /\ pb.loaded <= pb.count /\ {pb.latch, pb.start} \subseteq Addrs
  /\ wsm_mode = BUFFER => pb.count <= BufWords
  /\ pb.buf \in [0 .. BufWords - 1 -> SUBSET Bits]

\* flash_intel_reset, with a blank image loaded.
IntelInit ==
  /\ array = [a \in Addrs |-> Bits]
  /\ lock = {} /\ read_mode = ARRAY /\ wsm_mode = READY /\ errors = {}
  /\ pb = [count |-> 0, loaded |-> 0, latch |-> 0, start |-> 0, buf |-> Blank]
  /\ loads = Empty /\ wild = FALSE /\ refused = {}

-----------------------------------------------------------------------------
(* init_wsm: the first write of a command, at any address *)

\* Seeded fault: the buffer keeps what an earlier command loaded.
FreshBufferKept == [pb EXCEPT !.count = 0, !.loaded = 0]

FreshBuffer == [pb EXCEPT !.count = 0, !.loaded = 0, !.buf = Blank]

init_wsm(d) ==
  /\ wsm_mode = READY
  /\ \/ /\ Cmd[d] \in {ARRAY, STATUS, "id", "query"}
        /\ read_mode' = Cmd[d]
        /\ UNCHANGED <<wsm_mode, errors, pb, hist>>
     \/ /\ Cmd[d] = "clear_status"
        /\ errors' = {} /\ refused' = {}
        /\ read_mode' = ARRAY
        /\ UNCHANGED <<wsm_mode, pb, loads, wild>>
     \/ /\ Cmd[d] \in {PROGRAM, ERASE, LOCK}
        /\ wsm_mode' = Cmd[d]
        /\ UNCHANGED <<read_mode, errors, pb, hist>>
     \/ /\ Cmd[d] = BUFFER
        /\ wsm_mode' = BUFFER /\ read_mode' = STATUS
        /\ pb' = FreshBuffer
        /\ UNCHANGED <<errors, hist>>
     \/ /\ Cmd[d] \in {"confirm", "none"}     \* resume; not a command
        /\ UNCHANGED <<read_mode, wsm_mode, errors, pb, hist>>
  /\ UNCHANGED <<array, lock>>

-----------------------------------------------------------------------------
(* flash_intel_write_word, in the middle of a command *)

\* The command ends with these error bits, and what they are about.
Fail(bits, what) == /\ errors' = errors \cup bits
                    /\ refused' = refused \cup {what}
                    /\ wsm_mode' = READY
                    /\ loads' = Empty /\ wild' = FALSE
Done == /\ wsm_mode' = READY /\ UNCHANGED <<errors, refused>>
        /\ loads' = Empty /\ wild' = FALSE

\* Buffer program, step 1: the count.  The sector check adds a number of words
\* to an address in bytes.
CrossesSector(a, count) == ((WordBytes * a) + count - 1) \div (WordBytes * SectorWords) # SECTOR(a)

\* Seeded fault: a count one too large is accepted.
TooLargeByTwo(count) == count > BufWords + 1

TooLarge(count) == count > BufWords

WriteCount(a, d) ==
  /\ wsm_mode = BUFFER /\ pb.count = 0
  /\ pb' = [pb EXCEPT !.count = Count[d], !.latch = a]
  /\ IF TooLarge(Count[d]) \/ CrossesSector(a, Count[d])
       THEN Fail({PROGRAM_ERROR, ERASE_ERROR}, BUFFER)
       ELSE UNCHANGED <<wsm_mode, errors, hist>>
  /\ UNCHANGED <<array, lock, read_mode>>

\* Seeded fault: the words loaded are not counted.
LoadedUncounted(a, d) ==
  [pb EXCEPT !.buf[a % BufWords] = BitsOf[d],
             !.start = IF pb.loaded = 0 THEN a ELSE @]

Loaded(a, d) ==
  [pb EXCEPT !.buf[a % BufWords] = BitsOf[d],
             !.start = IF pb.loaded = 0 THEN a ELSE @,
             !.loaded = @ + 1]

\* Step 2: the words.
WriteLoad(a, d) ==
  /\ wsm_mode = BUFFER /\ pb.count # 0 /\ pb.loaded < pb.count
  /\ IF SECTOR(a) # SECTOR(pb.latch)
       THEN /\ Fail({PROGRAM_ERROR, ERASE_ERROR}, BUFFER)
            /\ UNCHANGED pb
       ELSE /\ pb' = Loaded(a, d)
            /\ loads' = [x \in DOMAIN loads \cup {a} |-> IF x = a THEN BitsOf[d] ELSE loads[x]]
            /\ wild' = (wild \/ ~(Loaded(a, d).start <= a /\ a < Loaded(a, d).start + BufWords))
            /\ UNCHANGED <<wsm_mode, errors, refused>>
  /\ UNCHANGED <<array, lock, read_mode>>

\* The words the confirmation programs: BufWords of them from pb.start on.
Window == pb.start .. pb.start + BufWords - 1

\* Step 3: the confirmation.
WriteConfirm(a, d) ==
  /\ wsm_mode = BUFFER /\ pb.count # 0 /\ pb.loaded = pb.count
  /\ IF Cmd[d] # "confirm"
       THEN Fail({PROGRAM_ERROR, ERASE_ERROR}, BUFFER) /\ UNCHANGED <<array, read_mode>>
       ELSE /\ read_mode' = STATUS
            /\ IF ISLOCKED(pb.latch)
                 THEN Fail({PROGRAM_ERROR, PROTECTION}, BUFFER) /\ UNCHANGED array
                 ELSE /\ array' = [x \in Addrs |-> IF x \in Window
                                                     THEN array[x] \cap pb.buf[x % BufWords]
                                                     ELSE array[x]]
                      /\ Done
  /\ UNCHANGED <<lock, pb>>

\* Seeded fault: the lock bit is not looked at.
ProgramUnlocked(a) == TRUE

ProgramAllowed(a) == ~ISLOCKED(a)

WriteProgram(a, d) ==
  /\ wsm_mode = PROGRAM
  /\ read_mode' = STATUS
  /\ IF ProgramAllowed(a)
       THEN array' = [array EXCEPT ![a] = @ \cap BitsOf[d]] /\ Done
       ELSE Fail({PROGRAM_ERROR, PROTECTION}, PROGRAM) /\ UNCHANGED array
  /\ UNCHANGED <<lock, pb>>

\* Seeded fault: an erasure starts at the address given instead of its sector.
ErasedFrom(a) == {x \in Addrs : a <= x /\ x < a + SectorWords}

Erased(a) == WordsOf(SECTOR(a))

\* Seeded fault: a refused erasure is reported as a success.
EraseErrorsNone == {}

EraseErrors == {ERASE_ERROR, PROTECTION}

\* A wrong second write ends the command and sets no error bit.
WriteErase(a, d) ==
  /\ wsm_mode = ERASE
  /\ IF Cmd[d] # "confirm"
       THEN Done /\ UNCHANGED <<array, read_mode>>
       ELSE /\ read_mode' = STATUS
            /\ IF ISLOCKED(a)
                 THEN Fail(EraseErrors, ERASE) /\ UNCHANGED array
                 ELSE /\ array' = [x \in Addrs |-> IF x \in Erased(a) THEN Bits ELSE array[x]]
                      /\ Done
  /\ UNCHANGED <<lock, pb>>

WriteLock(a, d) ==
  /\ wsm_mode = LOCK
  /\ \/ /\ Count[d] = 2                       \* data & 0xff is 0x01
        /\ lock' = lock \cup {SECTOR(a)} /\ read_mode' = STATUS
     \/ /\ Cmd[d] = "confirm"
        /\ lock' = {} /\ read_mode' = STATUS
     \/ /\ Count[d] # 2 /\ Cmd[d] # "confirm"
        /\ UNCHANGED <<lock, read_mode>>
  /\ Done
  /\ UNCHANGED <<array, pb>>

write_word(a, d) ==
  \/ WriteCount(a, d) \/ WriteLoad(a, d) \/ WriteConfirm(a, d)
  \/ WriteProgram(a, d) \/ WriteErase(a, d) \/ WriteLock(a, d)

IntelNext == \/ \E d \in Data : init_wsm(d)
             \/ \E a \in Written, d \in Data : write_word(a, d)

-----------------------------------------------------------------------------
(* Properties *)

\* A word of a locked sector never changes, whichever command the write belongs
\* to, as long as the words of a buffer program are loaded inside its window.
LockedUnchanged ==
  [][~wild => \A a \in Addrs : ISLOCKED(a) => array'[a] = array[a]]_array

\* The only steps that set a bit of the array erase one whole sector.
OnlyEraseSets ==
  [][\/ \A a \in Addrs : array'[a] \subseteq array[a]
     \/ \E s \in Sectors : array' = [a \in Addrs |-> IF a \in WordsOf(s) THEN Bits ELSE array[a]]]_array

\* A buffer program that is confirmed programs the words that were loaded, each
\* with the last data loaded for it, and no other word, even though the words go
\* through a buffer indexed by the low bits of their addresses and the whole
\* buffer is copied.
BufferExact ==
  [][wsm_mode = BUFFER /\ array' # array /\ ~wild =>
       array' = [a \in Addrs |-> IF a \in DOMAIN loads THEN array[a] \cap loads[a]
                                                       ELSE array[a]]]_array

\* What was refused can be seen in the status register until it is cleared, and
\* the register shows nothing that did not happen.
RefusalReported ==
  /\ PROGRAM_ERROR \in errors <=> {PROGRAM, BUFFER} \cap refused # {}
  /\ ERASE \in refused => ERASE_ERROR \in errors
  /\ errors # {} <=> refused # {}

\* Whatever the guest writes, a command it has started comes to an end: the write
\* state machine never waits for a write that does not bring it closer to READY.
ReadyAgain == []<>(wsm_mode = READY)
=============================================================================
