---------------------------- MODULE FlashProofs -----------------------------
(***************************************************************************)
(* Proofs about the board's flash: the Intel flash under a guest that      *)
(* writes any words to any addresses, and the small-block NAND flash under *)
(* its driver, for arrays, sectors, buffers, pages, blocks and devices of  *)
(* any size and any number of commands.                                    *)
(***************************************************************************)
EXTENDS FlashBoard, Integers, SequenceTheorems, TLAPS

-----------------------------------------------------------------------------
(* Addresses *)

\* The sector of an address of the array is a sector of the array.
LEMMA SectorType == \A a \in Addrs : SECTOR(a) \in Sectors
<1> SUFFICES ASSUME NEW a \in Addrs PROVE SECTOR(a) \in Sectors
  OBVIOUS
<1>1. Words \in Nat \ {0} /\ SectorWords \in Nat \ {0} /\ Words % SectorWords = 0
  BY FlashAssumption
<1> DEFINE q == a \div SectorWords
           n == Words \div SectorWords
<1>2. /\ a = q * SectorWords + (a % SectorWords) /\ a % SectorWords \in 0 .. SectorWords - 1
      /\ q \in Int /\ n \in Int
      /\ Words = n * SectorWords
  BY <1>1 DEF Addrs
<1>3. a \in Nat /\ a < Words
  BY <1>1 DEF Addrs
<1> HIDE DEF q, n
<1>4. 0 <= q
  BY <1>1, <1>2, <1>3
<1>5. q * SectorWords < n * SectorWords
  BY <1>1, <1>2, <1>3
<1>6. q < n
  BY <1>1, <1>2, <1>5
<1> QED BY <1>2, <1>4, <1>6 DEF Sectors, SECTOR, q, n

\* The low bits of an address tell the words of one window apart.
LEMMA WindowInjective ==
  ASSUME NEW n \in Nat \ {0}, NEW s \in Nat,
         NEW a \in s .. s + n - 1, NEW b \in s .. s + n - 1, a % n = b % n
  PROVE  a = b
<1> DEFINE p == a \div n
           q == b \div n
           r == a % n
<1>1. p \in Int /\ q \in Int /\ a = p * n + r /\ b = q * n + r /\ r \in 0 .. n - 1
  OBVIOUS
<1> HIDE DEF p, q, r
<1>2. (p - q) * n = a - b
  BY <1>1
<1>3. a - b < n /\ b - a < n
  OBVIOUS
<1>4. p - q < 1 /\ q - p < 1
  BY <1>1, <1>2, <1>3
<1>5. p = q
  BY <1>1, <1>4
<1> QED BY <1>1, <1>5

-----------------------------------------------------------------------------
(* The inductive invariant *)

PbType == [count : Nat, loaded : Nat, latch : Addrs, start : Addrs,
           buf : [0 .. BufWords - 1 -> SUBSET Bits]]

Typed == /\ array \in [Addrs -> SUBSET Bits]
         /\ lock \subseteq Sectors
         /\ read_mode \in {ARRAY, STATUS, "id", "query"}
         /\ wsm_mode \in {READY, BUFFER, PROGRAM, ERASE, LOCK}
         /\ pb \in PbType /\ pb.loaded <= pb.count
         /\ wsm_mode = BUFFER => pb.count <= BufWords
         /\ wild \in BOOLEAN

\* No words are loaded outside a buffer program, and the buffer of one is blank
\* until the first is.
Fresh == /\ wsm_mode # BUFFER \/ pb.loaded = 0 => loads = Empty /\ wild = FALSE
         /\ wsm_mode = BUFFER /\ pb.loaded = 0 => pb.buf = Blank

\* As long as the words are loaded inside the window, the buffer holds exactly
\* the words loaded, which are words of the sector whose lock bit is looked at,
\* and ones for the rest of the window.
Filled ==
  wsm_mode = BUFFER /\ pb.loaded # 0 /\ wild = FALSE =>
    /\ DOMAIN loads \subseteq Window \cap Addrs
    /\ \A a \in DOMAIN loads : SECTOR(a) = SECTOR(pb.latch) /\ pb.buf[a % BufWords] = loads[a]
    /\ \A a \in Window : a \notin DOMAIN loads => pb.buf[a % BufWords] = Bits

\* RefusalReported, and which bits and refusals there are.
Reported == /\ errors \subseteq {PROTECTION, PROGRAM_ERROR, ERASE_ERROR}
            /\ refused \subseteq {PROGRAM, BUFFER, ERASE}
            /\ RefusalReported

IntelInv == Typed /\ Fresh /\ Filled /\ Reported

-----------------------------------------------------------------------------
(* The parts of the steps that commands share *)

\* A command that ends puts the history back.
LEMMA EndsFresh ==
  ASSUME wsm_mode' = READY, loads' = Empty, wild' = FALSE
  PROVE  Fresh' /\ Filled'
BY DEF Fresh, Filled, READY, BUFFER, Empty

\* A success leaves the status register as it was.
LEMMA DoneReported ==
  ASSUME Reported, UNCHANGED <<errors, refused>>
  PROVE  Reported'
BY DEF Reported, RefusalReported

\* A refusal with the bits that belong to it is reported.
LEMMA FailReported ==
  ASSUME Reported, NEW bits, NEW what,
         \/ what = BUFFER /\ bits = {PROGRAM_ERROR, ERASE_ERROR}
         \/ what \in {BUFFER, PROGRAM} /\ bits = {PROGRAM_ERROR, PROTECTION}
         \/ what = ERASE /\ bits = {ERASE_ERROR, PROTECTION},
         Fail(bits, what)
  PROVE  Reported'
<1>1. errors' = errors \cup bits /\ refused' = refused \cup {what}
  BY DEF Fail
<1>2. bits \subseteq {PROTECTION, PROGRAM_ERROR, ERASE_ERROR} /\ bits # {}
  BY DEF PROTECTION, PROGRAM_ERROR, ERASE_ERROR
<1>3. what \in {PROGRAM, BUFFER, ERASE}
  OBVIOUS
<1>4. PROGRAM_ERROR \in errors' <=> {PROGRAM, BUFFER} \cap refused' # {}
  BY <1>1 DEF Reported, RefusalReported, PROTECTION, PROGRAM_ERROR, ERASE_ERROR, PROGRAM,
     BUFFER, ERASE
<1>5. ERASE \in refused' => ERASE_ERROR \in errors'
  BY <1>1 DEF Reported, RefusalReported, PROGRAM, BUFFER, ERASE
<1>6. errors' # {} /\ refused' # {}
  BY <1>1, <1>2
<1>7. /\ errors' \subseteq {PROTECTION, PROGRAM_ERROR, ERASE_ERROR}
      /\ refused' \subseteq {PROGRAM, BUFFER, ERASE}
  BY <1>1, <1>2, <1>3 DEF Reported
<1> QED BY <1>4, <1>5, <1>6, <1>7 DEF Reported, RefusalReported

-----------------------------------------------------------------------------
(* One lemma for each write *)

\* The reset state.
LEMMA IntelInitInv == IntelInit => IntelInv
<1> SUFFICES ASSUME IntelInit PROVE IntelInv
  OBVIOUS
<1> USE DEF IntelInit
<1>1. 0 \in Addrs
  BY FlashAssumption DEF Addrs
<1>2. pb \in PbType /\ pb.loaded = 0 /\ pb.count = 0
  <2>1. Blank \in [0 .. BufWords - 1 -> SUBSET Bits]
    BY DEF Blank
  <2> HIDE DEF IntelInit
  <2>2. pb = [count |-> 0, loaded |-> 0, latch |-> 0, start |-> 0, buf |-> Blank]
    BY DEF IntelInit
  <2> QED BY <1>1, <2>1, <2>2 DEF PbType
<1>3. Typed
  <2>1. pb.loaded <= pb.count /\ wsm_mode # BUFFER
    BY <1>2 DEF READY, BUFFER
  <2>2. /\ array \in [Addrs -> SUBSET Bits] /\ lock \subseteq Sectors
        /\ wild \in BOOLEAN
    OBVIOUS
  <2>3. read_mode = ARRAY /\ wsm_mode = READY
    OBVIOUS
  <2> HIDE DEF IntelInit
  <2> QED BY <1>2, <2>1, <2>2, <2>3 DEF Typed
<1>4. Fresh /\ Filled
  BY DEF Fresh, Filled, READY, BUFFER
<1>5. Reported
  BY DEF Reported, RefusalReported
<1> QED BY <1>3, <1>4, <1>5 DEF IntelInv

\* The first write of a command.
LEMMA CommandInv ==
  ASSUME IntelInv, NEW d \in Data, init_wsm(d)
  PROVE  IntelInv'
<1> USE DEF IntelInv
<1>0. /\ wsm_mode = READY /\ UNCHANGED <<array, lock>> /\ BufWords \in Nat \ {0}
      /\ loads = Empty /\ wild = FALSE
  BY FlashAssumption DEF init_wsm, Fresh, READY, BUFFER
<1>1. CASE Cmd[d] \in {ARRAY, STATUS, "id", "query"}
  <2>1. read_mode' = Cmd[d] /\ UNCHANGED <<wsm_mode, errors, pb, hist>>
    BY <1>1 DEF init_wsm, ARRAY, STATUS, PROGRAM, ERASE, LOCK, BUFFER
  <2>2. Typed'
    BY <1>0, <1>1, <2>1 DEF Typed, hist
  <2>3. Fresh' /\ Filled' /\ Reported'
    BY <1>0, <2>1, DoneReported DEF Fresh, Filled, hist, READY, BUFFER
  <2> QED BY <2>2, <2>3
<1>2. CASE /\ errors' = {} /\ refused' = {}
           /\ read_mode' = ARRAY
           /\ UNCHANGED <<wsm_mode, pb, loads, wild>>
  <2>1. Typed'
    BY <1>0, <1>2 DEF Typed
  <2>2. Fresh' /\ Filled'
    BY <1>0, <1>2 DEF Fresh, Filled, READY, BUFFER
  <2>3. Reported'
    BY <1>2 DEF Reported, RefusalReported
  <2> QED BY <2>1, <2>2, <2>3
<1>3. CASE /\ Cmd[d] \in {PROGRAM, ERASE, LOCK}
           /\ wsm_mode' = Cmd[d]
           /\ UNCHANGED <<read_mode, errors, pb, hist>>
  <2>1. Typed'
    BY <1>0, <1>3 DEF Typed, hist, PROGRAM, ERASE, LOCK, BUFFER
  <2>2. Fresh' /\ Filled'
    BY <1>0, <1>3 DEF Fresh, Filled, hist, PROGRAM, ERASE, LOCK, BUFFER
  <2> QED BY <1>3, <2>1, <2>2, DoneReported DEF hist
<1>4. CASE /\ wsm_mode' = BUFFER /\ read_mode' = STATUS
           /\ pb' = FreshBuffer
           /\ UNCHANGED <<errors, hist>>
  <2>1. pb' \in PbType /\ pb'.loaded = 0 /\ pb'.count = 0 /\ pb'.buf = Blank
    BY <1>4, FlashAssumption DEF Typed, PbType, FreshBuffer, Blank
  <2>2. Typed'
    BY <1>0, <1>4, <2>1 DEF Typed, hist
  <2>3. Fresh' /\ Filled'
    BY <1>0, <1>4, <2>1 DEF Fresh, Filled, hist
  <2> QED BY <1>4, <2>2, <2>3, DoneReported DEF hist
<1>5. CASE UNCHANGED <<read_mode, wsm_mode, errors, pb, hist>>
  <2>1. Typed'
    BY <1>0, <1>5 DEF Typed, hist
  <2>2. Fresh' /\ Filled'
    BY <1>0, <1>5 DEF Fresh, Filled, hist, READY, BUFFER
  <2> QED BY <1>5, <2>1, <2>2, DoneReported DEF hist
<1> QED BY <1>1, <1>2, <1>3, <1>4, <1>5 DEF init_wsm

\* The count of a buffer program.
LEMMA CountInv ==
  ASSUME IntelInv, NEW a \in Written, NEW d \in Data, WriteCount(a, d)
  PROVE  IntelInv'
<1> USE DEF IntelInv
<1>0. a \in Addrs /\ Count[d] \in Nat \ {0} /\ BufWords \in Nat \ {0}
  BY FlashAssumption DEF Addrs
<1>1. /\ wsm_mode = BUFFER /\ pb.count = 0 /\ UNCHANGED <<array, lock, read_mode>>
      /\ pb' = [pb EXCEPT !.count = Count[d], !.latch = a]
  BY DEF WriteCount
<1>2. /\ pb' \in PbType /\ pb'.count = Count[d] /\ pb'.loaded = 0 /\ pb'.buf = pb.buf
      /\ pb.loaded = 0
  <2>1. pb \in PbType /\ pb.loaded <= pb.count
    BY DEF Typed
  <2>2. pb.loaded = 0
    BY <1>1, <2>1 DEF PbType
  <2> HIDE DEF IntelInv
  <2> QED BY <1>0, <1>1, <2>1, <2>2 DEF PbType
<1>3. CASE Fail({PROGRAM_ERROR, ERASE_ERROR}, BUFFER)
  <2>2. wsm_mode' = READY /\ wild' = FALSE /\ READY # BUFFER
    BY <1>3 DEF Fail, READY, BUFFER
  <2>3. pb'.loaded <= pb'.count
    BY <1>0, <1>2
  <2>1. Typed'
    BY <1>1, <1>2, <2>2, <2>3 DEF Typed
  <2> QED BY <1>3, <2>1, EndsFresh, FailReported DEF Fail
<1>4. CASE ~TooLarge(Count[d]) /\ UNCHANGED <<wsm_mode, errors, hist>>
  <2>1. Typed'
    BY <1>0, <1>1, <1>2, <1>4 DEF Typed, TooLarge, hist
  <2>2. Fresh' /\ Filled'
    BY <1>1, <1>2, <1>4 DEF Fresh, Filled, hist
  <2> QED BY <1>4, <2>1, <2>2, DoneReported DEF hist
<1> QED BY <1>3, <1>4 DEF WriteCount

\* The types after a command that has ended.
LEMMA EndsTyped ==
  ASSUME Typed, array' \in [Addrs -> SUBSET Bits], lock' \subseteq Sectors,
         read_mode' \in {ARRAY, STATUS, "id", "query"}, wsm_mode' = READY, pb' = pb,
         wild' = FALSE
  PROVE  Typed'
<1>1. READY # BUFFER
  BY DEF READY, BUFFER
<1> QED BY <1>1 DEF Typed

\* The buffer after a word has been loaded.
LEMMA LoadedFacts ==
  ASSUME pb \in PbType, NEW a \in Addrs, NEW d \in Data
  PROVE  LET p == Loaded(a, d)
         IN  /\ p \in PbType
             /\ p.count = pb.count /\ p.loaded = pb.loaded + 1 /\ p.latch = pb.latch
             /\ p.start = (IF pb.loaded = 0 THEN a ELSE pb.start)
             /\ p.buf = [pb.buf EXCEPT ![a % BufWords] = BitsOf[d]]
             /\ a % BufWords \in 0 .. BufWords - 1
<1>1. BufWords \in Nat \ {0} /\ a \in Nat /\ BitsOf[d] \in SUBSET Bits
  BY FlashAssumption DEF Addrs
<1>2. a % BufWords \in 0 .. BufWords - 1
  BY <1>1
<1>3. [pb.buf EXCEPT ![a % BufWords] = BitsOf[d]] \in [0 .. BufWords - 1 -> SUBSET Bits]
  BY <1>1, <1>2 DEF PbType
<1> DEFINE b == [pb.buf EXCEPT ![a % BufWords] = BitsOf[d]]
           st == IF pb.loaded = 0 THEN a ELSE pb.start
<1>4. Loaded(a, d) = [pb EXCEPT !.buf = b, !.start = st, !.loaded = pb.loaded + 1]
  BY DEF Loaded, PbType
<1>5. b \in [0 .. BufWords - 1 -> SUBSET Bits] /\ st \in Addrs /\ pb.loaded + 1 \in Nat
  BY <1>3 DEF PbType
<1> HIDE DEF b, st
<1>6. /\ Loaded(a, d) \in PbType
      /\ Loaded(a, d).count = pb.count /\ Loaded(a, d).latch = pb.latch
      /\ Loaded(a, d).loaded = pb.loaded + 1 /\ Loaded(a, d).start = st /\ Loaded(a, d).buf = b
  BY <1>4, <1>5 DEF PbType
<1> QED BY <1>2, <1>6 DEF b, st

\* A word of a buffer program.
LEMMA LoadInv ==
  ASSUME IntelInv, NEW a \in Written, NEW d \in Data, WriteLoad(a, d)
  PROVE  IntelInv'
<1>0. a \in Addrs /\ BufWords \in Nat \ {0} /\ a \in Nat /\ Words \in Nat
  BY FlashAssumption DEF Addrs
<1>1. /\ wsm_mode = BUFFER /\ pb.count # 0 /\ pb.loaded < pb.count
      /\ UNCHANGED <<array, lock, read_mode>>
  BY DEF WriteLoad
<1>2. Typed /\ Fresh /\ Filled /\ Reported
  BY DEF IntelInv
<1>3. CASE Fail({PROGRAM_ERROR, ERASE_ERROR}, BUFFER) /\ UNCHANGED pb
  <2>1. wsm_mode' = READY /\ loads' = Empty /\ wild' = FALSE
    BY <1>3 DEF Fail
  <2>2. Typed'
    BY <1>1, <1>2, <1>3, <2>1, EndsTyped DEF Typed
  <2> QED BY <1>2, <1>3, <2>1, <2>2, EndsFresh, FailReported DEF IntelInv
<1>4. CASE /\ SECTOR(a) = SECTOR(pb.latch)
           /\ pb' = Loaded(a, d)
           /\ loads' = [x \in DOMAIN loads \cup {a} |-> IF x = a THEN BitsOf[d] ELSE loads[x]]
           /\ wild' = (wild \/ ~(Loaded(a, d).start <= a /\ a < Loaded(a, d).start + BufWords))
           /\ UNCHANGED <<wsm_mode, errors, refused>>
  <2>1. pb \in PbType /\ pb.loaded <= pb.count /\ pb.count <= BufWords
    BY <1>1, <1>2 DEF Typed
  <2>2. pb.loaded \in Nat /\ pb.count \in Nat /\ pb.start \in Nat
    BY <1>0, <2>1 DEF PbType, Addrs
  <2>3. /\ pb' \in PbType
        /\ pb'.count = pb.count /\ pb'.loaded = pb.loaded + 1 /\ pb'.latch = pb.latch
        /\ pb'.start = (IF pb.loaded = 0 THEN a ELSE pb.start)
        /\ pb'.buf = [pb.buf EXCEPT ![a % BufWords] = BitsOf[d]]
        /\ a % BufWords \in 0 .. BufWords - 1
    BY <1>0, <1>4, <2>1, LoadedFacts
  <2>4. Loaded(a, d).start = pb'.start
    BY <1>4
  <2>5. wild' = (wild \/ ~(pb'.start <= a /\ a < pb'.start + BufWords))
    BY <1>4, <2>4
  <2>6. Typed'
    <3>1. wild' \in BOOLEAN
      BY <2>5
    <3>2. pb'.loaded <= pb'.count /\ pb'.count <= BufWords
      BY <1>1, <2>1, <2>2, <2>3
    <3> QED BY <1>1, <1>2, <1>4, <2>3, <3>1, <3>2 DEF Typed
  <2>7. Fresh'
    BY <1>1, <1>4, <2>2, <2>3 DEF Fresh
  <2>8. Filled'
    <3> SUFFICES ASSUME wild' = FALSE
        PROVE /\ DOMAIN loads' \subseteq Window' \cap Addrs
              /\ \A x \in DOMAIN loads' : /\ SECTOR(x) = SECTOR(pb'.latch)
                                          /\ pb'.buf[x % BufWords] = loads'[x]
              /\ \A x \in Window' : x \notin DOMAIN loads' => pb'.buf[x % BufWords] = Bits
      BY DEF Filled, SECTOR
    <3>1. wild = FALSE /\ pb'.start <= a /\ a < pb'.start + BufWords
      <4>1. ~wild /\ pb'.start <= a /\ a < pb'.start + BufWords
        BY <2>5, Zenon
      <4> QED BY <1>2, <4>1 DEF Typed
    <3>2. pb'.start \in Nat /\ Window' = pb'.start .. pb'.start + BufWords - 1
      BY <1>0, <2>2, <2>3 DEF Window
    <3>3. a \in Window'
      BY <1>0, <3>1, <3>2
    <3>4. \A x \in Window' : x % BufWords = a % BufWords => x = a
      BY <1>0, <3>2, <3>3, WindowInjective
    <3>5. \A x \in Window' : x \in Nat /\ x % BufWords \in 0 .. BufWords - 1
      BY <1>0, <3>2
    <3>6. DOMAIN pb.buf = 0 .. BufWords - 1
      BY <2>1 DEF PbType
    <3>7. DOMAIN loads' = DOMAIN loads \cup {a}
      BY <1>4
    <3>8. CASE pb.loaded = 0
      <4>1. loads = Empty /\ pb.buf = Blank
        BY <1>1, <1>2, <3>8 DEF Fresh
      <4>2. DOMAIN loads' = {a} /\ loads'[a] = BitsOf[d]
        BY <1>4, <4>1 DEF Empty
      <4>3. pb'.buf[a % BufWords] = BitsOf[d]
        BY <2>3, <3>6
      <4>4. ASSUME NEW x \in Window', x # a PROVE pb'.buf[x % BufWords] = Bits
        BY <2>3, <3>4, <3>5, <3>6, <4>1, <4>4 DEF Blank
      <4> QED BY <1>0, <1>4, <2>3, <3>3, <4>2, <4>3, <4>4
    <3>9. CASE pb.loaded # 0
      <4>1. Window' = Window
        BY <1>0, <2>3, <3>2, <3>9 DEF Window
      <4>2. /\ DOMAIN loads \subseteq Window \cap Addrs
            /\ \A x \in DOMAIN loads : SECTOR(x) = SECTOR(pb.latch) /\ pb.buf[x % BufWords] = loads[x]
            /\ \A x \in Window : x \notin DOMAIN loads => pb.buf[x % BufWords] = Bits
        BY <1>1, <1>2, <3>1, <3>9 DEF Filled
      <4>3. loads'[a] = BitsOf[d] /\ \A x \in DOMAIN loads : x # a => loads'[x] = loads[x]
        BY <1>4
      <4>4. pb'.buf[a % BufWords] = BitsOf[d]
        BY <2>3, <3>6
      <4>5. \A x \in Window' : x # a => pb'.buf[x % BufWords] = pb.buf[x % BufWords]
        BY <2>3, <3>4, <3>5, <3>6
      <4>6. ASSUME NEW x \in DOMAIN loads'
            PROVE  SECTOR(x) = SECTOR(pb'.latch) /\ pb'.buf[x % BufWords] = loads'[x]
        BY <1>4, <2>3, <3>7, <4>1, <4>2, <4>3, <4>4, <4>5
      <4>7. ASSUME NEW x \in Window', x \notin DOMAIN loads' PROVE pb'.buf[x % BufWords] = Bits
        BY <3>7, <4>1, <4>2, <4>5, <4>7
      <4> QED BY <1>0, <3>3, <3>7, <4>1, <4>2, <4>6, <4>7
    <3> QED BY <3>8, <3>9
  <2> QED BY <1>2, <1>4, <2>6, <2>7, <2>8, DoneReported DEF IntelInv
<1> QED BY <1>3, <1>4 DEF WriteLoad

\* What a confirmed buffer program does to the array: each word of the window is
\* and-ed with its word of the buffer.
Merged == [x \in Addrs |-> IF x \in Window THEN array[x] \cap pb.buf[x % BufWords] ELSE array[x]]

\* It does not leave the types.
LEMMA MergedType ==
  ASSUME Typed
  PROVE  Merged \in [Addrs -> SUBSET Bits] /\ \A x \in Addrs : Merged[x] \subseteq array[x]
BY DEF Typed, Merged

\* The confirmation of a buffer program.
LEMMA ConfirmInv ==
  ASSUME IntelInv, NEW a \in Written, NEW d \in Data, WriteConfirm(a, d)
  PROVE  IntelInv' /\ (array' = array \/ (array' = Merged /\ ~ISLOCKED(pb.latch)))
<1>1. Typed /\ Reported /\ UNCHANGED <<lock, pb>>
  BY DEF IntelInv, WriteConfirm
<1>2. /\ array' = array \/ (array' = Merged /\ ~ISLOCKED(pb.latch))
      /\ read_mode' \in {read_mode, STATUS}
      /\ \/ Fail({PROGRAM_ERROR, ERASE_ERROR}, BUFFER)
         \/ Fail({PROGRAM_ERROR, PROTECTION}, BUFFER)
         \/ Done
  <2>1. CASE Cmd[d] # "confirm"
    BY <2>1 DEF WriteConfirm
  <2>2. CASE Cmd[d] = "confirm" /\ ISLOCKED(pb.latch)
    <3>1. read_mode' = STATUS
      BY <2>2 DEF WriteConfirm
    <3>2. Fail({PROGRAM_ERROR, PROTECTION}, BUFFER) /\ array' = array
      BY <2>2 DEF WriteConfirm
    <3> QED BY <3>1, <3>2
  <2>3. CASE Cmd[d] = "confirm" /\ ~ISLOCKED(pb.latch)
    <3>1. read_mode' = STATUS
      BY <2>3 DEF WriteConfirm
    <3>2. array' = Merged /\ Done
      BY <2>3 DEF WriteConfirm, Merged
    <3> QED BY <2>3, <3>1, <3>2
  <2> QED BY <2>1, <2>2, <2>3
<1>3. wsm_mode' = READY /\ loads' = Empty /\ wild' = FALSE
  BY <1>2 DEF Fail, Done
<1>4. Typed'
  <2>1. read_mode' \in {ARRAY, STATUS, "id", "query"} /\ lock' \subseteq Sectors
    BY <1>1, <1>2 DEF Typed
  <2>2. array' \in [Addrs -> SUBSET Bits]
    BY <1>1, <1>2, MergedType DEF Typed
  <2> QED BY <1>1, <1>3, <2>1, <2>2, EndsTyped
<1>5. Reported'
  <2>1. CASE Fail({PROGRAM_ERROR, ERASE_ERROR}, BUFFER)
    BY <1>1, <2>1, FailReported
  <2>2. CASE Fail({PROGRAM_ERROR, PROTECTION}, BUFFER)
    BY <1>1, <2>2, FailReported
  <2>3. CASE Done
    BY <1>1, <2>3, DoneReported DEF Done
  <2> QED BY <1>2, <2>1, <2>2, <2>3
<1> QED BY <1>2, <1>3, <1>4, <1>5, EndsFresh DEF IntelInv

\* The second write of a word program.
LEMMA ProgramInv ==
  ASSUME IntelInv, NEW a \in Written, NEW d \in Data, WriteProgram(a, d)
  PROVE  /\ IntelInv'
         /\ array' = array \/ (array' = [array EXCEPT ![a] = @ \cap BitsOf[d]] /\ ~ISLOCKED(a))
<1>1. Typed /\ Reported /\ UNCHANGED <<lock, pb>> /\ read_mode' = STATUS
  BY DEF IntelInv, WriteProgram
<1>2. /\ array' = array \/ (array' = [array EXCEPT ![a] = @ \cap BitsOf[d]] /\ ~ISLOCKED(a))
      /\ Fail({PROGRAM_ERROR, PROTECTION}, PROGRAM) \/ Done
  <2>1. CASE ISLOCKED(a)
    BY <2>1 DEF WriteProgram, ProgramAllowed
  <2>2. CASE ~ISLOCKED(a)
    BY <2>2 DEF WriteProgram, ProgramAllowed
  <2> QED BY <2>1, <2>2
<1>3. wsm_mode' = READY /\ loads' = Empty /\ wild' = FALSE
  BY <1>2 DEF Fail, Done
<1>4. Typed'
  <2>1. array' \in [Addrs -> SUBSET Bits]
    BY <1>1, <1>2 DEF Typed
  <2>2. lock' \subseteq Sectors
    BY <1>1 DEF Typed
  <2> QED BY <1>1, <1>3, <2>1, <2>2, EndsTyped
<1>5. Reported'
  <2>1. CASE Fail({PROGRAM_ERROR, PROTECTION}, PROGRAM)
    BY <1>1, <2>1, FailReported
  <2>2. CASE Done
    BY <1>1, <2>2, DoneReported DEF Done
  <2> QED BY <1>2, <2>1, <2>2
<1> QED BY <1>2, <1>3, <1>4, <1>5, EndsFresh DEF IntelInv

\* The array with one sector erased.
ErasedArray(s) == [x \in Addrs |-> IF x \in WordsOf(s) THEN Bits ELSE array[x]]

\* The second write of an erasure.
LEMMA EraseInv ==
  ASSUME IntelInv, NEW a \in Written, NEW d \in Data, WriteErase(a, d)
  PROVE  IntelInv' /\ (array' = array \/ (array' = ErasedArray(SECTOR(a)) /\ ~ISLOCKED(a)))
<1>1. Typed /\ Reported /\ UNCHANGED <<lock, pb>>
  BY DEF IntelInv, WriteErase
<1>2. /\ array' = array \/ (array' = ErasedArray(SECTOR(a)) /\ ~ISLOCKED(a))
      /\ read_mode' \in {read_mode, STATUS}
      /\ Fail({ERASE_ERROR, PROTECTION}, ERASE) \/ Done
  <2>1. CASE Cmd[d] # "confirm"
    BY <2>1 DEF WriteErase
  <2>2. CASE Cmd[d] = "confirm" /\ ISLOCKED(a)
    BY <2>2 DEF WriteErase, EraseErrors
  <2>3. CASE Cmd[d] = "confirm" /\ ~ISLOCKED(a)
    BY <2>3 DEF WriteErase, Erased, ErasedArray
  <2> QED BY <2>1, <2>2, <2>3
<1>3. wsm_mode' = READY /\ loads' = Empty /\ wild' = FALSE
  BY <1>2 DEF Fail, Done
<1>4. Typed'
  <2>1. read_mode' \in {ARRAY, STATUS, "id", "query"} /\ lock' \subseteq Sectors
    BY <1>1, <1>2 DEF Typed
  <2>2. array' \in [Addrs -> SUBSET Bits]
    BY <1>1, <1>2 DEF Typed, ErasedArray
  <2> QED BY <1>1, <1>3, <2>1, <2>2, EndsTyped
<1>5. Reported'
  <2>1. CASE Fail({ERASE_ERROR, PROTECTION}, ERASE)
    BY <1>1, <2>1, FailReported
  <2>2. CASE Done
    BY <1>1, <2>2, DoneReported DEF Done
  <2> QED BY <1>2, <2>1, <2>2
<1> QED BY <1>2, <1>3, <1>4, <1>5, EndsFresh DEF IntelInv

\* The second write of a lock command.
LEMMA LockInv ==
  ASSUME IntelInv, NEW a \in Written, NEW d \in Data, WriteLock(a, d)
  PROVE  IntelInv' /\ array' = array
<1>1. Typed /\ Reported /\ UNCHANGED <<array, pb>> /\ Done
  BY DEF IntelInv, WriteLock
<1>2. a \in Addrs
  BY FlashAssumption DEF Addrs
<1>3. lock' \subseteq Sectors /\ read_mode' \in {ARRAY, STATUS, "id", "query"}
  BY <1>1, <1>2, SectorType DEF WriteLock, Typed
<1>4. wsm_mode' = READY /\ loads' = Empty /\ wild' = FALSE /\ UNCHANGED <<errors, refused>>
  BY <1>1 DEF Done
<1>5. Typed'
  BY <1>1, <1>3, <1>4, EndsTyped DEF Typed
<1> QED BY <1>1, <1>4, <1>5, EndsFresh, DoneReported DEF IntelInv

-----------------------------------------------------------------------------
(* The board *)

\* A step of the board in which the Intel flash does nothing.
LEMMA IntelQuiet == IntelInv /\ UNCHANGED intel => IntelInv'
<1> SUFFICES ASSUME IntelInv, UNCHANGED intel PROVE IntelInv'
  OBVIOUS
<1>1. Typed' /\ Fresh'
  BY DEF IntelInv, Typed, Fresh, intel, io, hist
<1>2. Filled'
  BY DEF IntelInv, Filled, Window, SECTOR, intel, io, hist
<1> QED BY <1>1, <1>2, DoneReported DEF IntelInv, intel, io, hist

\* Every write keeps the invariant, and those that change the array do one of
\* three things to it, never to a sector that was found locked.
LEMMA IntelStep ==
  ASSUME IntelInv, [Next]_vars
  PROVE  /\ IntelInv'
         /\ \/ array' = array
            \/ /\ array' = Merged /\ ~ISLOCKED(pb.latch)
               /\ wsm_mode = BUFFER /\ pb.loaded # 0
            \/ \E a \in Written, d \in Data :
                 /\ array' = [array EXCEPT ![a] = @ \cap BitsOf[d]] /\ ~ISLOCKED(a)
                 /\ wsm_mode = PROGRAM
            \/ \E a \in Written :
                 /\ array' = ErasedArray(SECTOR(a)) /\ ~ISLOCKED(a)
                 /\ wsm_mode = ERASE
<1>1. CASE UNCHANGED intel
  BY <1>1, IntelQuiet DEF intel
<1>2. ASSUME NEW d \in Data, init_wsm(d) PROVE IntelInv' /\ array' = array
  BY <1>2, CommandInv DEF init_wsm
<1>3. ASSUME NEW a \in Written, NEW d \in Data, WriteCount(a, d) \/ WriteLoad(a, d) \/ WriteLock(a, d)
      PROVE  IntelInv' /\ array' = array
  BY <1>3, CountInv, LoadInv, LockInv DEF WriteCount, WriteLoad
<1>4. ASSUME NEW a \in Written, NEW d \in Data, WriteConfirm(a, d)
      PROVE  wsm_mode = BUFFER /\ pb.loaded # 0
  BY <1>4 DEF WriteConfirm
<1>5. ASSUME NEW a \in Written, NEW d \in Data
      PROVE  (WriteProgram(a, d) => wsm_mode = PROGRAM) /\ (WriteErase(a, d) => wsm_mode = ERASE)
  BY DEF WriteProgram, WriteErase
<1>6. CASE IntelNext
  <2>1. CASE \E d \in Data : init_wsm(d)
    BY <1>2, <2>1
  <2>2. ASSUME NEW a \in Written, NEW d \in Data, write_word(a, d)
        PROVE  /\ IntelInv'
               /\ \/ array' = array
                  \/ /\ array' = Merged /\ ~ISLOCKED(pb.latch)
                     /\ wsm_mode = BUFFER /\ pb.loaded # 0
                  \/ /\ array' = [array EXCEPT ![a] = @ \cap BitsOf[d]] /\ ~ISLOCKED(a)
                     /\ wsm_mode = PROGRAM
                  \/ /\ array' = ErasedArray(SECTOR(a)) /\ ~ISLOCKED(a)
                     /\ wsm_mode = ERASE
    BY <1>3, <1>4, <1>5, <2>2, ConfirmInv, ProgramInv, EraseInv DEF write_word
  <2> QED BY <1>6, <2>1, <2>2 DEF IntelNext
<1>7. IntelNext \/ UNCHANGED intel
  BY DEF Next, vars
<1> QED BY <1>1, <1>6, <1>7

\* What the invariant says of a confirmed program: the array receives the words
\* that were loaded and nothing else.
LEMMA MergedExact ==
  ASSUME IntelInv, wsm_mode = BUFFER, pb.loaded # 0, ~wild
  PROVE  /\ Merged = [a \in Addrs |-> IF a \in DOMAIN loads THEN array[a] \cap loads[a]
                                                            ELSE array[a]]
         /\ \A a \in DOMAIN loads : SECTOR(a) = SECTOR(pb.latch)
<1>1. wild = FALSE /\ Typed
  BY DEF IntelInv, Typed
<1>2. /\ DOMAIN loads \subseteq Window \cap Addrs
      /\ \A a \in DOMAIN loads : SECTOR(a) = SECTOR(pb.latch) /\ pb.buf[a % BufWords] = loads[a]
      /\ \A a \in Window : a \notin DOMAIN loads => pb.buf[a % BufWords] = Bits
  BY <1>1 DEF IntelInv, Filled
<1>3. ASSUME NEW a \in Addrs
      PROVE  Merged[a] = IF a \in DOMAIN loads THEN array[a] \cap loads[a] ELSE array[a]
  <2>1. Merged[a] = IF a \in Window THEN array[a] \cap pb.buf[a % BufWords] ELSE array[a]
    BY DEF Merged
  <2>2. array[a] \cap Bits = array[a]
    BY <1>1 DEF Typed
  <2> QED BY <1>2, <2>1, <2>2
<1>4. Merged = [a \in Addrs |-> Merged[a]]
  BY DEF Merged
<1> QED BY <1>2, <1>3, <1>4

-----------------------------------------------------------------------------
(* Results *)

\* The invariant holds in every reachable state.
LEMMA IntelInvariance == Spec => []IntelInv
<1>1. Init => IntelInv
  BY IntelInitInv DEF Init
<1>2. IntelInv /\ [Next]_vars => IntelInv'
  BY IntelStep
<1> QED BY <1>1, <1>2, PTL DEF Spec

\* Types of the Intel flash; the buffer program never loads more words than were
\* announced, nor more than the buffer has.
THEOREM IntelTypeCorrect == Spec => []IntelType
<1>1. IntelInv => IntelType
  BY DEF IntelInv, Typed, Reported, PbType, IntelType
<1> QED BY <1>1, IntelInvariance, PTL

\* What was refused can be seen in the status register until it is cleared, and
\* the register shows nothing that did not happen.
THEOREM RefusalCorrect == Spec => []RefusalReported
<1>1. IntelInv => RefusalReported
  BY DEF IntelInv, Reported
<1> QED BY <1>1, IntelInvariance, PTL

\* No write changes a word of a locked sector, unless it ends a buffer program
\* whose words were loaded outside its window.
THEOREM LockCorrect == Spec => LockedUnchanged
<1>1. IntelInv /\ [Next]_vars =>
        [~wild => \A a \in Addrs : ISLOCKED(a) => array'[a] = array[a]]_array
  <2> SUFFICES ASSUME IntelInv, [Next]_vars, array' # array, ~wild,
                      NEW a \in Addrs, ISLOCKED(a)
               PROVE  array'[a] = array[a]
    OBVIOUS
  <2>1. CASE array' = Merged /\ ~ISLOCKED(pb.latch) /\ wsm_mode = BUFFER /\ pb.loaded # 0
    <3>1. a \notin DOMAIN loads
      BY <2>1, MergedExact DEF ISLOCKED
    <3> QED BY <2>1, <3>1, MergedExact
  <2>2. ASSUME NEW w \in Written, NEW d \in Data,
               array' = [array EXCEPT ![w] = @ \cap BitsOf[d]], ~ISLOCKED(w)
        PROVE  array'[a] = array[a]
    BY <2>2 DEF IntelInv, Typed
  <2>3. ASSUME NEW w \in Written, array' = ErasedArray(SECTOR(w)), ~ISLOCKED(w)
        PROVE  array'[a] = array[a]
    BY <2>3 DEF ErasedArray, WordsOf, ISLOCKED
  <2> QED BY <2>1, <2>2, <2>3, IntelStep
<1> QED BY <1>1, IntelInvariance, PTL DEF Spec, LockedUnchanged

\* Only the erasure of one whole sector sets bits.
THEOREM EraseCorrect == Spec => OnlyEraseSets
<1>1. IntelInv /\ [Next]_vars =>
        [\/ \A a \in Addrs : array'[a] \subseteq array[a]
         \/ \E s \in Sectors :
              array' = [a \in Addrs |-> IF a \in WordsOf(s) THEN Bits ELSE array[a]]]_array
  <2> SUFFICES ASSUME IntelInv, [Next]_vars, array' # array
               PROVE  \/ \A a \in Addrs : array'[a] \subseteq array[a]
                      \/ \E s \in Sectors : array' = ErasedArray(s)
    BY DEF ErasedArray
  <2>1. CASE array' = Merged
    BY <2>1, MergedType DEF IntelInv
  <2>2. ASSUME NEW w \in Written, NEW d \in Data,
               array' = [array EXCEPT ![w] = @ \cap BitsOf[d]]
        PROVE  \A a \in Addrs : array'[a] \subseteq array[a]
    BY <2>2 DEF IntelInv, Typed
  <2>3. ASSUME NEW w \in Written, array' = ErasedArray(SECTOR(w))
        PROVE  \E s \in Sectors : array' = ErasedArray(s)
    <3>1. w \in Addrs
      BY FlashAssumption DEF Addrs
    <3> QED BY <2>3, <3>1, SectorType
  <2> QED BY <2>1, <2>2, <2>3, IntelStep
<1> QED BY <1>1, IntelInvariance, PTL DEF Spec, OnlyEraseSets

\* A confirmed buffer program programs the words that were loaded, each with the
\* last data loaded for it, and no other word.
THEOREM BufferCorrect == Spec => BufferExact
<1>1. IntelInv /\ [Next]_vars =>
        [wsm_mode = BUFFER /\ array' # array /\ ~wild =>
           array' = [a \in Addrs |-> IF a \in DOMAIN loads THEN array[a] \cap loads[a]
                                                           ELSE array[a]]]_array
  <2> SUFFICES ASSUME IntelInv, [Next]_vars, wsm_mode = BUFFER, array' # array, ~wild
               PROVE  array' = [a \in Addrs |-> IF a \in DOMAIN loads
                                                  THEN array[a] \cap loads[a] ELSE array[a]]
    OBVIOUS
  <2>1. array' = Merged /\ pb.loaded # 0
    BY IntelStep DEF BUFFER, PROGRAM, ERASE
  <2> QED BY <2>1, MergedExact
<1> QED BY <1>1, IntelInvariance, PTL DEF Spec, BufferExact

-----------------------------------------------------------------------------
(* The inductive invariant: what chip and driver agree on *)

IoStates == {"cmd", "addr", "read", "write", "status", "id", "none"}

CmdStates == {NOSTATUS, FINISH, "status", "addr_1st", "addr_2nd", "addr_3rd", "addr_4th",
              "id_1st", "id_2nd", "id_3rd", "id_4th"}

NfType == [CE : BOOLEAN, cmd : NandCmds, cmdstatus : CmdStates, iostatus : IoStates,
           address : Nat, pageoffset : Nat,
           writebuffer : [0 .. PageDump - 1 -> {FF} \cup NandBytes], IOPIN : Nat]

JobType == [cmd : NandCmds, area : {0, HalfPage, PageSize},
            addrs : Seq(0 .. RowBase - 1), data : Seq(NandBytes), read : Nat]

\* The commands of job j, a record of JobType: the address bytes it has sent so
\* far make a row and a column, the missing ones counted as 0.
Addressing == Pointers \cup {SEQIN, ERASE1}
ByteAt(a, i) == IF i <= Len(a) THEN a[i] ELSE 0
Cycles(j) == IF j.cmd = ERASE1 THEN Len(j.addrs) + 1 ELSE Len(j.addrs)
RowByte(j, n) == ByteAt(j.addrs, IF j.cmd = ERASE1 THEN n ELSE n + 1)
RowOf(j) == RowByte(j, 1) + RowBase * RowByte(j, 2) + RowBase * RowBase * RowByte(j, 3)
Column(j) == IF j.cmd = ERASE1 THEN 0 ELSE j.area + ByteAt(j.addrs, 1)
StartOf(j) == RowOf(j) * PageDump + Column(j)
SpareCell(row, c) == (row + (c \div Spare)) * PageDump + PageSize + (c % Spare)
CellOf(j, k) == IF j.cmd = READOOB THEN SpareCell(RowOf(j), ByteAt(j.addrs, 1) + k)
                                   ELSE StartOf(j) + k

\* The driver sends no more addresses than the command wants, reads nothing
\* before the last one, and its column lies in the area of the page it chose.
Fits(j) == /\ Len(j.addrs) <= Wants(j.cmd)
           /\ Len(j.addrs) # Wants(j.cmd) => j.read = 0
           /\ j.cmd \in Pointers => j.area = AreaOf(j.cmd)
           /\ j.cmd \in Pointers \cup {SEQIN} =>
                ByteAt(j.addrs, 1) < (IF j.area = PageSize THEN Spare ELSE HalfPage)

\* A chip s in its address cycles has the row and the column of the driver.
Sent(s, j) == j.cmd \in Addressing =>
                /\ s.cmd = j.cmd
                /\ Cycles(j) < 4 => /\ s.cmdstatus = AddrCycles[Cycles(j) + 1]
                                    /\ s.address = PageSize * RowOf(j)
                                    /\ s.pageoffset = Column(j)
                                    /\ s.iostatus = "addr"

\* The chip is ready to program or to erase only if the driver asked for it.
Unarmed(s, j) == j.cmd \notin {SEQIN, ERASE1} =>
                   s.cmd \notin {SEQIN, ERASE1} /\ s.iostatus # "write"

\* Chip and driver after the last address byte of each command.
Erasing(s, j) == j.cmd = ERASE1 /\ Cycles(j) = 4 =>
                   s.cmdstatus = FINISH /\ s.address = StartOf(j) /\ s.iostatus = "cmd"
Reading(s, j) == j.cmd \in Pointers /\ Cycles(j) = 4 =>
                   s.iostatus = "read" /\ s.address = CellOf(j, j.read)
Naming(s, j) == j.cmd = READID =>
                 /\ s.cmd = READID
                 /\ Len(j.addrs) = 0 => s.cmdstatus = "addr_4th"
                 /\ Len(j.addrs) = 1 /\ j.read < 4 =>
                      s.iostatus = "id" /\ s.cmdstatus = IdCycles[j.read + 1]
Reporting(s, j) == j.cmd = STATUSCMD => s.iostatus \in {"status", "none"}
Placed(s, j) == j.cmd = SEQIN /\ Cycles(j) = 4 =>
                  /\ s.cmdstatus = FINISH /\ s.iostatus = "write"
                  /\ s.address = StartOf(j)
                  /\ s.pageoffset = Column(j) + Len(j.data)
                  /\ s.pageoffset <= PageDump

\* The write buffer holds the bytes of this program where the driver put them,
\* and nothing of an earlier one.
Buffered(s, j) ==
  j.cmd = SEQIN =>
    /\ Cycles(j) < 4 => Len(j.data) = 0
    /\ \A i \in 0 .. PageDump - 1 :
          s.writebuffer[i] = IF i \in Range0(Column(j), Len(j.data))
                               THEN j.data[i - Column(j) + 1] ELSE FF

Linked(s, j) == /\ Fits(j) /\ Sent(s, j) /\ Unarmed(s, j) /\ Erasing(s, j)
                /\ Reading(s, j) /\ Naming(s, j) /\ Reporting(s, j)
                /\ Placed(s, j) /\ Buffered(s, j)

Cells == [0 .. DeviceSize - 1 -> {0, 15, 240, FF}]

NandInv == /\ cells \in Cells
           /\ nf \in NfType
           /\ enabled \in BOOLEAN
           /\ job \in JobType
           /\ commits \in Nat
           /\ Linked(nf, job)

-----------------------------------------------------------------------------
(* Sizes, rows and columns *)

\* All sizes are positive.
LEMMA Sizes ==
  /\ HalfPage \in Nat \ {0} /\ Spare \in Nat \ {0} /\ RowBase \in Nat \ {0}
  /\ PagesPerBlock \in Nat \ {0} /\ Blocks \in Nat \ {0}
  /\ PageSize \in Nat \ {0} /\ PageDump \in Nat \ {0} /\ EraseSize \in Nat \ {0}
<1>1. /\ HalfPage \in Nat \ {0} /\ Spare \in Nat \ {0} /\ RowBase \in Nat \ {0}
      /\ PagesPerBlock \in Nat \ {0} /\ Blocks \in Nat \ {0}
  BY NandAssumption
<1>2. PageSize \in Nat \ {0}
  BY <1>1 DEF PageSize
<1>3. PageDump \in Nat \ {0}
  BY <1>1, <1>2 DEF PageDump
<1>4. EraseSize \in Nat \ {0}
  BY <1>1, <1>3 DEF EraseSize
<1> QED BY <1>1, <1>2, <1>3, <1>4

\* An address byte is a byte, and one more is one more.
LEMMA ByteFacts ==
  ASSUME NEW a \in Seq(0 .. RowBase - 1)
  PROVE  /\ \A i \in Nat \ {0} : ByteAt(a, i) \in Nat
         /\ \A b \in 0 .. RowBase - 1, i \in Nat \ {0} :
              ByteAt(Append(a, b), i) = IF i = Len(a) + 1 THEN b ELSE ByteAt(a, i)
<1>1. Len(a) \in Nat /\ \A i \in 1 .. Len(a) : a[i] \in Nat
  <2>1. Len(a) \in Nat /\ \A i \in 1 .. Len(a) : a[i] \in 0 .. RowBase - 1
    BY LenProperties, ElementOfSeq
  <2> QED BY <2>1, Sizes
<1>2. ASSUME NEW i \in Nat \ {0} PROVE ByteAt(a, i) \in Nat
  BY <1>1 DEF ByteAt
<1>3. ASSUME NEW b \in 0 .. RowBase - 1, NEW i \in Nat \ {0}
      PROVE  ByteAt(Append(a, b), i) = IF i = Len(a) + 1 THEN b ELSE ByteAt(a, i)
  <2>1. /\ Len(Append(a, b)) = Len(a) + 1
        /\ \A k \in 1 .. Len(a) : Append(a, b)[k] = a[k]
        /\ Append(a, b)[Len(a) + 1] = b
    BY AppendProperties
  <2>2. CASE i <= Len(a)
    BY <1>1, <2>1, <2>2 DEF ByteAt
  <2>3. CASE i = Len(a) + 1
    BY <1>1, <2>1, <2>3 DEF ByteAt
  <2>4. CASE i > Len(a) + 1
    BY <1>1, <2>1, <2>4 DEF ByteAt
  <2> QED BY <1>1, <2>2, <2>3, <2>4
<1> QED BY <1>2, <1>3

\* Rows and columns are naturals.
LEMMA RowType ==
  ASSUME NEW j \in JobType
  PROVE  /\ \A n \in Nat \ {0} : RowByte(j, n) \in Nat
         /\ RowOf(j) \in Nat /\ Column(j) \in Nat
         /\ Len(j.addrs) \in Nat /\ Cycles(j) \in Nat /\ StartOf(j) \in Nat
<1>1. /\ j.addrs \in Seq(0 .. RowBase - 1) /\ j.area \in Nat
  BY Sizes DEF JobType
<1>2. ASSUME NEW n \in Nat \ {0} PROVE RowByte(j, n) \in Nat
  <2>1. n + 1 \in Nat \ {0}
    OBVIOUS
  <2> QED BY <1>1, <2>1, ByteFacts DEF RowByte
<1>3. RowOf(j) \in Nat
  <2>1. RowByte(j, 1) \in Nat /\ RowByte(j, 2) \in Nat /\ RowByte(j, 3) \in Nat
    BY <1>2
  <2> QED BY <2>1, Sizes DEF RowOf
<1>4. Column(j) \in Nat
  <2>1. ByteAt(j.addrs, 1) \in Nat
    BY <1>1, ByteFacts
  <2> QED BY <1>1, <2>1 DEF Column
<1>5. Len(j.addrs) \in Nat
  BY <1>1, LenProperties
<1>6. StartOf(j) \in Nat
  BY <1>3, <1>4, Sizes DEF StartOf
<1> QED BY <1>2, <1>3, <1>4, <1>5, <1>6 DEF Cycles

\* A command that wants another address byte has had three at most.
LEMMA FewCycles ==
  ASSUME NEW j \in JobType, Cycles(j) < 4
  PROVE  Cycles(j) \in {0, 1, 2, 3}
<1> DEFINE n == Cycles(j)
<1>1. n \in Nat
  BY RowType, Zenon
<1>2. n < 4
  OBVIOUS
<1> HIDE DEF n
<1>3. n \in {0, 1, 2, 3}
  BY <1>1, <1>2
<1> QED BY <1>3 DEF n

\* What the driver means by the addresses of a complete command.
LEMMA RowMeant ==
  ASSUME NEW j \in JobType, j.cmd \in Addressing, Cycles(j) = 4
  PROVE  /\ Row(j.addrs) = RowOf(j)
         /\ j.cmd # ERASE1 => ByteAt(j.addrs, 1) = j.addrs[1]
<1> DEFINE a == j.addrs
<1>1. a \in Seq(0 .. RowBase - 1) /\ Len(a) \in Nat
  BY LenProperties DEF JobType
<1>2. CASE j.cmd = ERASE1
  <2>0. Len(a) + 1 = 4 /\ Len(a) \in Nat
    BY <1>1, <1>2 DEF Cycles
  <2>1. Len(a) = 3
    <3> DEFINE n == Len(a)
    <3> HIDE DEF n
    <3>1. n + 1 = 4 /\ n \in Nat
      BY <2>0 DEF n
    <3>2. n = 3
      BY <3>1
    <3> QED BY <3>2 DEF n
  <2>2. Row(a) = a[1] + (RowBase * a[2]) + (RowBase * RowBase * a[3])
    BY <2>1 DEF Row, RowBytes
  <2>3. RowByte(j, 1) = a[1] /\ RowByte(j, 2) = a[2] /\ RowByte(j, 3) = a[3]
    BY <1>2, <2>1 DEF RowByte, ByteAt
  <2> QED BY <1>2, <2>2, <2>3 DEF RowOf
<1>3. CASE j.cmd # ERASE1
  <2>1. Len(a) = 4
    BY <1>1, <1>3 DEF Cycles
  <2>2. a # <<>>
    BY <2>1, EmptySeq
  <2>3. Len(Tail(a)) = 3 /\ \A i \in 1 .. 3 : Tail(a)[i] = a[i + 1]
    BY <1>1, <2>1, <2>2, HeadTailProperties
  <2>4. Tail(a)[1] = a[2] /\ Tail(a)[2] = a[3] /\ Tail(a)[3] = a[4]
    BY <2>3
  <2>5. Row(a) = a[2] + (RowBase * a[3]) + (RowBase * RowBase * a[4])
    BY <2>1, <2>4 DEF Row, RowBytes
  <2>6. RowByte(j, 1) = a[2] /\ RowByte(j, 2) = a[3] /\ RowByte(j, 3) = a[4]
    BY <1>3, <2>1 DEF RowByte, ByteAt
  <2>7. ByteAt(a, 1) = a[1]
    BY <2>1 DEF ByteAt
  <2> QED BY <2>5, <2>6, <2>7 DEF RowOf
<1> QED BY <1>2, <1>3

\* A job without addresses is at row 0 and at the start of its area.
LEMMA FreshJob ==
  ASSUME NEW j \in JobType, Len(j.addrs) = 0
  PROVE  /\ ByteAt(j.addrs, 1) = 0 /\ RowOf(j) = 0
         /\ Column(j) = IF j.cmd = ERASE1 THEN 0 ELSE j.area
<1>2. \A i \in Nat \ {0} : ByteAt(j.addrs, i) = 0
  BY DEF ByteAt
<1>3. RowByte(j, 1) = 0 /\ RowByte(j, 2) = 0 /\ RowByte(j, 3) = 0
  BY <1>2 DEF RowByte
<1>4. RowOf(j) = 0
  BY <1>3, Sizes DEF RowOf
<1>5. j.area \in Nat
  BY Sizes DEF JobType
<1> QED BY <1>2, <1>4, <1>5 DEF Column

-----------------------------------------------------------------------------
(* Pages and blocks: quotients and remainders *)

\* A number is its quotient times the divisor plus its remainder, in one way only.
LEMMA DivMod ==
  ASSUME NEW n \in Nat \ {0}, NEW x \in Nat
  PROVE  /\ x \div n \in Nat /\ x % n \in 0 .. n - 1
         /\ x = ((x \div n) * n) + (x % n)
OBVIOUS

\* ... so that these two are found from any such sum.
LEMMA DivUnique ==
  ASSUME NEW n \in Nat \ {0}, NEW q \in Nat, NEW r \in 0 .. n - 1
  PROVE  (q * n + r) \div n = q /\ (q * n + r) % n = r
<1> DEFINE x == q * n + r
           p == x \div n
           s == x % n
<1>0. x \in Nat
  OBVIOUS
<1> HIDE DEF x
<1>1. p \in Nat /\ s \in 0 .. n - 1 /\ x = p * n + s
  BY <1>0, DivMod
<1> HIDE DEF p, s
<1>2. (p - q) * n = r - s
  BY <1>1 DEF x
<1>3. r - s < n /\ r - s > 0 - n
  BY <1>1
<1> DEFINE d == p - q
<1>4. d \in Int
  BY <1>1
<1>5. ~(d >= 1)
  <2> HIDE DEF d
  <2> SUFFICES ASSUME d >= 1 PROVE FALSE
    OBVIOUS
  <2>1. d * n >= n
    BY <1>4
  <2> QED BY <1>2, <1>3, <1>1, <2>1 DEF d
<1>6. ~(d <= 0 - 1)
  <2> HIDE DEF d
  <2> SUFFICES ASSUME d <= 0 - 1 PROVE FALSE
    OBVIOUS
  <2>1. d * n <= 0 - n
    BY <1>4
  <2> QED BY <1>2, <1>3, <1>1, <2>1 DEF d
<1>7. d = 0
  <2> HIDE DEF d
  <2> QED BY <1>4, <1>5, <1>6
<1>8. p = q
  BY <1>1, <1>7
<1>9. s = r
  BY <1>1, <1>8 DEF x
<1> QED BY <1>8, <1>9 DEF p, s, x

\* The numbers of one quotient are a range.
LEMMA DivRange ==
  ASSUME NEW n \in Nat \ {0}, NEW q \in Nat, NEW i \in Nat
  PROVE  i \div n = q <=> i \in q * n .. q * n + n - 1
<1>1. ASSUME i \div n = q PROVE i \in q * n .. q * n + n - 1
  <2> DEFINE r == i % n
  <2>1. r \in 0 .. n - 1 /\ i = q * n + r
    BY <1>1, DivMod
  <2> HIDE DEF r
  <2> QED BY <2>1
<1>2. ASSUME i \in q * n .. q * n + n - 1 PROVE i \div n = q
  <2> DEFINE r == i - q * n
             m == q * n
  <2>0. m \in Nat
    OBVIOUS
  <2> HIDE DEF m
  <2>1. r \in 0 .. n - 1 /\ i = m + r
    BY <1>2, <2>0 DEF m
  <2> HIDE DEF r
  <2> QED BY <2>1, DivUnique DEF m
<1> QED BY <1>1, <1>2

\* Quotients of quotients: the block of a page is the block of its bytes.
LEMMA DivBlock ==
  ASSUME NEW d \in Nat \ {0}, NEW p \in Nat \ {0}, NEW x \in Nat
  PROVE  (x * d) \div (d * p) = x \div p
<1> DEFINE q == x \div p
           r == x % p
<1>1. q \in Nat /\ r \in 0 .. p - 1 /\ x = q * p + r
  BY DivMod
<1> HIDE DEF q, r
<1>2. x * d = q * (d * p) + r * d
  BY <1>1
<1>3. r * d \in 0 .. (d * p) - 1
  <2>1. r * d \in Nat /\ (p - 1 - r) * d \in Nat
    BY <1>1
  <2>2. (p - 1 - r) * d = d * p - d - r * d
    BY <1>1
  <2>3. d * p \in Nat
    OBVIOUS
  <2> DEFINE a == r * d
             b == d * p
             c == (p - 1 - r) * d
  <2> HIDE DEF a, b, c
  <2>4. a \in Nat /\ b \in Nat /\ c \in Nat /\ c = b - d - a
    BY <2>1, <2>2, <2>3 DEF a, b, c
  <2>5. a \in 0 .. b - 1
    BY <2>4
  <2> QED BY <2>5 DEF a, b
<1>4. d * p \in Nat \ {0}
  OBVIOUS
<1> DEFINE m == d * p
           t == r * d
<1> HIDE DEF m, t
<1>5. m \in Nat \ {0} /\ t \in 0 .. m - 1 /\ x * d = q * m + t
  BY <1>2, <1>3, <1>4 DEF m, t
<1>6. (q * m + t) \div m = q
  BY <1>1, <1>5, DivUnique
<1> QED BY <1>5, <1>6 DEF m, q

\* NextAddress at byte c of the spare areas from this row on.
LEMMA SpareStep ==
  ASSUME NEW row \in Nat, NEW c \in Nat
  PROVE  /\ SpareCell(row, c) \in Nat
         /\ SpareCell(row, c + 1) =
              IF (SpareCell(row, c) + 1) % PageDump = 0 THEN SpareCell(row, c) + 1 + PageSize
                                                        ELSE SpareCell(row, c) + 1
<1> DEFINE q == c \div Spare
           r == c % Spare
           a == SpareCell(row, c)
<1>1. q \in Nat /\ r \in 0 .. Spare - 1 /\ c = q * Spare + r
  BY DivMod, Sizes
<1>2. a = (row + q) * PageDump + PageSize + r
  BY DEF SpareCell
<1>3. /\ PageSize \in Nat \ {0} /\ PageDump \in Nat \ {0} /\ Spare \in Nat \ {0}
      /\ PageDump = PageSize + Spare
  BY Sizes DEF PageDump
<1> HIDE DEF q, r, a
<1>4. a \in Nat
  BY <1>1, <1>2, <1>3
<1>5. CASE r = Spare - 1
  <2>1. c + 1 = (q + 1) * Spare + 0
    BY <1>1, <1>3, <1>5
  <2>2. (c + 1) \div Spare = q + 1 /\ (c + 1) % Spare = 0
    <3> DEFINE w == q + 1
    <3>1. w \in Nat /\ 0 \in 0 .. Spare - 1
      BY <1>1, <1>3
    <3> HIDE DEF w
    <3>2. (w * Spare + 0) \div Spare = w /\ (w * Spare + 0) % Spare = 0
      BY <1>3, <3>1, DivUnique
    <3>3. c + 1 = w * Spare + 0
      BY <2>1 DEF w
    <3> QED BY <3>2, <3>3 DEF w
  <2>3. a + 1 = (row + q + 1) * PageDump + 0
    <3> DEFINE m == row + q
    <3>1. m \in Nat
      BY <1>1
    <3> HIDE DEF m
    <3>2. a + 1 = m * PageDump + PageDump
      BY <1>2, <1>3, <1>5, <3>1 DEF m
    <3>3. m * PageDump + PageDump = (m + 1) * PageDump
      BY <1>3, <3>1
    <3> QED BY <1>1, <1>3, <3>1, <3>2, <3>3 DEF m
  <2>4. (a + 1) % PageDump = 0
    <3>1. row + q + 1 \in Nat /\ 0 \in 0 .. PageDump - 1
      BY <1>1, <1>3
    <3> QED BY <1>3, <2>3, <3>1, DivUnique, SMTT(40)
  <2>5. SpareCell(row, c + 1) = (row + (q + 1)) * PageDump + PageSize + 0
    BY <2>2 DEF SpareCell
  <2>6. row + (q + 1) = row + q + 1
    BY <1>1
  <2>7. SpareCell(row, c + 1) = a + 1 + PageSize
    <3> DEFINE m == (row + q + 1) * PageDump
    <3>1. m \in Nat
      BY <1>1, <1>3
    <3> HIDE DEF m
    <3>2. SpareCell(row, c + 1) = m + PageSize + 0 /\ a + 1 = m + 0
      BY <2>3, <2>5, <2>6 DEF m
    <3> QED BY <1>3, <3>1, <3>2
  <2> QED BY <1>4, <2>4, <2>7 DEF a
<1>6. CASE r # Spare - 1
  <2>0. r + 1 \in 0 .. Spare - 1
    BY <1>1, <1>3, <1>6
  <2>1. c + 1 = q * Spare + (r + 1)
    BY <1>1, <1>3
  <2>2. (c + 1) \div Spare = q /\ (c + 1) % Spare = r + 1
    BY <1>1, <1>3, <2>0, <2>1, DivUnique
  <2>3. SpareCell(row, c + 1) = (row + q) * PageDump + PageSize + (r + 1)
    BY <2>2 DEF SpareCell
  <2> DEFINE m == row + q
             u == PageSize + (r + 1)
  <2>4. m \in Nat /\ u \in 0 .. PageDump - 1 /\ u # 0
    BY <1>1, <1>3, <2>0
  <2>5. a + 1 = m * PageDump + u /\ SpareCell(row, c + 1) = a + 1
    <3> DEFINE v == m * PageDump
    <3>1. v \in Nat
      BY <1>3, <2>4
    <3>2. a = v + PageSize + r /\ SpareCell(row, c + 1) = v + PageSize + (r + 1)
      BY <1>2, <2>3
    <3> HIDE DEF m, v
    <3>3. a + 1 = v + u /\ SpareCell(row, c + 1) = a + 1
      BY <1>1, <1>3, <3>1, <3>2
    <3> QED BY <3>3 DEF v
  <2> HIDE DEF m, u
  <2>6. (m * PageDump + u) % PageDump = u
    BY <1>3, <2>4, DivUnique
  <2>7. (a + 1) % PageDump # 0
    BY <2>4, <2>5, <2>6
  <2> QED BY <1>4, <2>5, <2>7 DEF a
<1> QED BY <1>5, <1>6

-----------------------------------------------------------------------------
(* Commands *)

USE DEF READ0, READ1, PAGEPROG, READOOB, ERASE1, STATUSCMD, SEQIN, READID, ERASE2,
        RESETCMD, Pointers

\* A command without addresses leaves the chip with nothing to program or erase.
LEMMA PlainLinked ==
  ASSUME NEW s, NEW j \in JobType, j.cmd \notin Addressing, j.cmd # READID,
         Len(j.addrs) = 0, s.cmd # SEQIN, s.cmd # ERASE1, s.iostatus # "write", Reporting(s, j)
  PROVE  Linked(s, j)
<1>1. j.cmd \notin Pointers \cup {SEQIN, ERASE1, READID}
  BY DEF Addressing
<1>2. Fits(j)
  <2>1. Len(j.addrs) = 0 /\ Wants(j.cmd) = 0
    BY <1>1 DEF Wants
  <2> QED BY <1>1, <2>1 DEF Fits
<1>3. Sent(s, j) /\ Unarmed(s, j) /\ Erasing(s, j)
  BY <1>1 DEF Sent, Unarmed, Erasing, Addressing
<1>4. Reading(s, j) /\ Naming(s, j) /\ Placed(s, j) /\ Buffered(s, j)
  BY <1>1 DEF Reading, Naming, Placed, Buffered
<1> QED BY <1>2, <1>3, <1>4 DEF Linked

\* The job a command starts.
LEMMA NewJobFacts ==
  ASSUME NEW cmd \in NandCmds, NEW area \in {0, HalfPage, PageSize}
  PROVE  /\ NewJob(cmd, area) \in JobType
         /\ NewJob(cmd, area).cmd = cmd /\ NewJob(cmd, area).area = area
         /\ NewJob(cmd, area).read = 0
         /\ Len(NewJob(cmd, area).addrs) = 0 /\ Len(NewJob(cmd, area).data) = 0
<1> DEFINE e == <<>>
<1>1. e \in Seq(0 .. RowBase - 1) /\ e \in Seq(NandBytes) /\ Len(e) = 0
  BY EmptySeq
<1>2. NewJob(cmd, area) = [cmd |-> cmd, area |-> area, addrs |-> e, data |-> e, read |-> 0]
  BY DEF NewJob
<1> HIDE DEF e
<1>3. /\ NewJob(cmd, area).cmd = cmd /\ NewJob(cmd, area).area = area
      /\ NewJob(cmd, area).addrs = e /\ NewJob(cmd, area).data = e
      /\ NewJob(cmd, area).read = 0
  BY <1>2
<1>4. NewJob(cmd, area) \in JobType
  BY <1>1, <1>2 DEF JobType
<1> QED BY <1>1, <1>3, <1>4

\* The driver between two jobs.
LEMMA NoJobType ==
  /\ NoJob \in JobType
  /\ NoJob.cmd = RESETCMD /\ Len(NoJob.addrs) = 0
<1>1. RESETCMD \in NandCmds
  BY DEF NandCmds
<1>2. 0 \in {0, HalfPage, PageSize}
  OBVIOUS
<1> HIDE DEF RESETCMD
<1> QED BY <1>1, <1>2, NewJobFacts DEF NoJob

\* The chip at the first address byte of a command, and the driver's new job.
LEMMA BegunLinked ==
  ASSUME NEW s, NEW k \in JobType, k.cmd \in Addressing,
         Len(k.addrs) = 0, Len(k.data) = 0, k.read = 0,
         s.cmd = k.cmd, s.iostatus = "addr", s.address = 0,
         s.cmdstatus = IF k.cmd = ERASE1 THEN "addr_2nd" ELSE "addr_1st",
         s.pageoffset = IF k.cmd = ERASE1 THEN 0 ELSE k.area,
         k.cmd \in Pointers => k.area = AreaOf(k.cmd),
         k.cmd = SEQIN => s.writebuffer = FreshPage
  PROVE  Linked(s, k)
<1>1. /\ ByteAt(k.addrs, 1) = 0 /\ RowOf(k) = 0
      /\ Column(k) = IF k.cmd = ERASE1 THEN 0 ELSE k.area
  BY FreshJob
<1>2. Cycles(k) = IF k.cmd = ERASE1 THEN 1 ELSE 0
  BY <1>1 DEF Cycles
<1>3. Fits(k)
  <2>1. Wants(k.cmd) \in {3, 4}
    BY DEF Wants, Addressing
  <2>2. 0 < Spare /\ 0 < HalfPage
    BY Sizes
  <2> QED BY <1>1, <2>1, <2>2 DEF Fits
<1>4. Sent(s, k)
  <2>1. AddrCycles[1] = "addr_1st" /\ AddrCycles[2] = "addr_2nd"
    BY DEF AddrCycles
  <2>2. PageSize * RowOf(k) = 0
    BY <1>1, Sizes
  <2> QED BY <1>1, <1>2, <2>1, <2>2 DEF Sent
<1>5. /\ Unarmed(s, k) /\ Erasing(s, k) /\ Reading(s, k) /\ Placed(s, k) /\ Naming(s, k)
      /\ Reporting(s, k)
  BY <1>2 DEF Unarmed, Erasing, Reading, Placed, Naming, Reporting, Addressing
<1>6. Buffered(s, k)
  <2> SUFFICES ASSUME k.cmd = SEQIN
               PROVE  \A i \in 0 .. PageDump - 1 :
                        /\ s.writebuffer[i] = FF
                        /\ i \notin Range0(Column(k), Len(k.data))
    BY DEF Buffered
  <2>2. Column(k) \in Nat
    BY RowType
  <2>3. \A i \in Int : i \notin Range0(Column(k), Len(k.data))
    BY <2>2 DEF Range0
  <2>4. \A i \in 0 .. PageDump - 1 : s.writebuffer[i] = FF
    BY DEF FreshPage
  <2> QED BY <2>3, <2>4
<1> QED BY <1>3, <1>4, <1>5, <1>6 DEF Linked

\* The chip at the address byte of the identification, and the driver's new job.
LEMMA NamingLinked ==
  ASSUME NEW s, NEW k \in JobType, k.cmd = READID, Len(k.addrs) = 0, k.read = 0,
         s.cmd = READID, s.iostatus = "addr", s.cmdstatus = "addr_4th"
  PROVE  Linked(s, k)
<1>1. Fits(k) /\ Sent(s, k) /\ Unarmed(s, k) /\ Erasing(s, k)
  BY DEF Fits, Sent, Unarmed, Erasing, Addressing, Wants
<1>2. Reading(s, k) /\ Reporting(s, k) /\ Placed(s, k) /\ Buffered(s, k)
  BY DEF Reading, Reporting, Placed, Buffered
<1>3. Len(k.addrs) # 1
  OBVIOUS
<1>4. Naming(s, k)
  BY <1>3 DEF Naming
<1> QED BY <1>1, <1>2, <1>4 DEF Linked

\* The reset and the second half of an erasure.
LEMMA ResetFacts ==
  ASSUME NEW c \in NfType
  PROVE  /\ docmd(c, RESETCMD) \in NfType /\ docmd(c, RESETCMD).cmd = READ0
         /\ docmd(c, RESETCMD).iostatus = "none"
         /\ docmd(c, ERASE2) \in NfType /\ docmd(c, ERASE2).cmd = RESETCMD
         /\ docmd(c, ERASE2).iostatus = c.iostatus
<1> DEFINE f == FreshPage
           r == docmd(c, RESETCMD)
           e == docmd(c, ERASE2)
<1>1. f \in [0 .. PageDump - 1 -> {FF} \cup NandBytes]
  BY DEF FreshPage
<1>2. r = sb_reset(c)
  BY DEF docmd
<1>3. r = [c EXCEPT !.cmd = READ0, !.cmdstatus = NOSTATUS, !.iostatus = "none",
                    !.pageoffset = 0, !.writebuffer = f, !.IOPIN = 0]
  BY <1>2 DEF sb_reset
<1>4. e = [c EXCEPT !.cmd = RESETCMD]
  BY DEF docmd
<1>5. READ0 \in NandCmds /\ RESETCMD \in NandCmds /\ READ0 \in Nat
  BY DEF NandCmds
<1>6. NOSTATUS \in CmdStates /\ "none" \in IoStates
  BY DEF CmdStates, IoStates
<1> HIDE DEF f, r, e, Pointers, READ0, RESETCMD
<1>7. e \in NfType /\ e.cmd = RESETCMD /\ e.iostatus = c.iostatus
  BY <1>4, <1>5 DEF NfType
<1>8. r \in NfType
  BY <1>1, <1>3, <1>5, <1>6 DEF NfType
<1>9. r.cmd = READ0 /\ r.iostatus = "none"
  BY <1>3 DEF NfType
<1> QED BY <1>7, <1>8, <1>9 DEF r, e

\* nandflash_sb_docmd in c, the chip s with CLE high and the command on its pins,
\* and the driver's new job.
LEMMA CommandLinked ==
  ASSUME NEW s, NEW j \in JobType, Linked(s, j), NEW cmd \in NandCmds,
         cmd = SEQIN => j.cmd \in Pointers /\ Len(j.addrs) = 0,
         cmd = PAGEPROG => j.cmd = SEQIN /\ Cycles(j) = 4,
         NEW c \in NfType, c.cmd = s.cmd, c.iostatus = "cmd",
         c.cmdstatus = s.cmdstatus, c.pageoffset = s.pageoffset,
         NEW t, t = docmd(c, cmd),
         NEW k, k = NewJob(cmd, IF cmd = SEQIN THEN j.area ELSE AreaOf(cmd))
  PROVE  t \in NfType /\ k \in JobType /\ Linked(t, k)
<1> DEFINE area == IF cmd = SEQIN THEN j.area ELSE AreaOf(cmd)
<1>3. area \in {0, HalfPage, PageSize}
  BY DEF JobType, AreaOf
<1>4. /\ k \in JobType /\ k.cmd = cmd /\ k.area = area
      /\ Len(k.addrs) = 0 /\ Len(k.data) = 0 /\ k.read = 0
  <2> HIDE DEF area
  <2>1. k = NewJob(cmd, area)
    BY DEF area
  <2> QED BY <1>3, <2>1, NewJobFacts
<1>5. ASSUME NEW n \in {1, 2, 4}, NEW offset \in Nat, NEW b, b = Begin(c, cmd, n, offset)
      PROVE  /\ b \in NfType /\ b.cmd = cmd /\ b.iostatus = "addr" /\ b.address = 0
             /\ b.cmdstatus = AddrCycles[n] /\ b.pageoffset = offset
             /\ b.writebuffer = c.writebuffer
  <2>1. AddrCycles[n] \in CmdStates
    BY DEF AddrCycles, CmdStates
  <2>2. "addr" \in IoStates
    BY DEF IoStates
  <2>3. b = [c EXCEPT !.cmd = cmd, !.cmdstatus = AddrCycles[n], !.iostatus = "addr",
                      !.address = 0, !.pageoffset = offset]
    BY <1>5 DEF Begin
  <2> DEFINE y == AddrCycles[n]
  <2> HIDE DEF y
  <2> QED BY <2>1, <2>2, <2>3 DEF NfType, y
<1>6. AddrCycles[1] = "addr_1st" /\ AddrCycles[2] = "addr_2nd" /\ AddrCycles[4] = "addr_4th"
  BY DEF AddrCycles
<1>7. CASE cmd \in Pointers
  <2>1. t = Begin(c, cmd, 1, AreaOf(cmd))
    BY <1>7 DEF docmd, AreaOf
  <2>2. area = AreaOf(cmd) /\ AreaOf(cmd) \in Nat
    BY <1>7, Sizes DEF AreaOf
  <2>3. /\ t \in NfType /\ t.cmd = cmd /\ t.iostatus = "addr" /\ t.address = 0
        /\ t.cmdstatus = "addr_1st" /\ t.pageoffset = area
    BY <1>5, <1>6, <2>1, <2>2
  <2> QED BY <1>4, <1>7, <2>2, <2>3, BegunLinked DEF Addressing
<1>8. CASE cmd = SEQIN
  <2> DEFINE b == Begin(c, cmd, 1, c.pageoffset)
  <2>1. t = [b EXCEPT !.writebuffer = FreshPage]
    BY <1>8 DEF docmd, SeqinFresh
  <2>2. s.pageoffset = j.area
    <3>1. Len(j.addrs) = 0 /\ Column(j) = j.area
      <4>1. Len(j.addrs) = 0 /\ j.cmd # ERASE1
        BY <1>8
      <4> QED BY <4>1, FreshJob
    <3>2. Cycles(j) = 0
      BY <1>8, <3>1 DEF Cycles
    <3> QED BY <1>8, <3>1, <3>2 DEF Linked, Sent, Addressing
  <2>3. c.pageoffset \in Nat
    BY DEF NfType
  <2>4. /\ b \in NfType /\ b.cmd = cmd /\ b.iostatus = "addr" /\ b.address = 0
        /\ b.cmdstatus = "addr_1st" /\ b.pageoffset = c.pageoffset
    BY <1>5, <1>6, <2>3
  <2> HIDE DEF b
  <2>5. FreshPage \in [0 .. PageDump - 1 -> {FF} \cup NandBytes]
    BY DEF FreshPage
  <2>6. /\ t \in NfType /\ t.cmd = cmd /\ t.iostatus = "addr" /\ t.address = 0
        /\ t.cmdstatus = "addr_1st" /\ t.pageoffset = c.pageoffset
        /\ t.writebuffer = FreshPage
    <3> DEFINE f == FreshPage
    <3> HIDE DEF f
    <3>1. f \in [0 .. PageDump - 1 -> {FF} \cup NandBytes] /\ t = [b EXCEPT !.writebuffer = f]
      BY <2>1, <2>5 DEF f
    <3>2. /\ t \in NfType /\ t.cmd = b.cmd /\ t.iostatus = b.iostatus
          /\ t.address = b.address /\ t.cmdstatus = b.cmdstatus
          /\ t.pageoffset = b.pageoffset /\ t.writebuffer = f
      BY <2>4, <3>1 DEF NfType
    <3> QED BY <2>4, <3>2 DEF f
  <2>7. k.cmd \in Addressing /\ k.cmd \notin Pointers /\ k.cmd # ERASE1
    BY <1>4, <1>8 DEF Addressing
  <2>8. t.pageoffset = k.area
    BY <1>4, <1>8, <2>2, <2>6
  <2> QED BY <1>4, <2>6, <2>7, <2>8, BegunLinked
<1>9. CASE cmd = ERASE1
  <2>1. t = Begin(c, cmd, 2, 0)
    BY <1>9 DEF docmd
  <2>2. /\ t \in NfType /\ t.cmd = cmd /\ t.iostatus = "addr" /\ t.address = 0
        /\ t.cmdstatus = "addr_2nd" /\ t.pageoffset = 0
    BY <1>5, <1>6, <2>1
  <2>3. k.cmd \in Addressing /\ k.cmd \notin Pointers /\ k.cmd = ERASE1 /\ k.cmd # SEQIN
    BY <1>4, <1>9 DEF Addressing
  <2> QED BY <1>4, <2>2, <2>3, BegunLinked
<1>10. CASE cmd = READID
  <2>1. t = Begin(c, cmd, 4, 0)
    BY <1>10 DEF docmd
  <2>2. /\ t \in NfType /\ t.cmd = cmd /\ t.iostatus = "addr" /\ t.cmdstatus = "addr_4th"
    BY <1>5, <1>6, <2>1
  <2>3. Len(k.addrs) = 0 /\ k.cmd = READID
    BY <1>4, <1>10
  <2> QED BY <1>4, <2>2, <2>3, NamingLinked
<1>11. CASE cmd \in {STATUSCMD, ERASE2, PAGEPROG, RESETCMD}
  <2>1. k.cmd \notin Addressing /\ k.cmd # READID /\ k \in JobType /\ Len(k.addrs) = 0
    BY <1>4, <1>11 DEF Addressing
  <2>0. ASSUME t.cmd # SEQIN, t.cmd # ERASE1, t.iostatus # "write", Reporting(t, k)
        PROVE  Linked(t, k)
    BY <2>0, <2>1, PlainLinked
  <2>2. CASE cmd = STATUSCMD
    <3>1. t = [c EXCEPT !.cmd = cmd, !.cmdstatus = "status", !.iostatus = "status"]
      BY <2>2 DEF docmd
    <3>2. t \in NfType /\ t.cmd = cmd /\ t.iostatus = "status"
      BY <3>1, ZenonT(60) DEF NfType, CmdStates, IoStates
    <3> QED BY <2>0, <1>4, <2>1, <2>2, <3>2 DEF Reporting
  <2>3. CASE cmd = ERASE2
    <3>1. t \in NfType /\ t.cmd = RESETCMD /\ t.iostatus = "cmd"
      BY <2>3, ResetFacts
    <3> QED BY <2>0, <1>4, <2>1, <2>3, <3>1 DEF Reporting
  <2>4. CASE cmd = PAGEPROG
    <3>1. s.cmd = SEQIN /\ s.cmdstatus = FINISH
      BY <2>4 DEF Linked, Sent, Placed, Addressing
    <3>2. t = [c EXCEPT !.cmd = cmd]
      BY <2>4, <3>1 DEF docmd
    <3>3. t \in NfType /\ t.cmd = cmd /\ t.iostatus = "cmd"
      BY <3>2 DEF NfType
    <3> QED BY <2>0, <1>4, <2>1, <2>4, <3>3 DEF Reporting
  <2>5. CASE cmd = RESETCMD
    <3>1. t \in NfType /\ t.cmd = READ0 /\ t.iostatus = "none"
      BY <2>5, ResetFacts
    <3> QED BY <2>0, <1>4, <2>1, <2>5, <3>1 DEF Reporting
  <2> QED BY <1>11, <2>2, <2>3, <2>4, <2>5
<1> QED BY <1>7, <1>8, <1>9, <1>10, <1>11 DEF NandCmds

-----------------------------------------------------------------------------
(* Selecting the chip *)

\* nandflash_sb_setCE ends a read, and the driver gives up the read it deselects.
LEMMA SelectLinked ==
  ASSUME NEW s \in NfType, NEW j \in JobType, Linked(s, j), NEW low \in BOOLEAN,
         NEW t, t = setCE(s, low),
         NEW k, k = IF ~low /\ j.cmd \in Pointers THEN NoJob ELSE j
  PROVE  t \in NfType /\ k \in JobType /\ Linked(t, k)
<1> DEFINE pins == IF ~low /\ s.iostatus = "read" THEN "none" ELSE s.iostatus
<1>1. pins \in IoStates
  BY DEF NfType, IoStates
<1>2. t = [s EXCEPT !.CE = low, !.iostatus = pins]
  BY DEF setCE
<1>3. pins # s.iostatus => ~low /\ s.iostatus = "read" /\ pins = "none"
  OBVIOUS
<1> HIDE DEF pins
<1>4. t \in NfType
  BY <1>1, <1>2 DEF NfType
<1>5. /\ t.cmd = s.cmd /\ t.cmdstatus = s.cmdstatus /\ t.address = s.address
      /\ t.pageoffset = s.pageoffset /\ t.writebuffer = s.writebuffer
      /\ t.iostatus = pins
  BY <1>2 DEF NfType
<1>6. CASE ~low /\ j.cmd \in Pointers
  <2>1. k = NoJob
    BY <1>6
  <2>2. k \in JobType /\ k.cmd = RESETCMD /\ Len(k.addrs) = 0
    BY <2>1, NoJobType
  <2>3. s.cmd # SEQIN /\ s.cmd # ERASE1 /\ s.iostatus # "write"
    BY <1>6 DEF Linked, Unarmed
  <2>4. t.cmd # SEQIN /\ t.cmd # ERASE1 /\ t.iostatus # "write"
    BY <1>3, <1>5, <2>3
  <2>5. k.cmd \notin Addressing /\ k.cmd # READID /\ Reporting(t, k)
    BY <2>2 DEF Addressing, Reporting
  <2> QED BY <1>4, <2>2, <2>4, <2>5, PlainLinked
<1>7. CASE ~(~low /\ j.cmd \in Pointers)
  <2>1. k = j
    BY <1>7
  <2>2. Fits(j) /\ Sent(s, j) /\ Unarmed(s, j) /\ Erasing(s, j) /\ Reading(s, j)
    BY DEF Linked
  <2>3. Naming(s, j) /\ Reporting(s, j) /\ Placed(s, j) /\ Buffered(s, j)
    BY DEF Linked
  <2>4. Sent(t, j) /\ Unarmed(t, j)
    BY <1>3, <1>5, <2>2 DEF Sent, Unarmed
  <2>5. Erasing(t, j) /\ Reading(t, j)
    BY <1>3, <1>5, <1>7, <2>2 DEF Erasing, Reading
  <2>6. Naming(t, j) /\ Reporting(t, j) /\ Placed(t, j)
    BY <1>3, <1>5, <2>3 DEF Naming, Reporting, Placed
  <2>7. Buffered(t, j)
    BY <1>5, <2>3 DEF Buffered
  <2> QED BY <1>4, <2>1, <2>2, <2>4, <2>5, <2>6, <2>7 DEF Linked
<1> QED BY <1>6, <1>7

-----------------------------------------------------------------------------
(* Address bytes *)

\* Job k is job j with one more address byte.
OneMore(j, k, byte) ==
  /\ k \in JobType /\ k.cmd = j.cmd /\ k.area = j.area /\ k.data = j.data
  /\ k.read = j.read
  /\ Len(k.addrs) = Len(j.addrs) + 1 /\ Cycles(k) = Cycles(j) + 1
  /\ \A i \in Nat \ {0} :
       ByteAt(k.addrs, i) = IF i = Len(j.addrs) + 1 THEN byte ELSE ByteAt(j.addrs, i)

\* The job of a driver that has sent one more address byte.
LEMMA AddressJob ==
  ASSUME NEW j \in JobType, NEW byte \in 0 .. RowBase - 1
  PROVE  OneMore(j, [j EXCEPT !.addrs = Append(@, byte)], byte)
<1> DEFINE a == j.addrs
           b == Append(a, byte)
           k == [j EXCEPT !.addrs = b]
<1>1. a \in Seq(0 .. RowBase - 1)
  BY DEF JobType
<1>2. b \in Seq(0 .. RowBase - 1) /\ Len(b) = Len(a) + 1
  BY <1>1, AppendProperties
<1>3. \A i \in Nat \ {0} : ByteAt(b, i) = IF i = Len(a) + 1 THEN byte ELSE ByteAt(a, i)
  BY <1>1, ByteFacts
<1>4. Len(a) \in Nat
  BY <1>1, LenProperties
<1>5. k = [j EXCEPT !.addrs = b]
  OBVIOUS
<1> HIDE DEF b, k
<1>6. k \in JobType
  BY <1>2, <1>5 DEF JobType
<1>7. /\ k.cmd = j.cmd /\ k.area = j.area /\ k.data = j.data /\ k.read = j.read
      /\ k.addrs = b
  BY <1>5 DEF JobType
<1>8. Cycles(k) = Cycles(j) + 1
  BY <1>2, <1>4, <1>7 DEF Cycles
<1>9. OneMore(j, k, byte)
  BY <1>2, <1>3, <1>6, <1>7, <1>8 DEF OneMore
<1> QED BY <1>9 DEF k, b

\* The row and the column with that byte: the first cycle gives the column, the
\* next three the row, the lowest byte first.
LEMMA AddressRow ==
  ASSUME NEW j \in JobType, j.cmd \in Addressing, Cycles(j) < 4,
         NEW byte \in 0 .. RowBase - 1, NEW k, OneMore(j, k, byte)
  PROVE  /\ Cycles(j) = 0 => RowOf(k) = 0 /\ RowOf(j) = 0 /\ Column(k) = Column(j) + byte
         /\ Cycles(j) # 0 => Column(k) = Column(j)
         /\ Cycles(j) = 1 => RowOf(k) = RowOf(j) + byte
         /\ Cycles(j) = 2 => RowOf(k) = RowOf(j) + RowBase * byte
         /\ Cycles(j) = 3 => RowOf(k) = RowOf(j) + RowBase * RowBase * byte
<1> DEFINE n == Len(j.addrs)
           e == IF j.cmd = ERASE1 THEN 0 ELSE 1
           R(i) == RowByte(j, i)
<1>1. /\ k.cmd = j.cmd /\ k.area = j.area
      /\ \A i \in Nat \ {0} :
           ByteAt(k.addrs, i) = IF i = n + 1 THEN byte ELSE ByteAt(j.addrs, i)
  BY DEF OneMore
<1>2. n \in Nat /\ j.area \in Nat /\ byte \in Nat /\ RowBase \in Nat
  <2>1. n \in Nat
    BY RowType
  <2>2. j.area \in Nat
    BY Sizes DEF JobType
  <2>3. byte \in Nat /\ RowBase \in Nat
    BY Sizes
  <2> QED BY <2>1, <2>2, <2>3
<1>3. \A i \in Nat \ {0} : ByteAt(j.addrs, i) \in Nat /\ (i > n => ByteAt(j.addrs, i) = 0)
  <2>1. j.addrs \in Seq(0 .. RowBase - 1)
    BY DEF JobType
  <2>2. \A i \in Nat \ {0} : ByteAt(j.addrs, i) \in Nat
    BY <2>1, ByteFacts
  <2>3. \A i \in Nat \ {0} : i > n => ByteAt(j.addrs, i) = 0
    BY <1>2 DEF ByteAt
  <2> QED BY <2>2, <2>3
<1>4. Cycles(j) = n + 1 - e
  BY <1>2 DEF Cycles
<1>5. \A i \in {1, 2, 3} :
        /\ RowByte(j, i) = ByteAt(j.addrs, i + e) /\ RowByte(k, i) = ByteAt(k.addrs, i + e)
        /\ i + e \in Nat \ {0}
  BY <1>1 DEF RowByte
<1> HIDE DEF n
<1>6. e \in {0, 1}
  OBVIOUS
<1>7. \A i \in {1, 2, 3} :
        /\ RowByte(j, i) \in Nat
        /\ RowByte(k, i) = IF i = Cycles(j) THEN byte ELSE RowByte(j, i)
        /\ i >= Cycles(j) => RowByte(j, i) = 0
  <2> HIDE DEF e
  <2> TAKE i \in {1, 2, 3}
  <2>1. i + e \in Nat \ {0} /\ (i + e = n + 1 <=> i = Cycles(j)) /\ (i + e > n <=> i >= Cycles(j))
    BY <1>2, <1>4, <1>6
  <2> QED BY <1>1, <1>3, <1>5, <2>1
<1>8. CASE Cycles(j) = 0
  <2>0. e = 1 /\ n = 0
    <3> HIDE DEF e
    <3> QED BY <1>2, <1>4, <1>6, <1>8
  <2>1. j.cmd # ERASE1 /\ n = 0
    BY <2>0
  <2>2. ByteAt(k.addrs, 1) = byte /\ ByteAt(j.addrs, 1) = 0
    BY <1>1, <1>3, <2>1
  <2>3. Column(k) = Column(j) + byte
    BY <1>1, <1>2, <2>1, <2>2 DEF Column
  <2>4. /\ RowByte(j, 1) = 0 /\ RowByte(j, 2) = 0 /\ RowByte(j, 3) = 0
        /\ RowByte(k, 1) = 0 /\ RowByte(k, 2) = 0 /\ RowByte(k, 3) = 0
    BY <1>7, <1>8
  <2>5. RowOf(k) = 0 /\ RowOf(j) = 0
    BY <1>2, <2>4 DEF RowOf
  <2> QED BY <1>8, <2>3, <2>5
<1>9. Cycles(j) # 0 => Column(k) = Column(j)
  <2>1. ASSUME j.cmd # ERASE1, Cycles(j) # 0 PROVE ByteAt(k.addrs, 1) = ByteAt(j.addrs, 1)
    <3>1. 1 # n + 1
      BY <1>2, <1>4, <2>1
    <3> QED BY <1>1, <3>1
  <2> QED BY <1>1, <2>1 DEF Column
<1>10. CASE Cycles(j) \in {1, 2, 3}
  <2> DEFINE j1 == RowByte(j, 1)
             j2 == RowByte(j, 2)
             j3 == RowByte(j, 3)
             k1 == RowByte(k, 1)
             k2 == RowByte(k, 2)
             k3 == RowByte(k, 3)
  <2>1. j1 \in Nat /\ j2 \in Nat /\ j3 \in Nat
    BY <1>7
  <2>2. RowOf(j) = j1 + RowBase * j2 + RowBase * RowBase * j3
    BY DEF RowOf
  <2>3. RowOf(k) = k1 + RowBase * k2 + RowBase * RowBase * k3
    BY DEF RowOf
  <2>4. /\ Cycles(j) = 1 => k1 = byte /\ j1 = 0 /\ k2 = j2 /\ k3 = j3 /\ j2 = 0 /\ j3 = 0
        /\ Cycles(j) = 2 => k1 = j1 /\ k2 = byte /\ j2 = 0 /\ k3 = j3 /\ j3 = 0
        /\ Cycles(j) = 3 => k1 = j1 /\ k2 = j2 /\ k3 = byte /\ j3 = 0
    BY <1>7
  <2> HIDE DEF j1, j2, j3, k1, k2, k3
  <2>5. RowBase * 0 = 0 /\ RowBase * RowBase * 0 = 0
    BY <1>2
  <2> DEFINE u == RowBase * j2
             v == RowBase * RowBase * byte
  <2>6. u \in Nat /\ v \in Nat
    BY <1>2, <2>1
  <2>7. CASE Cycles(j) = 1
    <3>1. RowOf(k) = byte + 0 + 0 /\ RowOf(j) = 0 + 0 + 0
      BY <2>2, <2>3, <2>4, <2>5, <2>7
    <3> QED BY <1>2, <1>9, <2>7, <3>1
  <2>8. CASE Cycles(j) = 2
    <3>1. RowOf(k) = j1 + RowBase * byte + 0 /\ RowOf(j) = j1 + 0 + 0
      BY <2>2, <2>3, <2>4, <2>5, <2>8
    <3> QED BY <1>2, <1>9, <2>1, <2>8, <3>1
  <2>9. CASE Cycles(j) = 3
    <3>1. RowOf(k) = j1 + u + v /\ RowOf(j) = j1 + u + 0
      BY <2>2, <2>3, <2>4, <2>5, <2>9
    <3> HIDE DEF u, v
    <3>2. RowOf(k) = RowOf(j) + v
      BY <2>1, <2>6, <3>1
    <3> QED BY <1>9, <2>9, <3>2 DEF v
  <2> QED BY <1>10, <2>7, <2>8, <2>9
<1>11. Cycles(j) \in {0, 1, 2, 3}
  BY FewCycles
<1> QED BY <1>8, <1>9, <1>10, <1>11

\* The first address byte adds to the page offset.
LEMMA FirstByte ==
  ASSUME NEW c \in NfType, NEW byte \in Nat, c.cmdstatus = "addr_1st"
  PROVE  /\ doaddr(c, byte) \in NfType
         /\ doaddr(c, byte).cmd = c.cmd /\ doaddr(c, byte).iostatus = c.iostatus
         /\ doaddr(c, byte).writebuffer = c.writebuffer
         /\ doaddr(c, byte).cmdstatus = "addr_2nd" /\ doaddr(c, byte).address = 0
         /\ doaddr(c, byte).pageoffset = c.pageoffset + byte
<1> DEFINE t == doaddr(c, byte)
           o == c.pageoffset + byte
<1>1. t = [c EXCEPT !.address = 0, !.pageoffset = o, !.cmdstatus = "addr_2nd"]
  BY DEF doaddr
<1>2. o \in Nat
  BY DEF NfType
<1>3. "addr_2nd" \in CmdStates
  BY DEF CmdStates
<1> HIDE DEF t, o
<1>4. t \in NfType
  BY <1>1, <1>2, <1>3 DEF NfType
<1>5. /\ t.cmd = c.cmd /\ t.iostatus = c.iostatus /\ t.writebuffer = c.writebuffer
      /\ t.cmdstatus = "addr_2nd" /\ t.address = 0 /\ t.pageoffset = o
  BY <1>1 DEF NfType
<1> QED BY <1>4, <1>5 DEF t, o

\* The second and the third add to the row.
LEMMA MiddleByte ==
  ASSUME NEW c \in NfType, NEW byte \in Nat, NEW m \in {2, 3}, c.cmdstatus = AddrCycles[m]
  PROVE  /\ doaddr(c, byte) \in NfType
         /\ doaddr(c, byte).cmd = c.cmd /\ doaddr(c, byte).iostatus = c.iostatus
         /\ doaddr(c, byte).writebuffer = c.writebuffer
         /\ doaddr(c, byte).cmdstatus = AddrCycles[m + 1]
         /\ doaddr(c, byte).address = c.address + (byte * Shift(m))
         /\ doaddr(c, byte).pageoffset = c.pageoffset
<1> DEFINE t == doaddr(c, byte)
           x == c.address + (byte * Shift(m))
           y == AddrCycles[m + 1]
<1>1. t = [c EXCEPT !.address = x, !.cmdstatus = y]
  <2>1. CASE m = 2
    <3>1. c.cmdstatus = "addr_2nd" /\ y = "addr_3rd"
      BY <2>1 DEF AddrCycles
    <3> QED BY <2>1, <3>1 DEF doaddr
  <2>2. CASE m = 3
    <3>1. c.cmdstatus = "addr_3rd" /\ y = "addr_4th"
      BY <2>2 DEF AddrCycles
    <3> QED BY <2>2, <3>1 DEF doaddr
  <2> QED BY <2>1, <2>2
<1>2. x \in Nat
  <2>1. c.address \in Nat
    BY DEF NfType
  <2>2. Shift(m) \in Nat
    BY Sizes DEF Shift
  <2> QED BY <2>1, <2>2
<1>3. y \in CmdStates
  BY DEF CmdStates, AddrCycles
<1> HIDE DEF t, x, y
<1>4. t \in NfType
  BY <1>1, <1>2, <1>3 DEF NfType
<1>5. /\ t.cmd = c.cmd /\ t.iostatus = c.iostatus /\ t.writebuffer = c.writebuffer
      /\ t.cmdstatus = y /\ t.address = x /\ t.pageoffset = c.pageoffset
  BY <1>1 DEF NfType
<1> QED BY <1>4, <1>5 DEF t, x, y

\* The fourth completes the row, makes a file address of it and ends the address.
LEMMA LastByte ==
  ASSUME NEW c \in NfType, NEW byte \in Nat, c.cmdstatus = "addr_4th",
         c.cmd \in Addressing \cup {READID}
  PROVE  /\ doaddr(c, byte) \in NfType
         /\ doaddr(c, byte).cmd = c.cmd /\ doaddr(c, byte).writebuffer = c.writebuffer
         /\ doaddr(c, byte).address =
              (((c.address + (byte * Shift(4))) \div PageSize) * PageDump) + c.pageoffset
         /\ doaddr(c, byte).pageoffset = c.pageoffset
         /\ c.cmd \in Pointers => doaddr(c, byte).iostatus = "read"
         /\ c.cmd = SEQIN =>
              doaddr(c, byte).iostatus = "write" /\ doaddr(c, byte).cmdstatus = FINISH
         /\ c.cmd = ERASE1 =>
              doaddr(c, byte).iostatus = "cmd" /\ doaddr(c, byte).cmdstatus = FINISH
         /\ c.cmd = READID =>
              doaddr(c, byte).iostatus = "id" /\ doaddr(c, byte).cmdstatus = IdCycles[1]
<1> DEFINE t == doaddr(c, byte)
           x == c.address + (byte * Shift(4))
           u == [c EXCEPT !.address = x]
           a == ((x \div PageSize) * PageDump) + c.pageoffset
           v == [u EXCEPT !.address = a]
<1>1. t = Addressed(u)
  BY DEF doaddr
<1>2. x \in Nat
  <2>1. c.address \in Nat
    BY DEF NfType
  <2>2. Shift(4) \in Nat
    BY Sizes DEF Shift
  <2> QED BY <2>1, <2>2
<1>3. a \in Nat
  <2>1. x \div PageSize \in Nat
    <3> HIDE DEF x
    <3> QED BY <1>2, Sizes, DivMod
  <2>2. c.pageoffset \in Nat
    BY DEF NfType
  <2> DEFINE w == x \div PageSize
  <2> HIDE DEF w
  <2>3. w * PageDump + c.pageoffset \in Nat
    BY <2>1, <2>2, Sizes DEF w
  <2> QED BY <2>3 DEF w
<1> HIDE DEF x
<1>4. /\ u \in NfType /\ u.cmd = c.cmd /\ u.cmdstatus = c.cmdstatus
      /\ u.iostatus = c.iostatus /\ u.address = x /\ u.pageoffset = c.pageoffset
      /\ u.writebuffer = c.writebuffer
  BY <1>2 DEF NfType
<1>5. v = [u EXCEPT !.address = ((u.address \div PageSize) * PageDump) + u.pageoffset]
  BY <1>4
<1> HIDE DEF a, u
<1>6. /\ v \in NfType /\ v.cmd = c.cmd
      /\ v.address = a /\ v.pageoffset = c.pageoffset /\ v.writebuffer = c.writebuffer
  BY <1>3, <1>4 DEF NfType
<1> HIDE DEF v
<1>7. t = CASE u.cmd \in Pointers -> [v EXCEPT !.iostatus = "read"]
            [] u.cmd = SEQIN -> [v EXCEPT !.iostatus = "write", !.cmdstatus = FINISH]
            [] u.cmd = READID -> [v EXCEPT !.iostatus = "id", !.cmdstatus = IdCycles[1]]
            [] u.cmd = ERASE1 -> [v EXCEPT !.iostatus = "cmd", !.cmdstatus = FINISH]
            [] OTHER -> v
  BY <1>1, <1>5 DEF Addressed
<1>8. FINISH \in CmdStates /\ IdCycles[1] \in CmdStates
  BY DEF CmdStates, IdCycles
<1> HIDE DEF t
<1>9. CASE c.cmd \in Pointers
  <2>1. t = [v EXCEPT !.iostatus = "read"]
    BY <1>4, <1>7, <1>9
  <2>2. "read" \in IoStates
    BY DEF IoStates
  <2>3. /\ t \in NfType /\ t.cmd = v.cmd /\ t.writebuffer = v.writebuffer
        /\ t.address = v.address /\ t.pageoffset = v.pageoffset /\ t.iostatus = "read"
    BY <1>6, <2>1, <2>2 DEF NfType
  <2> QED BY <1>6, <1>9, <2>3 DEF t, a, x
<1> DEFINE Ended(i, y) == [v EXCEPT !.iostatus = i, !.cmdstatus = y]
<1>10. ASSUME NEW i \in IoStates, NEW y \in CmdStates
       PROVE  /\ Ended(i, y) \in NfType /\ Ended(i, y).cmd = v.cmd
              /\ Ended(i, y).writebuffer = v.writebuffer
              /\ Ended(i, y).address = v.address /\ Ended(i, y).pageoffset = v.pageoffset
              /\ Ended(i, y).iostatus = i /\ Ended(i, y).cmdstatus = y
  BY <1>6 DEF NfType
<1>11. "write" \in IoStates /\ "id" \in IoStates /\ "cmd" \in IoStates
  BY DEF IoStates
<1> DEFINE first == IdCycles[1]
<1> HIDE DEF first
<1>15. /\ c.cmd = SEQIN => t = Ended("write", FINISH)
       /\ c.cmd = READID => t = Ended("id", first)
       /\ c.cmd = ERASE1 => t = Ended("cmd", FINISH)
  BY <1>4, <1>7 DEF first
<1>16. first \in CmdStates
  BY <1>8 DEF first
<1> HIDE DEF Ended
<1>12. CASE c.cmd = SEQIN
  <2>1. t = Ended("write", FINISH)
    BY <1>12, <1>15
  <2>2. /\ t \in NfType /\ t.cmd = v.cmd /\ t.writebuffer = v.writebuffer
        /\ t.address = v.address /\ t.pageoffset = v.pageoffset
        /\ t.iostatus = "write" /\ t.cmdstatus = FINISH
    BY <1>8, <1>10, <1>11, <2>1
  <2> QED BY <1>6, <1>12, <2>2 DEF t, a, x
<1>13. CASE c.cmd = READID
  <2>1. t = Ended("id", first)
    BY <1>13, <1>15
  <2>2. /\ t \in NfType /\ t.cmd = v.cmd /\ t.writebuffer = v.writebuffer
        /\ t.address = v.address /\ t.pageoffset = v.pageoffset
        /\ t.iostatus = "id" /\ t.cmdstatus = first
    BY <1>16, <1>10, <1>11, <2>1
  <2> QED BY <1>6, <1>13, <2>2 DEF t, a, x, first
<1>14. CASE c.cmd = ERASE1
  <2>1. t = Ended("cmd", FINISH)
    BY <1>14, <1>15
  <2>2. /\ t \in NfType /\ t.cmd = v.cmd /\ t.writebuffer = v.writebuffer
        /\ t.address = v.address /\ t.pageoffset = v.pageoffset
        /\ t.iostatus = "cmd" /\ t.cmdstatus = FINISH
    BY <1>8, <1>10, <1>11, <2>1
  <2> QED BY <1>6, <1>14, <2>2 DEF t, a, x
<1> QED BY <1>9, <1>12, <1>13, <1>14 DEF Addressing

\* A job between its first and its last address byte.
LEMMA BetweenLinked ==
  ASSUME NEW t, NEW k \in JobType, k.cmd \in Addressing, Cycles(k) < 4,
         Fits(k), Buffered(t, k), t.cmd = k.cmd, t.iostatus = "addr",
         t.cmdstatus = AddrCycles[Cycles(k) + 1],
         t.address = PageSize * RowOf(k), t.pageoffset = Column(k)
  PROVE  Linked(t, k)
<1>1. Cycles(k) # 4
  BY RowType
<1>2. Sent(t, k)
  BY DEF Sent
<1>3. Unarmed(t, k) /\ Naming(t, k) /\ Reporting(t, k)
  BY DEF Unarmed, Naming, Reporting, Addressing
<1>4. Erasing(t, k) /\ Reading(t, k) /\ Placed(t, k)
  BY <1>1 DEF Erasing, Reading, Placed
<1> QED BY <1>2, <1>3, <1>4 DEF Linked

\* A column of the page, in each of its three areas.
LEMMA ColumnInPage ==
  ASSUME NEW j \in JobType, Fits(j), j.cmd \in Addressing
  PROVE  /\ Column(j) \in 0 .. PageDump - 1
         /\ j.cmd = READOOB => Column(j) = PageSize + ByteAt(j.addrs, 1)
         /\ j.cmd = READOOB => ByteAt(j.addrs, 1) < Spare
<1> DEFINE b == ByteAt(j.addrs, 1)
<1>1. b \in Nat
  <2>1. j.addrs \in Seq(0 .. RowBase - 1)
    BY DEF JobType
  <2> QED BY <2>1, ByteFacts
<1>2. /\ HalfPage \in Nat \ {0} /\ Spare \in Nat \ {0}
      /\ PageSize = 2 * HalfPage /\ PageDump = 2 * HalfPage + Spare
  BY Sizes DEF PageSize, PageDump
<1>3. j.area \in {0, HalfPage, PageSize}
  BY DEF JobType
<1>4. CASE j.cmd = ERASE1
  BY <1>2, <1>4 DEF Column
<1>5. CASE j.cmd # ERASE1
  <2>1. Column(j) = j.area + b
    BY <1>5 DEF Column
  <2>2. b < (IF j.area = PageSize THEN Spare ELSE HalfPage)
    BY <1>5 DEF Fits, Addressing
  <2>3. j.cmd = READOOB => j.area = PageSize
    BY DEF Fits, AreaOf
  <2> HIDE DEF b
  <2>4. Column(j) \in 0 .. PageDump - 1
    BY <1>1, <1>2, <1>3, <2>1, <2>2
  <2>5. j.cmd = READOOB => Column(j) = PageSize + b /\ b < Spare
    BY <2>1, <2>2, <2>3
  <2> QED BY <2>4, <2>5 DEF b
<1> QED BY <1>4, <1>5

\* The first cell of a read is the one that is addressed.
LEMMA FirstCell ==
  ASSUME NEW j \in JobType, Fits(j), j.cmd \in Pointers
  PROVE  CellOf(j, 0) = StartOf(j)
<1> DEFINE b == ByteAt(j.addrs, 1)
           m == RowOf(j) * PageDump
<1>0. /\ Column(j) \in 0 .. PageDump - 1
      /\ j.cmd = READOOB => Column(j) = PageSize + b
      /\ j.cmd = READOOB => b < Spare
  BY ColumnInPage DEF Addressing
<1>1. b \in Nat
  <2>1. j.addrs \in Seq(0 .. RowBase - 1)
    BY DEF JobType
  <2> QED BY <2>1, ByteFacts
<1>2. m \in Nat /\ RowOf(j) \in Nat /\ PageSize \in Nat /\ PageDump \in Nat /\ Spare \in Nat \ {0}
  BY RowType, Sizes
<1>3. StartOf(j) = m + Column(j)
  BY DEF StartOf
<1>4. CASE j.cmd = READOOB
  <2>1. b \in 0 .. Spare - 1
    BY <1>0, <1>1, <1>2, <1>4
  <2>2. (0 * Spare + b) \div Spare = 0 /\ (0 * Spare + b) % Spare = b
    <3> HIDE DEF b
    <3> QED BY <1>2, <2>1, DivUnique
  <2>3. b + 0 = 0 * Spare + b
    BY <1>1, <1>2
  <2>4. SpareCell(RowOf(j), b + 0) = (RowOf(j) + 0) * PageDump + PageSize + b
    BY <2>2, <2>3 DEF SpareCell
  <2>5. RowOf(j) + 0 = RowOf(j)
    BY <1>2
  <2>6. SpareCell(RowOf(j), b + 0) = m + PageSize + b
    BY <2>4, <2>5
  <2>7. CellOf(j, 0) = SpareCell(RowOf(j), b + 0)
    BY <1>4 DEF CellOf
  <2> HIDE DEF b, m
  <2> QED BY <1>0, <1>1, <1>2, <1>3, <1>4, <2>6, <2>7
<1>5. CASE j.cmd # READOOB
  <2>1. StartOf(j) \in Nat
    BY RowType
  <2> QED BY <1>5, <2>1 DEF CellOf
<1> QED BY <1>4, <1>5

\* A job after its last address byte.
LEMMA EndedLinked ==
  ASSUME NEW t, NEW k \in JobType, k.cmd \in Addressing, Cycles(k) = 4, k.read = 0,
         Fits(k), Buffered(t, k), k.cmd = SEQIN => Len(k.data) = 0, t.cmd = k.cmd,
         t.address = StartOf(k), t.pageoffset = Column(k),
         t.cmd \in Pointers => t.iostatus = "read",
         t.cmd = SEQIN => t.iostatus = "write" /\ t.cmdstatus = FINISH,
         t.cmd = ERASE1 => t.iostatus = "cmd" /\ t.cmdstatus = FINISH
  PROVE  Linked(t, k)
<1>1. Sent(t, k) /\ Erasing(t, k)
  BY DEF Sent, Erasing
<1>2. Unarmed(t, k) /\ Naming(t, k) /\ Reporting(t, k)
  <2>1. k.cmd \notin {SEQIN, ERASE1} => t.iostatus = "read"
    BY DEF Addressing
  <2> QED BY <2>1 DEF Unarmed, Naming, Reporting, Addressing
<1>3. Reading(t, k)
  <2>1. k.cmd \in Pointers => CellOf(k, k.read) = StartOf(k)
    BY FirstCell
  <2> QED BY <2>1 DEF Reading
<1>4. Placed(t, k)
  <2>1. Column(k) \in Nat /\ Column(k) <= PageDump
    BY ColumnInPage, Sizes
  <2> QED BY <2>1 DEF Placed
<1> QED BY <1>1, <1>2, <1>3, <1>4 DEF Linked

\* What the row contributes to the chip's address, byte by byte.
LEMMA RowShift ==
  ASSUME NEW r \in Nat, NEW byte \in Nat
  PROVE  /\ PageSize * r + (byte * Shift(2)) = PageSize * (r + byte)
         /\ PageSize * r + (byte * Shift(3)) = PageSize * (r + RowBase * byte)
         /\ PageSize * r + (byte * Shift(4)) = PageSize * (r + RowBase * RowBase * byte)
         /\ (PageSize * r) \div PageSize = r
<1>1. PageSize \in Nat \ {0} /\ RowBase \in Nat
  BY Sizes
<1>2. /\ Shift(2) = PageSize /\ Shift(3) = PageSize * RowBase
      /\ Shift(4) = PageSize * RowBase * RowBase
  BY DEF Shift
<1>3. PageSize * r + byte * PageSize = PageSize * (r + byte)
  BY <1>1
<1>4. PageSize * r + byte * (PageSize * RowBase) = PageSize * (r + RowBase * byte)
  BY <1>1
<1>5. PageSize * r + byte * (PageSize * RowBase * RowBase)
        = PageSize * (r + RowBase * RowBase * byte)
  BY <1>1
<1>6. (r * PageSize + 0) \div PageSize = r
  <2>1. 0 \in 0 .. PageSize - 1
    BY <1>1
  <2> QED BY <1>1, <2>1, DivUnique
<1>7. PageSize * r = r * PageSize + 0
  BY <1>1
<1> QED BY <1>2, <1>3, <1>4, <1>5, <1>6, <1>7

\* The driver's job still fits after the byte.
LEMMA AddressFits ==
  ASSUME NEW j \in JobType, Fits(j), NEW byte \in 0 .. RowBase - 1, NEW k, OneMore(j, k, byte),
         Len(j.addrs) # Wants(j.cmd),
         Wants(j.cmd) = 4 /\ Len(j.addrs) = 0 =>
           byte < (IF j.area = PageSize THEN Spare ELSE HalfPage)
  PROVE  /\ Fits(k) /\ k.read = 0
         /\ j.cmd \in Addressing => Cycles(j) < 4
         /\ j.cmd \in Addressing \cup {READID}
<1>1. /\ k.cmd = j.cmd /\ k.area = j.area /\ k.read = j.read
      /\ Len(k.addrs) = Len(j.addrs) + 1
  BY DEF OneMore
<1>2. ByteAt(k.addrs, 1) = IF 1 = Len(j.addrs) + 1 THEN byte ELSE ByteAt(j.addrs, 1)
  BY DEF OneMore
<1>3. Len(j.addrs) \in Nat /\ Wants(j.cmd) \in Nat
  BY RowType DEF Wants
<1>4. Len(j.addrs) < Wants(j.cmd) /\ j.read = 0
  BY <1>3 DEF Fits
<1>5. j.cmd \in Pointers \cup {SEQIN} => Wants(j.cmd) = 4
  BY DEF Wants
<1>6. j.cmd = ERASE1 => Wants(j.cmd) = 3
  BY DEF Wants
<1>7. j.cmd \in Addressing \cup {READID}
  BY <1>3, <1>4 DEF Wants, Addressing
<1>8. j.cmd \in Addressing => Cycles(j) < 4
  BY <1>3, <1>4, <1>5, <1>6 DEF Cycles, Addressing
<1>9. Len(k.addrs) <= Wants(k.cmd)
  BY <1>1, <1>3, <1>4
<1>10. k.cmd \in Pointers => k.area = AreaOf(k.cmd)
  BY <1>1 DEF Fits
<1>11. k.cmd \in Pointers \cup {SEQIN} =>
         ByteAt(k.addrs, 1) < (IF k.area = PageSize THEN Spare ELSE HalfPage)
  <2> SUFFICES ASSUME j.cmd \in Pointers \cup {SEQIN}
               PROVE  ByteAt(k.addrs, 1) < (IF j.area = PageSize THEN Spare ELSE HalfPage)
    BY <1>1
  <2>1. CASE Len(j.addrs) = 0
    <3>1. ByteAt(k.addrs, 1) = byte
      BY <1>2, <2>1
    <3> QED BY <1>5, <2>1, <3>1
  <2>2. CASE Len(j.addrs) # 0
    <3>1. 1 # Len(j.addrs) + 1
      BY <1>3, <2>2
    <3>2. ByteAt(k.addrs, 1) = ByteAt(j.addrs, 1)
      BY <1>2, <3>1
    <3> QED BY <3>2 DEF Fits
  <2> QED BY <2>1, <2>2
<1> QED BY <1>1, <1>4, <1>7, <1>8, <1>9, <1>10, <1>11 DEF Fits

\* nandflash_sb_doaddr in c, the chip s with ALE high and the byte on its pins.
LEMMA AddressLinked ==
  ASSUME NEW s, NEW j \in JobType, Linked(s, j), NEW byte \in 0 .. RowBase - 1,
         NEW c \in NfType, c.cmd = s.cmd, c.iostatus = "addr", c.cmdstatus = s.cmdstatus,
         c.address = s.address, c.pageoffset = s.pageoffset, c.writebuffer = s.writebuffer,
         Len(j.addrs) # Wants(j.cmd),
         Wants(j.cmd) = 4 /\ Len(j.addrs) = 0 =>
           byte < (IF j.area = PageSize THEN Spare ELSE HalfPage),
         NEW t, t = doaddr(c, byte), NEW k, OneMore(j, k, byte)
  PROVE  t \in NfType /\ Linked(t, k)
<1>1. Fits(j) /\ Sent(s, j) /\ Naming(s, j) /\ Buffered(s, j)
  BY DEF Linked
<1>2. /\ Fits(k) /\ k.read = 0 /\ (j.cmd \in Addressing => Cycles(j) < 4)
      /\ j.cmd \in Addressing \cup {READID}
  BY <1>1, AddressFits
<1>3. /\ k \in JobType /\ k.cmd = j.cmd /\ k.area = j.area /\ k.data = j.data
      /\ Len(k.addrs) = Len(j.addrs) + 1 /\ Cycles(k) = Cycles(j) + 1
  BY DEF OneMore
<1>4. byte \in Nat
  BY Sizes
<1>5. CASE j.cmd = READID
  <2>1. Len(j.addrs) = 0
    <3> DEFINE l == Len(j.addrs)
    <3>1. l <= 1 /\ l # 1
      BY <1>1, <1>5 DEF Fits, Wants
    <3>2. l \in Nat
      BY RowType
    <3> HIDE DEF l
    <3>3. l = 0
      BY <3>1, <3>2
    <3> QED BY <3>3 DEF l
  <2>2. s.cmd = READID /\ s.cmdstatus = "addr_4th"
    BY <1>1, <1>5, <2>1 DEF Naming
  <2>3. t \in NfType /\ t.cmd = READID /\ t.iostatus = "id" /\ t.cmdstatus = IdCycles[1]
    BY <1>4, <2>2, LastByte
  <2>4. k.cmd = READID /\ Len(k.addrs) = 1 /\ k.read = 0
    BY <1>2, <1>3, <1>5, <2>1
  <2>5. Sent(t, k) /\ Unarmed(t, k) /\ Erasing(t, k)
    BY <2>3, <2>4 DEF Sent, Unarmed, Erasing, Addressing
  <2>6. Reading(t, k) /\ Reporting(t, k) /\ Placed(t, k) /\ Buffered(t, k)
    BY <2>4 DEF Reading, Reporting, Placed, Buffered
  <2>7. Naming(t, k)
    <3>1. IdCycles[k.read + 1] = IdCycles[1]
      BY <2>4
    <3>2. Len(k.addrs) # 0
      BY <2>4
    <3> QED BY <2>3, <2>4, <3>1, <3>2 DEF Naming
  <2> QED BY <1>2, <2>3, <2>5, <2>6, <2>7 DEF Linked
<1>6. CASE j.cmd \in Addressing
  <2> DEFINE n == Cycles(j)
             r == RowOf(j)
             q == RowOf(k)
  <2>1. n \in {0, 1, 2, 3}
    BY <1>2, <1>6, FewCycles
  <2>2. /\ c.cmd = j.cmd /\ c.cmdstatus = AddrCycles[n + 1]
        /\ c.address = PageSize * r /\ c.pageoffset = Column(j)
    BY <1>1, <1>2, <1>6 DEF Sent
  <2>3. /\ n = 0 => q = 0 /\ r = 0 /\ Column(k) = Column(j) + byte
        /\ n # 0 => Column(k) = Column(j)
        /\ n = 1 => q = r + byte
        /\ n = 2 => q = r + RowBase * byte
        /\ n = 3 => q = r + RowBase * RowBase * byte
    BY <1>2, <1>6, AddressRow
  <2>4. r \in Nat /\ q \in Nat /\ Column(k) \in Nat
    BY <1>3, RowType
  <2>5. Cycles(k) = n + 1 /\ k.cmd \in Addressing
    BY <1>3, <1>6
  <2>6. ASSUME t.writebuffer = c.writebuffer PROVE Buffered(t, k)
    <3> SUFFICES ASSUME k.cmd = SEQIN
                 PROVE  /\ Len(k.data) = 0
                        /\ \A i \in 0 .. PageDump - 1 :
                             /\ t.writebuffer[i] = FF
                             /\ i \notin Range0(Column(k), Len(k.data))
      BY DEF Buffered
    <3>1. Len(j.data) = 0 /\ Len(k.data) = 0
      BY <1>1, <1>2, <1>3, <1>6 DEF Buffered
    <3>2. \A i \in Int, m \in Nat : i \notin Range0(m, 0)
      BY DEF Range0
    <3>3. Column(j) \in Nat
      BY RowType
    <3>4. \A i \in 0 .. PageDump - 1 : s.writebuffer[i] = FF
      BY <1>1, <1>3, <3>1, <3>2, <3>3 DEF Buffered
    <3> QED BY <2>4, <2>6, <3>1, <3>2, <3>4
  <2> HIDE DEF n, r, q
  <2>7. CASE n = 0
    <3>1. c.cmdstatus = "addr_1st"
      BY <2>2, <2>7 DEF AddrCycles
    <3>2. /\ t \in NfType /\ t.cmd = c.cmd /\ t.iostatus = c.iostatus
          /\ t.writebuffer = c.writebuffer
          /\ t.cmdstatus = "addr_2nd" /\ t.address = 0 /\ t.pageoffset = c.pageoffset + byte
      BY <1>4, <3>1, FirstByte
    <3>3. PageSize * q = 0
      BY <2>3, <2>7, Sizes
    <3>4. Cycles(k) = 1 /\ AddrCycles[Cycles(k) + 1] = "addr_2nd"
      BY <2>5, <2>7 DEF AddrCycles
    <3>5. Buffered(t, k)
      BY <2>6, <3>2
    <3>6. t.address = PageSize * RowOf(k) /\ t.pageoffset = Column(k) /\ t.cmd = k.cmd
      BY <1>3, <2>2, <2>3, <2>7, <3>2, <3>3 DEF q
    <3> QED BY <1>2, <1>3, <2>5, <3>2, <3>4, <3>5, <3>6, BetweenLinked
  <2>8. CASE n \in {1, 2}
    <3> DEFINE m == n + 1
    <3>1. m \in {2, 3}
      BY <2>8
    <3>2. c.cmdstatus = AddrCycles[m]
      BY <2>2
    <3> HIDE DEF m
    <3>3. /\ t \in NfType /\ t.cmd = c.cmd /\ t.iostatus = c.iostatus
          /\ t.writebuffer = c.writebuffer /\ t.cmdstatus = AddrCycles[m + 1]
          /\ t.address = c.address + (byte * Shift(m)) /\ t.pageoffset = c.pageoffset
      BY <1>4, <3>1, <3>2, MiddleByte
    <3>4. c.address + (byte * Shift(m)) = PageSize * q
      <4>1. CASE n = 1
        BY <1>4, <2>2, <2>3, <2>4, <4>1, RowShift DEF m
      <4>2. CASE n = 2
        BY <1>4, <2>2, <2>3, <2>4, <4>2, RowShift DEF m
      <4> QED BY <2>8, <4>1, <4>2
    <3>5. Cycles(k) = m /\ Cycles(k) < 4
      BY <2>5, <3>1 DEF m
    <3>6. Buffered(t, k)
      BY <2>6, <3>3
    <3>7. t.address = PageSize * RowOf(k) /\ t.pageoffset = Column(k) /\ t.cmd = k.cmd
      BY <1>3, <2>2, <2>3, <2>8, <3>3, <3>4 DEF q
    <3> QED BY <1>2, <1>3, <2>5, <3>3, <3>5, <3>6, <3>7, BetweenLinked
  <2>9. CASE n = 3
    <3>1. c.cmdstatus = "addr_4th" /\ c.cmd \in Addressing
      BY <1>6, <2>2, <2>9 DEF AddrCycles
    <3>2. c.address + (byte * Shift(4)) = PageSize * q
      <4>1. PageSize * r + (byte * Shift(4)) = PageSize * (r + RowBase * RowBase * byte)
        BY <1>4, <2>4, RowShift
      <4>2. q = r + RowBase * RowBase * byte
        BY <2>3, <2>9
      <4> QED BY <2>2, <4>1, <4>2
    <3>3. (PageSize * q) \div PageSize = q
      BY <1>4, <2>4, RowShift
    <3>4. /\ t \in NfType /\ t.cmd = c.cmd /\ t.writebuffer = c.writebuffer
          /\ t.address =
               (((c.address + (byte * Shift(4))) \div PageSize) * PageDump) + c.pageoffset
          /\ t.pageoffset = c.pageoffset
          /\ t.cmd \in Pointers => t.iostatus = "read"
          /\ t.cmd = SEQIN => t.iostatus = "write" /\ t.cmdstatus = FINISH
          /\ t.cmd = ERASE1 => t.iostatus = "cmd" /\ t.cmdstatus = FINISH
      BY <1>4, <3>1, LastByte
    <3>5. t.address = (q * PageDump) + c.pageoffset
      BY <3>2, <3>3, <3>4
    <3>6. t.address = StartOf(k) /\ t.pageoffset = Column(k) /\ t.cmd = k.cmd
      BY <1>3, <2>2, <2>3, <2>9, <3>4, <3>5 DEF StartOf, q
    <3>7. Cycles(k) = 4
      BY <2>5, <2>9
    <3>8. Buffered(t, k)
      BY <2>6, <3>4
    <3>9. k.cmd = SEQIN => Len(k.data) = 0
      BY <1>1, <1>2, <1>3, <1>6 DEF Buffered
    <3> QED BY <1>2, <1>3, <2>5, <3>4, <3>6, <3>7, <3>8, <3>9, EndedLinked
  <2> QED BY <2>1, <2>7, <2>8, <2>9
<1> QED BY <1>2, <1>5, <1>6

-----------------------------------------------------------------------------
(* Data bytes *)

\* nandflash_sb_dodatawrite on a page offset inside the buffer.
LEMMA BufferByte ==
  ASSUME NEW c \in NfType, NEW byte \in NandBytes, c.pageoffset < PageDump
  PROVE  /\ dodatawrite(c, byte) \in NfType
         /\ dodatawrite(c, byte).cmd = c.cmd /\ dodatawrite(c, byte).iostatus = c.iostatus
         /\ dodatawrite(c, byte).cmdstatus = c.cmdstatus
         /\ dodatawrite(c, byte).address = c.address
         /\ dodatawrite(c, byte).pageoffset = c.pageoffset + 1
         /\ \A i \in 0 .. PageDump - 1 :
              dodatawrite(c, byte).writebuffer[i] =
                IF i = c.pageoffset THEN byte ELSE c.writebuffer[i]
<1> DEFINE o == c.pageoffset
           p == o + 1
           w == [c.writebuffer EXCEPT ![o] = byte]
           t == dodatawrite(c, byte)
<1>1. o \in Nat /\ o \in 0 .. PageDump - 1 /\ p \in Nat
  <2>1. o \in Nat
    BY DEF NfType
  <2> QED BY <2>1, Sizes
<1>2. t = [c EXCEPT !.writebuffer = w, !.pageoffset = p]
  BY DEF dodatawrite
<1>3. c.writebuffer \in [0 .. PageDump - 1 -> {FF} \cup NandBytes]
  BY DEF NfType
<1>4. /\ w \in [0 .. PageDump - 1 -> {FF} \cup NandBytes]
      /\ \A i \in 0 .. PageDump - 1 : w[i] = IF i = o THEN byte ELSE c.writebuffer[i]
  <2> HIDE DEF o
  <2> QED BY <1>1, <1>3
<1> HIDE DEF w, p, t
<1>5. t \in NfType
  BY <1>1, <1>2, <1>4 DEF NfType
<1>6. /\ t.cmd = c.cmd /\ t.iostatus = c.iostatus /\ t.cmdstatus = c.cmdstatus
      /\ t.address = c.address /\ t.pageoffset = p /\ t.writebuffer = w
  BY <1>2 DEF NfType
<1> QED BY <1>4, <1>5, <1>6 DEF t, p

\* The job of a driver that has sent one more data byte.
LEMMA DataJob ==
  ASSUME NEW j \in JobType, NEW byte \in NandBytes,
         NEW k, k = [j EXCEPT !.data = Append(@, byte)]
  PROVE  /\ k \in JobType /\ k.cmd = j.cmd /\ k.area = j.area /\ k.addrs = j.addrs
         /\ k.read = j.read
         /\ Len(j.data) \in Nat /\ Len(k.data) = Len(j.data) + 1
         /\ \A i \in 1 .. Len(k.data) :
              k.data[i] = IF i = Len(j.data) + 1 THEN byte ELSE j.data[i]
<1> DEFINE a == j.data
           b == Append(a, byte)
<1>1. a \in Seq(NandBytes)
  BY DEF JobType
<1>2. Len(a) \in Nat
  BY <1>1, LenProperties
<1>3. /\ b \in Seq(NandBytes) /\ Len(b) = Len(a) + 1
      /\ \A i \in 1 .. Len(a) : b[i] = a[i]
      /\ b[Len(a) + 1] = byte
  BY <1>1, AppendProperties
<1>4. k = [j EXCEPT !.data = b]
  OBVIOUS
<1> HIDE DEF b
<1>5. k \in JobType
  BY <1>3, <1>4 DEF JobType
<1>6. /\ k.cmd = j.cmd /\ k.area = j.area /\ k.addrs = j.addrs /\ k.read = j.read
      /\ k.data = b
  BY <1>4 DEF JobType
<1>7. \A i \in 1 .. Len(b) : b[i] = IF i = Len(a) + 1 THEN byte ELSE a[i]
  BY <1>2, <1>3
<1> HIDE DEF a
<1>8. j.data = a
  BY DEF a
<1> QED BY <1>2, <1>3, <1>5, <1>6, <1>7, <1>8

\* Jobs that differ in their data have the same addresses.
LEMMA SameAddresses ==
  ASSUME NEW j, NEW k, k.cmd = j.cmd, k.area = j.area, k.addrs = j.addrs
  PROVE  /\ Cycles(k) = Cycles(j) /\ RowOf(k) = RowOf(j) /\ Column(k) = Column(j)
         /\ StartOf(k) = StartOf(j)
         /\ \A n : CellOf(k, n) = CellOf(j, n)
         /\ (k.read = j.read /\ Fits(j)) => Fits(k)
<1>1. \A n : RowByte(k, n) = RowByte(j, n)
  BY DEF RowByte
<1>2. Cycles(k) = Cycles(j) /\ RowOf(k) = RowOf(j) /\ Column(k) = Column(j)
  BY <1>1 DEF Cycles, RowOf, Column
<1>3. StartOf(k) = StartOf(j)
  BY <1>2 DEF StartOf
<1>4. \A n : CellOf(k, n) = CellOf(j, n)
  BY <1>2, <1>3 DEF CellOf
<1>5. (k.read = j.read /\ Fits(j)) => Fits(k)
  BY DEF Fits
<1> QED BY <1>2, <1>3, <1>4, <1>5

\* A data byte of a program, in c, the chip s with the byte on its pins.
LEMMA DataLinked ==
  ASSUME NEW s, NEW j \in JobType, Linked(s, j), NEW byte \in NandBytes,
         j.cmd = SEQIN, Cycles(j) = 4, Column(j) + Len(j.data) < PageDump,
         NEW c \in NfType, c.cmd = s.cmd, c.iostatus = s.iostatus, c.cmdstatus = s.cmdstatus,
         c.address = s.address, c.pageoffset = s.pageoffset, c.writebuffer = s.writebuffer,
         NEW t, t = dodatawrite(c, byte),
         NEW k, k = [j EXCEPT !.data = Append(@, byte)]
  PROVE  t \in NfType /\ k \in JobType /\ Linked(t, k)
<1> DEFINE col == Column(j)
           len == Len(j.data)
<1>1. Fits(j) /\ Sent(s, j) /\ Placed(s, j) /\ Buffered(s, j)
  BY DEF Linked
<1>2. /\ k \in JobType /\ k.cmd = j.cmd /\ k.area = j.area /\ k.addrs = j.addrs
      /\ k.read = j.read
      /\ len \in Nat /\ Len(k.data) = len + 1
      /\ \A i \in 1 .. Len(k.data) : k.data[i] = IF i = len + 1 THEN byte ELSE j.data[i]
  BY DataJob
<1>3. Cycles(k) = 4 /\ Column(k) = col /\ StartOf(k) = StartOf(j) /\ Fits(k)
  BY <1>1, <1>2, SameAddresses, ZenonT(60)
<1>4. col \in Nat
  BY RowType
<1>5. /\ s.cmd = SEQIN /\ s.cmdstatus = FINISH /\ s.iostatus = "write"
      /\ s.address = StartOf(j) /\ s.pageoffset = col + len
  BY <1>1 DEF Sent, Placed, Addressing
<1>6. c.pageoffset < PageDump
  BY <1>5
<1>7. /\ t \in NfType /\ t.cmd = c.cmd /\ t.iostatus = c.iostatus
      /\ t.cmdstatus = c.cmdstatus /\ t.address = c.address
      /\ t.pageoffset = c.pageoffset + 1
      /\ \A i \in 0 .. PageDump - 1 :
           t.writebuffer[i] = IF i = c.pageoffset THEN byte ELSE c.writebuffer[i]
  BY <1>6, BufferByte
<1>8. k.cmd = SEQIN
  BY <1>2
<1>9. Sent(t, k) /\ Unarmed(t, k) /\ Erasing(t, k)
  BY <1>3, <1>5, <1>7, <1>8 DEF Sent, Unarmed, Erasing
<1>10. Reading(t, k) /\ Naming(t, k) /\ Reporting(t, k)
  BY <1>8 DEF Reading, Naming, Reporting
<1>11. Placed(t, k)
  <2>1. t.pageoffset = col + (len + 1) /\ t.pageoffset <= PageDump
    BY <1>2, <1>4, <1>5, <1>7, Sizes, SMTT(40)
  <2> QED BY <1>2, <1>3, <1>5, <1>7, <2>1 DEF Placed
<1>12. Buffered(t, k)
  <2> HIDE DEF col, len
  <2> SUFFICES ASSUME NEW i \in 0 .. PageDump - 1
               PROVE  t.writebuffer[i] = IF i \in Range0(col, len + 1)
                                           THEN k.data[i - col + 1] ELSE FF
    <3>1. Len(k.data) = len + 1 /\ Column(k) = col /\ ~(Cycles(k) < 4)
      BY <1>2, <1>3
    <3> QED BY <3>1, ZenonT(60) DEF Buffered
  <2>1. s.writebuffer[i] = IF i \in Range0(col, len) THEN j.data[i - col + 1] ELSE FF
    BY <1>1 DEF Buffered, col, len
  <2>2. t.writebuffer[i] = IF i = col + len THEN byte ELSE s.writebuffer[i]
    BY <1>5, <1>7
  <2>3. i \in Int
    OBVIOUS
  <2>4. CASE i = col + len
    <3>1. i \in Range0(col, len + 1) /\ i - col + 1 = len + 1 /\ len + 1 \in 1 .. Len(k.data)
      BY <1>2, <1>4, <2>3, <2>4 DEF Range0
    <3> QED BY <1>2, <2>2, <2>4, <3>1
  <2>5. CASE i # col + len
    <3>1. i \in Range0(col, len + 1) <=> i \in Range0(col, len)
      <4>1. len \in Nat /\ col \in Nat
        BY <1>2, <1>4
      <4> HIDE <1>2
      <4> QED BY <2>3, <2>5, <4>1 DEF Range0
    <3>2. i \in Range0(col, len) => /\ i - col + 1 \in 1 .. Len(k.data)
                                    /\ i - col + 1 # len + 1
      BY <1>2, <1>4, <2>3, SMTT(40) DEF Range0
    <3>3. i \in Range0(col, len) => k.data[i - col + 1] = j.data[i - col + 1]
      BY <1>2, <3>2
    <3> QED BY <2>1, <2>2, <2>5, <3>1, <3>3
  <2> QED BY <2>4, <2>5
<1> QED BY <1>2, <1>3, <1>7, <1>9, <1>10, <1>11, <1>12 DEF Linked

-----------------------------------------------------------------------------
(* Reads *)

\* The next cell of a read is where the chip goes on.
LEMMA NextCell ==
  ASSUME NEW s, NEW j \in JobType, j.cmd \in Pointers, s.cmd = j.cmd,
         s.address = CellOf(j, j.read)
  PROVE  CellOf(j, j.read) \in Nat /\ NextAddress(s) = CellOf(j, j.read + 1)
<1>1. j.read \in Nat /\ StartOf(j) \in Nat /\ RowOf(j) \in Nat
  BY RowType DEF JobType
<1>2. CASE j.cmd = READOOB
  <2> DEFINE b == ByteAt(j.addrs, 1)
             x == b + j.read
             row == RowOf(j)
  <2>1. b \in Nat
    <3>1. j.addrs \in Seq(0 .. RowBase - 1)
      BY DEF JobType
    <3> QED BY <3>1, ByteFacts
  <2>2. x \in Nat /\ b + (j.read + 1) = x + 1
    <3> HIDE DEF b
    <3> QED BY <1>1, <2>1
  <2>3. CellOf(j, j.read) = SpareCell(row, x) /\ CellOf(j, j.read + 1) = SpareCell(row, x + 1)
    BY <1>2, <2>2 DEF CellOf
  <2>4. row \in Nat
    BY <1>1
  <2> HIDE DEF x, row
  <2>5. /\ SpareCell(row, x) \in Nat
        /\ SpareCell(row, x + 1) =
             IF (SpareCell(row, x) + 1) % PageDump = 0 THEN SpareCell(row, x) + 1 + PageSize
                                                       ELSE SpareCell(row, x) + 1
    BY <2>2, <2>4, SpareStep
  <2>6. s.address = SpareCell(row, x) /\ s.cmd = READOOB
    BY <1>2, <2>3
  <2> QED BY <2>3, <2>5, <2>6 DEF NextAddress
<1>3. CASE j.cmd # READOOB
  <2>1. CellOf(j, j.read) = StartOf(j) + j.read
    BY <1>3 DEF CellOf
  <2>2. CellOf(j, j.read + 1) = StartOf(j) + (j.read + 1)
    BY <1>3 DEF CellOf
  <2>3. NextAddress(s) = s.address + 1
    BY <1>3 DEF NextAddress
  <2> QED BY <1>1, <2>1, <2>2, <2>3
<1> QED BY <1>2, <1>3

\* The job of a driver that has read one more byte.
LEMMA ReadJob ==
  ASSUME NEW j \in JobType, NEW k, k = [j EXCEPT !.read = @ + 1]
  PROVE  /\ k \in JobType /\ k.cmd = j.cmd /\ k.area = j.area /\ k.addrs = j.addrs
         /\ k.data = j.data /\ k.read = j.read + 1 /\ j.read \in Nat
<1> DEFINE r == j.read + 1
<1>1. r \in Nat /\ j.read \in Nat
  BY DEF JobType
<1>2. k = [j EXCEPT !.read = r]
  OBVIOUS
<1> HIDE DEF r
<1>3. k \in JobType
  BY <1>1, <1>2 DEF JobType
<1>4. /\ k.cmd = j.cmd /\ k.area = j.area /\ k.addrs = j.addrs /\ k.data = j.data
      /\ k.read = r
  BY <1>2 DEF JobType
<1> QED BY <1>1, <1>3, <1>4 DEF r

\* nandflash_sb_doread: the byte at the address, and the next address.
LEMMA ReadByte ==
  ASSUME NEW s \in NfType, NEW c \in [0 .. DeviceSize - 1 -> {0, 15, 240, FF}],
         s.address < DeviceSize, NextAddress(s) \in Nat
  PROVE  /\ doread(s, c) \in NfType
         /\ doread(s, c).IOPIN = c[s.address] /\ doread(s, c).address = NextAddress(s)
         /\ doread(s, c).cmd = s.cmd /\ doread(s, c).iostatus = s.iostatus
<1> DEFINE t == doread(s, c)
           x == c[s.address]
           y == NextAddress(s)
<1>1. t = [s EXCEPT !.IOPIN = x, !.address = y]
  BY DEF doread
<1>2. x \in Nat
  <2>1. s.address \in 0 .. DeviceSize - 1
    <3>1. s.address \in Nat
      BY DEF NfType
    <3>2. DeviceSize \in Nat
      BY Sizes DEF DeviceSize
    <3> QED BY <3>1, <3>2
  <2>2. x \in {0, 15, 240, FF}
    BY <2>1
  <2> QED BY <2>2 DEF FF
<1> HIDE DEF t, x, y
<1>3. y \in Nat
  BY DEF y
<1>4. t \in NfType
  BY <1>1, <1>2, <1>3 DEF NfType
<1>5. t.IOPIN = x /\ t.address = y /\ t.cmd = s.cmd /\ t.iostatus = s.iostatus
  BY <1>1 DEF NfType
<1> QED BY <1>4, <1>5 DEF t, x, y

\* nandflash_sb_doreadid at identification byte n.
LEMMA ReadIdByte ==
  ASSUME NEW s \in NfType, NEW n \in 1 .. 4, s.cmdstatus = IdCycles[n]
  PROVE  /\ doreadid(s) \in NfType /\ doreadid(s).cmd = s.cmd
         /\ n < 4 => doreadid(s).iostatus = s.iostatus /\ doreadid(s).cmdstatus = IdCycles[n + 1]
         /\ n = 4 => doreadid(s).iostatus = "none"
<1> DEFINE t == doreadid(s)
           k == CHOOSE i \in 1 .. 4 : IdCycles[i] = s.cmdstatus
           x == IDs[n]
<1>1. k \in 1 .. 4 /\ IdCycles[k] = IdCycles[n]
  <2>1. \E i \in 1 .. 4 : IdCycles[i] = s.cmdstatus
    OBVIOUS
  <2> QED BY <2>1
<1>2. k = n
  <2> HIDE DEF k
  <2> QED BY <1>1 DEF IdCycles
<1>3. IF k = 4 THEN t = [s EXCEPT !.IOPIN = IDs[4], !.cmdstatus = NOSTATUS, !.iostatus = "none"]
               ELSE t = [s EXCEPT !.IOPIN = IDs[k], !.cmdstatus = IdCycles[k + 1]]
  BY DEF doreadid
<1> HIDE DEF k, t
<1>4. x \in Nat
  BY NandAssumption
<1>5. CASE n = 4
  <2>1. t = [s EXCEPT !.IOPIN = x, !.cmdstatus = NOSTATUS, !.iostatus = "none"]
    BY <1>2, <1>3, <1>5
  <2>2. NOSTATUS \in CmdStates /\ "none" \in IoStates
    BY DEF CmdStates, IoStates
  <2> HIDE DEF x
  <2>3. t \in NfType /\ t.cmd = s.cmd /\ t.iostatus = "none"
    BY <1>4, <2>1, <2>2 DEF NfType
  <2> QED BY <1>5, <2>3 DEF t
<1>6. CASE n < 4
  <2> DEFINE y == IdCycles[n + 1]
  <2>1. t = [s EXCEPT !.IOPIN = x, !.cmdstatus = y]
    BY <1>2, <1>3, <1>6
  <2>2. y \in CmdStates
    BY <1>6 DEF CmdStates, IdCycles
  <2> HIDE DEF x, y
  <2>3. t \in NfType /\ t.cmd = s.cmd /\ t.iostatus = s.iostatus /\ t.cmdstatus = y
    BY <1>4, <2>1, <2>2 DEF NfType
  <2> QED BY <1>6, <2>3 DEF t, y
<1> QED BY <1>5, <1>6

\* nandflash_sb_readdata for each job that may read.
LEMMA ReadLinked ==
  ASSUME NEW s \in NfType, NEW j \in JobType, Linked(s, j), s.CE,
         NEW c \in [0 .. DeviceSize - 1 -> {0, 15, 240, FF}],
         Len(j.addrs) = Wants(j.cmd), j.cmd \in Pointers \cup {READID, STATUSCMD},
         j.cmd \in Pointers => CellOf(j, j.read) < DeviceSize,
         j.cmd = READID => j.read < 4,
         NEW t, t = readdata(s, c),
         NEW k \in JobType, k.cmd = j.cmd, k.area = j.area, k.addrs = j.addrs,
         k.read = j.read + 1
  PROVE  /\ t \in NfType /\ Linked(t, k)
         /\ j.cmd \in Pointers => t.IOPIN = c[CellOf(j, j.read)]
<1>1. /\ Fits(j) /\ Sent(s, j) /\ Unarmed(s, j) /\ Reading(s, j) /\ Naming(s, j)
      /\ Reporting(s, j)
  BY DEF Linked
<1>2. /\ k \in JobType /\ k.cmd = j.cmd /\ k.area = j.area /\ k.addrs = j.addrs
      /\ k.read = j.read + 1 /\ j.read \in Nat
  BY DEF JobType
<1>3. Cycles(k) = Cycles(j) /\ CellOf(k, k.read) = CellOf(j, k.read)
  BY SameAddresses
<1>4. Fits(k)
  BY <1>1, <1>2 DEF Fits
<1>5. Erasing(t, k) /\ Placed(t, k) /\ Buffered(t, k)
  BY <1>2 DEF Erasing, Placed, Buffered
<1>6. CASE j.cmd \in Pointers
  <2>1. Cycles(j) = 4
    BY <1>6 DEF Wants, Cycles
  <2>2. s.cmd = j.cmd /\ s.iostatus = "read" /\ s.address = CellOf(j, j.read)
    BY <1>1, <1>6, <2>1 DEF Sent, Reading, Addressing
  <2>3. NextAddress(s) = CellOf(j, j.read + 1)
    BY <1>6, <2>2, NextCell
  <2>4. CellOf(j, j.read + 1) \in Nat
    <3> DEFINE z == [s EXCEPT !.address = CellOf(k, k.read)]
    <3>1. z.cmd = k.cmd /\ z.address = CellOf(k, k.read)
      BY <1>2, <2>2 DEF NfType
    <3> HIDE DEF z
    <3>2. CellOf(k, k.read) \in Nat
      BY <1>2, <1>6, <3>1, NextCell
    <3> QED BY <1>2, <1>3, <3>2
  <2>5. t = doread(s, c)
    BY <2>2 DEF readdata
  <2>6. /\ t \in NfType /\ t.IOPIN = c[s.address] /\ t.address = NextAddress(s)
        /\ t.cmd = s.cmd /\ t.iostatus = s.iostatus
    <3>1. s.address < DeviceSize /\ NextAddress(s) \in Nat
      BY <1>6, <2>2, <2>3, <2>4
    <3>2. /\ doread(s, c) \in NfType
          /\ doread(s, c).IOPIN = c[s.address] /\ doread(s, c).address = NextAddress(s)
          /\ doread(s, c).cmd = s.cmd /\ doread(s, c).iostatus = s.iostatus
      BY <3>1, ReadByte, Zenon
    <3> QED BY <2>5, <3>2
  <2>7. t.address = CellOf(k, k.read)
    BY <1>2, <1>3, <2>3, <2>6
  <2>8. Sent(t, k) /\ Unarmed(t, k)
    BY <1>2, <1>3, <1>6, <2>1, <2>2, <2>6 DEF Sent, Unarmed
  <2>9. Reading(t, k) /\ Naming(t, k) /\ Reporting(t, k)
    BY <1>2, <1>6, <2>2, <2>6, <2>7 DEF Reading, Naming, Reporting
  <2> QED BY <1>2, <1>4, <1>5, <2>2, <2>6, <2>8, <2>9 DEF Linked
<1>7. CASE j.cmd = READID
  <2>1. Len(j.addrs) = 1
    BY <1>7 DEF Wants
  <2> DEFINE n == j.read + 1
  <2>2. n \in 1 .. 4
    BY <1>2, <1>7
  <2>3. s.cmd = READID /\ s.iostatus = "id" /\ s.cmdstatus = IdCycles[n]
    BY <1>1, <1>7, <2>1 DEF Naming
  <2>4. t = doreadid(s)
    BY <2>3 DEF readdata
  <2>5. k.read = n
    BY <1>2
  <2> HIDE DEF n
  <2>6. /\ t \in NfType /\ t.cmd = s.cmd
        /\ n < 4 => t.iostatus = s.iostatus /\ t.cmdstatus = IdCycles[n + 1]
        /\ n = 4 => t.iostatus = "none"
    BY <2>2, <2>3, <2>4, ReadIdByte
  <2>7. k.cmd = READID /\ Len(k.addrs) = 1
    BY <1>2, <1>7, <2>1
  <2>8. t.iostatus # "write"
    BY <2>2, <2>3, <2>6
  <2>9. Sent(t, k) /\ Unarmed(t, k) /\ Reading(t, k) /\ Reporting(t, k)
    BY <2>3, <2>6, <2>7, <2>8 DEF Sent, Unarmed, Reading, Reporting, Addressing
  <2>10. Naming(t, k)
    <3> DEFINE l == Len(k.addrs)
    <3>0. l = 1
      BY <2>7
    <3> HIDE DEF l
    <3>2. l # 0
      BY <3>0
    <3>1. Len(k.addrs) # 0
      BY <3>2 DEF l
    <3> QED BY <2>3, <2>5, <2>6, <2>7, <3>1 DEF Naming
  <2> QED BY <1>2, <1>4, <1>5, <1>7, <2>6, <2>9, <2>10 DEF Linked
<1>8. CASE j.cmd = STATUSCMD
  <2>1. s.iostatus \in {"status", "none"} /\ s.cmd # SEQIN /\ s.cmd # ERASE1
    BY <1>1, <1>8 DEF Reporting, Unarmed
  <2>2. CASE s.iostatus = "status"
    <3>1. t = [s EXCEPT !.IOPIN = 192, !.iostatus = "none"]
      BY <2>2 DEF readdata
    <3>2. "none" \in IoStates
      BY DEF IoStates
    <3> DEFINE x == 192
    <3>x. x \in Nat
      OBVIOUS
    <3> HIDE DEF x
    <3>y. t = [s EXCEPT !.IOPIN = x, !.iostatus = "none"]
      BY <3>1 DEF x
    <3>3. t \in NfType /\ t.cmd = s.cmd /\ t.iostatus = "none"
      BY <3>x, <3>y, <3>2, ZenonT(60) DEF NfType
    <3>4. Sent(t, k) /\ Unarmed(t, k) /\ Reading(t, k) /\ Naming(t, k) /\ Reporting(t, k)
      BY <1>2, <1>8, <2>1, <3>3 DEF Sent, Unarmed, Reading, Naming, Reporting, Addressing
    <3> QED BY <1>2, <1>4, <1>5, <1>8, <3>3, <3>4 DEF Linked
  <2>3. CASE s.iostatus = "none"
    <3>1. t = s
      BY <2>3 DEF readdata
    <3>2. Sent(t, k) /\ Unarmed(t, k) /\ Reading(t, k) /\ Naming(t, k) /\ Reporting(t, k)
      BY <1>2, <1>8, <2>1, <2>3, <3>1 DEF Sent, Unarmed, Reading, Naming, Reporting, Addressing
    <3> QED BY <1>2, <1>4, <1>5, <1>8, <3>1, <3>2 DEF Linked
  <2> QED BY <2>1, <2>2, <2>3
<1> QED BY <1>6, <1>7, <1>8

-----------------------------------------------------------------------------
(* What a completed command makes of the file *)

BlockErased(c, j) == [i \in DOMAIN c |->
                        IF i \div EraseSize = RowOf(j) \div PagesPerBlock THEN FF ELSE c[i]]

Programmed(c, j) == [i \in DOMAIN c |->
                       IF i \in Range0(StartOf(j), Len(j.data))
                         THEN And(c[i], j.data[i - StartOf(j) + 1]) ELSE c[i]]

\* nandflash_sb_doerase sets the block of the page that the driver addressed.
LEMMA EraseOutcome ==
  ASSUME NEW c \in Cells, NEW s, NEW j \in JobType, j.cmd = ERASE1, s.address = StartOf(j)
  PROVE  doerase(s, c) = BlockErased(c, j) /\ BlockErased(c, j) \in Cells
<1> DEFINE row == RowOf(j)
           q == row \div PagesPerBlock
           a == s.address
<1>1. row \in Nat
  BY RowType
<1>2. /\ PageDump \in Nat \ {0} /\ PagesPerBlock \in Nat \ {0} /\ EraseSize \in Nat \ {0}
      /\ EraseSize = PageDump * PagesPerBlock
  BY Sizes DEF EraseSize
<1>3. a = row * PageDump
  <2>1. Column(j) = 0
    BY DEF Column
  <2>2. row * PageDump \in Nat
    BY <1>1, <1>2
  <2> QED BY <2>1, <2>2 DEF StartOf
<1> HIDE DEF row
<1>4. a \div EraseSize = q /\ q \in Nat
  <2>1. (row * PageDump) \div (PageDump * PagesPerBlock) = row \div PagesPerBlock
    BY <1>1, <1>2, DivBlock
  <2>2. row \div PagesPerBlock \in Nat
    BY <1>1, <1>2, DivMod
  <2> QED BY <1>2, <1>3, <2>1, <2>2
<1>5. a \in Nat
  BY <1>1, <1>2, <1>3
<1> HIDE DEF q, a
<1>6. EraseBase(a) = q * EraseSize /\ q * EraseSize \in Nat
  <2> DEFINE m == a % EraseSize
             n == q * EraseSize
  <2>1. a = n + m /\ m \in Nat /\ n \in Nat
    <3>1. /\ a = ((a \div EraseSize) * EraseSize) + (a % EraseSize)
          /\ a % EraseSize \in 0 .. EraseSize - 1
      BY <1>2, <1>5, DivMod
    <3>2. n \in Nat
      BY <1>2, <1>4
    <3> QED BY <1>2, <1>4, <3>1, <3>2
  <2>2. EraseBase(a) = a - m
    BY DEF EraseBase
  <2> HIDE DEF m, n
  <2>3. EraseBase(a) = n
    BY <1>5, <2>1, <2>2
  <2> QED BY <2>1, <2>3 DEF n
<1>7. DOMAIN c = 0 .. DeviceSize - 1 /\ \A i \in DOMAIN c : c[i] \in {0, 15, 240, FF}
  BY DEF Cells
<1>8. ASSUME NEW i \in DOMAIN c
      PROVE  i \in Range0(EraseBase(a), EraseSize) <=> i \div EraseSize = q
  <2>1. i \in Nat
    BY <1>7
  <2>2. i \div EraseSize = q <=> i \in q * EraseSize .. q * EraseSize + EraseSize - 1
    BY <1>2, <1>4, <2>1, DivRange
  <2> QED BY <1>6, <2>2 DEF Range0
<1>9. doerase(s, c) = [i \in DOMAIN c |-> IF i \in Range0(EraseBase(a), EraseSize)
                                            THEN FF ELSE c[i]]
  BY DEF doerase, a
<1>10. BlockErased(c, j) = [i \in DOMAIN c |-> IF i \div EraseSize = q THEN FF ELSE c[i]]
  BY DEF BlockErased, q, row
<1>11. doerase(s, c) = BlockErased(c, j)
  BY <1>8, <1>9, <1>10
<1>12. BlockErased(c, j) \in Cells
  BY <1>7, <1>10 DEF Cells
<1> QED BY <1>11, <1>12

\* And keeps the bytes of the model, and a byte of ones changes nothing.
LEMMA AndFacts ==
  ASSUME NEW x \in {0, 15, 240, FF}
  PROVE  And(x, FF) = x /\ \A y \in {FF} \cup NandBytes : And(x, y) \in {0, 15, 240, FF}
<1>1. NandBytes \subseteq {15, 240}
  BY NandAssumption
<1> QED BY <1>1 DEF And, FF

\* nandflash_sb_finishwrite ands the bytes of this program into the page, where the
\* driver addressed them, and leaves the rest of the page as it was.
LEMMA ProgramOutcome ==
  ASSUME NEW c \in Cells, NEW s \in NfType, NEW j \in JobType, j.cmd = SEQIN, Cycles(j) = 4,
         Fits(j), Placed(s, j), Buffered(s, j)
  PROVE  finishwrite(s, c) = Programmed(c, j) /\ Programmed(c, j) \in Cells
<1> DEFINE row == RowOf(j)
           col == Column(j)
           len == Len(j.data)
           start == StartOf(j)
           base == s.address - (s.address % PageDump)
<1>1. /\ s.address = start /\ s.pageoffset = col + len /\ col + len <= PageDump
  BY DEF Placed
<1>2. \A i \in 0 .. PageDump - 1 :
        s.writebuffer[i] = IF i \in Range0(col, len) THEN j.data[i - col + 1] ELSE FF
  BY DEF Buffered
<1>3. row \in Nat /\ start = row * PageDump + col /\ PageDump \in Nat \ {0}
  BY RowType, Sizes DEF StartOf
<1>4. col \in 0 .. PageDump - 1 /\ col \in Nat
  BY ColumnInPage, RowType DEF Addressing
<1>5. len \in Nat
  <2>1. j.data \in Seq(NandBytes)
    BY DEF JobType
  <2> QED BY <2>1, LenProperties
<1>6. \A i \in 0 .. PageDump - 1 : s.writebuffer[i] \in {FF} \cup NandBytes
  BY DEF NfType
<1> HIDE DEF row, col, len, start
<1>7. base = row * PageDump /\ row * PageDump \in Nat
  <2> DEFINE m == row * PageDump
  <2>1. (row * PageDump + col) % PageDump = col
    BY <1>3, <1>4, DivUnique
  <2>2. m \in Nat
    BY <1>3
  <2>3. s.address = m + col /\ s.address % PageDump = col
    BY <1>1, <1>3, <2>1
  <2> HIDE DEF m
  <2>4. base = m
    BY <1>4, <2>2, <2>3
  <2> QED BY <2>2, <2>4 DEF m
<1>8. base \in Nat /\ start = base + col
  BY <1>3, <1>7
<1> DEFINE wb == s.writebuffer
<1>9. finishwrite(s, c) = [i \in DOMAIN c |-> IF i \in Range0(base, PageDump)
                                                THEN And(c[i], wb[i - base]) ELSE c[i]]
  BY DEF finishwrite
<1>10. Programmed(c, j) = [i \in DOMAIN c |-> IF i \in Range0(start, len)
                             THEN And(c[i], j.data[i - start + 1]) ELSE c[i]]
  BY DEF Programmed, start, len
<1>11. DOMAIN c = 0 .. DeviceSize - 1 /\ \A i \in DOMAIN c : c[i] \in {0, 15, 240, FF}
  BY DEF Cells
<1> HIDE DEF base, wb
<1>12. ASSUME NEW i \in DOMAIN c
       PROVE  /\ (IF i \in Range0(base, PageDump) THEN And(c[i], wb[i - base]) ELSE c[i]) =
                 (IF i \in Range0(start, len) THEN And(c[i], j.data[i - start + 1]) ELSE c[i])
              /\ (IF i \in Range0(base, PageDump) THEN And(c[i], wb[i - base]) ELSE c[i])
                   \in {0, 15, 240, FF}
  <2>1. i \in Nat /\ c[i] \in {0, 15, 240, FF}
    BY <1>11
  <2>2. And(c[i], FF) = c[i] /\ \A y \in {FF} \cup NandBytes : And(c[i], y) \in {0, 15, 240, FF}
    BY <2>1, AndFacts
  <2>3. i \in Range0(start, len) => i \in Range0(base, PageDump)
    BY <1>1, <1>3, <1>4, <1>5, <1>8, <2>1 DEF Range0
  <2>4. CASE i \in Range0(base, PageDump)
    <3> DEFINE x == i - base
    <3>1. x \in 0 .. PageDump - 1
      BY <1>3, <1>8, <2>1, <2>4 DEF Range0
    <3>2. x \in Range0(col, len) <=> i \in Range0(start, len)
      BY <1>4, <1>5, <1>8, <2>1 DEF Range0
    <3>3. x - col + 1 = i - start + 1
      BY <1>4, <1>8, <2>1
    <3> HIDE DEF x
    <3>4. wb[x] = IF x \in Range0(col, len) THEN j.data[x - col + 1] ELSE FF
      BY <1>2, <3>1 DEF wb
    <3>5. wb[x] \in {FF} \cup NandBytes
      BY <1>6, <3>1 DEF wb
    <3>6. And(c[i], wb[x]) \in {0, 15, 240, FF}
      BY <2>2, <3>5
    <3>7. And(c[i], wb[x]) =
            IF i \in Range0(start, len) THEN And(c[i], j.data[i - start + 1]) ELSE c[i]
      BY <2>2, <3>2, <3>3, <3>4
    <3> QED BY <2>4, <3>6, <3>7 DEF x
  <2>5. CASE i \notin Range0(base, PageDump)
    BY <2>1, <2>3, <2>5
  <2> QED BY <2>4, <2>5
<1>13. finishwrite(s, c) = Programmed(c, j)
  BY <1>9, <1>10, <1>12
<1>14. finishwrite(s, c) \in Cells
  BY <1>9, <1>11, <1>12 DEF Cells
<1> QED BY <1>13, <1>14

-----------------------------------------------------------------------------
(* The actions *)

\* The chip with a byte on its pins: what the edge of WE works on.
Strobed(s, c, io1) ==
  /\ c \in NfType /\ c.CE = s.CE /\ c.cmd = s.cmd /\ c.iostatus = io1
  /\ c.cmdstatus = s.cmdstatus /\ c.address = s.address
  /\ c.pageoffset = s.pageoffset /\ c.writebuffer = s.writebuffer

\* Raising CLE or ALE changes iostatus alone.
LEMMA RaiseFacts ==
  ASSUME NEW s \in NfType, NEW i \in IoStates
  PROVE  Strobed(s, [s EXCEPT !.iostatus = i], i)
<1> DEFINE c == [s EXCEPT !.iostatus = i]
<1>1. c \in NfType
  BY DEF NfType
<1>2. /\ c.CE = s.CE /\ c.cmd = s.cmd /\ c.iostatus = i
      /\ c.cmdstatus = s.cmdstatus /\ c.address = s.address
      /\ c.pageoffset = s.pageoffset /\ c.writebuffer = s.writebuffer
  BY DEF NfType
<1> HIDE DEF c
<1>3. Strobed(s, c, i)
  BY <1>1, <1>2 DEF Strobed
<1> QED BY <1>3 DEF c

\* Putting a byte on the pins changes IOPIN alone.
LEMMA PinFacts ==
  ASSUME NEW s \in NfType, NEW byte \in Nat
  PROVE  Strobed(s, [s EXCEPT !.IOPIN = byte], s.iostatus)
<1> DEFINE c == [s EXCEPT !.IOPIN = byte]
<1>1. c \in NfType
  BY DEF NfType
<1>2. /\ c.CE = s.CE /\ c.cmd = s.cmd /\ c.iostatus = s.iostatus
      /\ c.cmdstatus = s.cmdstatus /\ c.address = s.address
      /\ c.pageoffset = s.pageoffset /\ c.writebuffer = s.writebuffer
  BY DEF NfType
<1> HIDE DEF c
<1>3. Strobed(s, c, s.iostatus)
  BY <1>1, <1>2 DEF Strobed
<1> QED BY <1>3 DEF c

\* nandflash_sb_setWE runs the handler of iostatus.
LEMMA EdgeFacts ==
  ASSUME NEW s \in NfType, NEW byte \in Nat
  PROVE  \E c : /\ Strobed(s, c, s.iostatus)
                /\ s.iostatus = "cmd" => setWE(s, byte) = docmd(c, byte)
                /\ s.iostatus = "addr" => setWE(s, byte) = doaddr(c, byte)
                /\ s.iostatus = "write" => setWE(s, byte) = dodatawrite(c, byte)
<1> DEFINE c == [s EXCEPT !.IOPIN = byte]
<1>1. Strobed(s, c, s.iostatus)
  BY PinFacts
<1>2. /\ s.iostatus = "cmd" => setWE(s, byte) = docmd(c, byte)
      /\ s.iostatus = "addr" => setWE(s, byte) = doaddr(c, byte)
      /\ s.iostatus = "write" => setWE(s, byte) = dodatawrite(c, byte)
  BY DEF setWE
<1> HIDE DEF c
<1> QED BY <1>1, <1>2

\* sendcmd and sendaddr reach the handlers.
LEMMA SendFacts ==
  ASSUME NEW s \in NfType, s.CE, NEW byte \in Nat
  PROVE  /\ \E c : Strobed(s, c, "cmd") /\ sendcmd(s, byte) = docmd(c, byte)
         /\ \E c : Strobed(s, c, "addr") /\ sendaddr(s, byte) = doaddr(c, byte)
<1>1. ASSUME NEW i \in {"cmd", "addr"}
      PROVE  \E c : /\ Strobed(s, c, i)
                    /\ i = "cmd" => setWE([s EXCEPT !.iostatus = i], byte) = docmd(c, byte)
                    /\ i = "addr" => setWE([s EXCEPT !.iostatus = i], byte) = doaddr(c, byte)
  <2> DEFINE u == [s EXCEPT !.iostatus = i]
  <2>1. Strobed(s, u, i)
    <3>1. i \in IoStates
      BY DEF IoStates
    <3> QED BY <3>1, RaiseFacts
  <2> HIDE DEF u
  <2>2. u \in NfType /\ u.iostatus = i
    BY <2>1 DEF Strobed
  <2>3. PICK c : /\ Strobed(u, c, u.iostatus)
                 /\ u.iostatus = "cmd" => setWE(u, byte) = docmd(c, byte)
                 /\ u.iostatus = "addr" => setWE(u, byte) = doaddr(c, byte)
    BY <2>2, EdgeFacts
  <2>4. Strobed(s, c, i)
    BY <2>1, <2>2, <2>3 DEF Strobed
  <2>5. /\ i = "cmd" => setWE(u, byte) = docmd(c, byte)
        /\ i = "addr" => setWE(u, byte) = doaddr(c, byte)
    BY <2>2, <2>3
  <2> QED BY <2>4, <2>5 DEF u
<1>2. sendcmd(s, byte) = setWE([s EXCEPT !.iostatus = "cmd"], byte)
  BY DEF sendcmd
<1>3. sendaddr(s, byte) = setWE([s EXCEPT !.iostatus = "addr"], byte)
  BY DEF sendaddr
<1>4. \E c : Strobed(s, c, "cmd") /\ sendcmd(s, byte) = docmd(c, byte)
  BY <1>1, <1>2
<1>5. \E c : Strobed(s, c, "addr") /\ sendaddr(s, byte) = doaddr(c, byte)
  BY <1>1, <1>3
<1> QED BY <1>4, <1>5

\* The file after a command: a command that completes a program or an erasure of
\* the driver does what the driver asked, every other one nothing.
LEMMA CommandCells ==
  ASSUME NEW s \in NfType, NEW j \in JobType, Linked(s, j), NEW c \in Cells, s.CE,
         NEW cmd \in NandCmds, cmd = PAGEPROG => j.cmd = SEQIN /\ Len(j.addrs) = Wants(j.cmd)
  PROVE  /\ (j.cmd = ERASE1 /\ cmd = ERASE2 /\ Len(j.addrs) = Wants(j.cmd)) =>
              sendcmdCells(s, cmd, c) = BlockErased(c, j) /\ BlockErased(c, j) \in Cells
         /\ (j.cmd = SEQIN /\ cmd = PAGEPROG /\ Len(j.addrs) = Wants(j.cmd)) =>
              sendcmdCells(s, cmd, c) = Programmed(c, j) /\ Programmed(c, j) \in Cells
         /\ ~(/\ Len(j.addrs) = Wants(j.cmd)
              /\ (j.cmd = ERASE1 /\ cmd = ERASE2) \/ (j.cmd = SEQIN /\ cmd = PAGEPROG)) =>
              sendcmdCells(s, cmd, c) = c
<1> DEFINE u == [s EXCEPT !.iostatus = "cmd"]
<1>1. Strobed(s, u, "cmd")
  <2>1. "cmd" \in IoStates
    BY DEF IoStates
  <2> QED BY <2>1, RaiseFacts
<1>2. sendcmdCells(s, cmd, c) = setWECells(u, cmd, c)
  BY DEF sendcmdCells
<1> HIDE DEF u
<1>3. /\ u.iostatus = "cmd" /\ u.cmd = s.cmd /\ u.cmdstatus = s.cmdstatus
      /\ u.address = s.address /\ u.writebuffer = s.writebuffer
  BY <1>1 DEF Strobed
<1>4. sendcmdCells(s, cmd, c) = docmdCells(u, cmd, c)
  BY <1>2, <1>3 DEF setWECells
<1>5. /\ Fits(j) /\ Sent(s, j) /\ Unarmed(s, j) /\ Erasing(s, j) /\ Placed(s, j)
      /\ Buffered(s, j)
  BY DEF Linked
<1>6. j.cmd \in {SEQIN, ERASE1} => (Len(j.addrs) = Wants(j.cmd) <=> Cycles(j) = 4)
  <2>1. Len(j.addrs) \in Nat
    BY RowType
  <2>2. Wants(SEQIN) = 4 /\ Wants(ERASE1) = 3
    BY DEF Wants
  <2> DEFINE l == Len(j.addrs)
  <2>3. j.cmd = SEQIN => Cycles(j) = l
    BY DEF Cycles
  <2>4. j.cmd = ERASE1 => Cycles(j) = l + 1
    BY DEF Cycles
  <2> HIDE DEF l
  <2>5. l \in Nat
    BY <2>1 DEF l
  <2>6. j.cmd = ERASE1 => (l = Wants(j.cmd) <=> Cycles(j) = 4)
    BY <2>2, <2>4, <2>5
  <2>7. j.cmd = SEQIN => (l = Wants(j.cmd) <=> Cycles(j) = 4)
    BY <2>2, <2>3, <2>5
  <2> QED BY <2>6, <2>7 DEF l
<1>7. CASE j.cmd = ERASE1 /\ cmd = ERASE2 /\ Len(j.addrs) = Wants(j.cmd)
  <2>1. s.cmd = ERASE1 /\ s.cmdstatus = FINISH /\ s.address = StartOf(j)
    BY <1>5, <1>6, <1>7 DEF Sent, Erasing, Addressing
  <2>2. docmdCells(u, cmd, c) = doerase(u, c)
    BY <1>3, <1>7, <2>1 DEF docmdCells
  <2>3. doerase(u, c) = BlockErased(c, j) /\ BlockErased(c, j) \in Cells
    BY <1>3, <1>7, <2>1, EraseOutcome
  <2> QED BY <1>4, <1>7, <2>2, <2>3
<1>8. CASE j.cmd = SEQIN /\ cmd = PAGEPROG /\ Len(j.addrs) = Wants(j.cmd)
  <2>1. s.cmd = SEQIN /\ s.cmdstatus = FINISH
    BY <1>5, <1>6, <1>8 DEF Sent, Placed, Addressing
  <2>2. docmdCells(u, cmd, c) = finishwrite(u, c)
    BY <1>3, <1>8, <2>1 DEF docmdCells
  <2>3. finishwrite(u, c) = finishwrite(s, c)
    BY <1>3 DEF finishwrite
  <2>4. finishwrite(s, c) = Programmed(c, j) /\ Programmed(c, j) \in Cells
    BY <1>5, <1>6, <1>8, ProgramOutcome
  <2> QED BY <1>4, <1>8, <2>2, <2>3, <2>4
<1>9. CASE ~(/\ Len(j.addrs) = Wants(j.cmd)
             /\ (j.cmd = ERASE1 /\ cmd = ERASE2) \/ (j.cmd = SEQIN /\ cmd = PAGEPROG))
  <2>1. ASSUME cmd = ERASE2, s.cmd = ERASE1, s.cmdstatus = FINISH PROVE FALSE
    <3>1. j.cmd \in {SEQIN, ERASE1}
      BY <1>5, <2>1 DEF Unarmed
    <3>2. j.cmd = ERASE1
      BY <1>5, <2>1, <3>1 DEF Sent, Addressing
    <3>3. Cycles(j) # 4
      BY <1>6, <1>9, <2>1, <3>2
    <3>4. Cycles(j) \in {1, 2, 3}
      <4>1. Len(j.addrs) <= 3 /\ Len(j.addrs) \in Nat /\ Cycles(j) = Len(j.addrs) + 1
        BY <1>5, <3>2, RowType DEF Fits, Wants, Cycles
      <4> DEFINE l == Len(j.addrs)
      <4> HIDE DEF l
      <4>2. l <= 3 /\ l \in Nat /\ Cycles(j) = l + 1
        BY <4>1 DEF l
      <4> QED BY <3>3, <4>2
    <3>5. s.cmdstatus = AddrCycles[Cycles(j) + 1]
      BY <1>5, <3>2, <3>4 DEF Sent, Addressing
    <3> QED BY <2>1, <3>4, <3>5 DEF AddrCycles, FINISH
  <2>2. cmd # PAGEPROG
    BY <1>9
  <2>3. docmdCells(u, cmd, c) = c
    BY <1>3, <2>1, <2>2 DEF docmdCells
  <2> QED BY <1>4, <1>9, <2>3
<1> QED BY <1>7, <1>8, <1>9

\* NandInv of the starting state.
LEMMA NandInitial == NandInit => NandInv
<1> SUFFICES ASSUME NandInit PROVE NandInv
  OBVIOUS
<1>1. /\ cells = Image /\ nf = PowerOn /\ enabled = FALSE /\ job = NoJob /\ commits = 0
  BY DEF NandInit
<1>2. cells \in Cells
  BY <1>1, NandAssumption DEF Cells, FF
<1>3. FreshPage \in [0 .. PageDump - 1 -> {FF} \cup NandBytes]
  BY DEF FreshPage
<1>4. READ0 \in NandCmds /\ NOSTATUS \in CmdStates /\ "none" \in IoStates
  BY DEF NandCmds, CmdStates, IoStates
<1> DEFINE f == FreshPage
<1> HIDE DEF f
<1>5. nf = [CE |-> FALSE, cmd |-> 0, cmdstatus |-> NOSTATUS, iostatus |-> "none",
            address |-> 0, pageoffset |-> 0, writebuffer |-> f, IOPIN |-> 0]
  BY <1>1 DEF PowerOn, f
<1>6. nf \in NfType
  BY <1>3, <1>4, <1>5 DEF NfType, f
<1>7. nf.cmd = 0 /\ nf.iostatus = "none"
  BY <1>5
<1>8. job \in JobType /\ job.cmd = RESETCMD /\ Len(job.addrs) = 0
  BY <1>1, NoJobType
<1>9. Linked(nf, job)
  <2>1. job.cmd \notin Addressing /\ job.cmd # READID /\ Reporting(nf, job)
    BY <1>8 DEF Addressing, Reporting
  <2>2. nf.cmd # SEQIN /\ nf.cmd # ERASE1 /\ nf.iostatus # "write"
    BY <1>7
  <2> QED BY <1>8, <2>1, <2>2, PlainLinked
<1> QED BY <1>1, <1>2, <1>6, <1>8, <1>9 DEF NandInv

\* nandflash_s3c2410_write_word, NFCONF.
LEMMA ConfStep ==
  ASSUME NandInv, NEW en \in BOOLEAN, NEW nFCE \in BOOLEAN, NFCONF(en, nFCE)
  PROVE  NandInv' /\ UNCHANGED <<cells, commits>>
<1> DEFINE low == ~(en /\ nFCE)
<1>1. /\ enabled' = en /\ nf' = setCE(nf, low)
      /\ job' = IF ~low /\ job.cmd \in Pointers THEN NoJob ELSE job
      /\ cells' = cells /\ commits' = commits
  BY DEF NFCONF
<1>2. low \in BOOLEAN
  OBVIOUS
<1> HIDE DEF low
<1>3. nf \in NfType /\ job \in JobType /\ Linked(nf, job) /\ cells \in Cells /\ commits \in Nat
  BY DEF NandInv
<1>4. nf' \in NfType /\ job' \in JobType /\ Linked(nf', job')
  BY <1>1, <1>2, <1>3, SelectLinked
<1>5. cells' \in Cells /\ commits' \in Nat /\ enabled' \in BOOLEAN
  BY <1>1, <1>3
<1> QED BY <1>1, <1>4, <1>5 DEF NandInv

\* What the driver counts as a completed program or erasure.
LEMMA CommitCases ==
  ASSUME NEW cmd \in NandCmds, job \in JobType
  PROVE  Commits(cmd) <=> /\ Reaches /\ Len(job.addrs) = Wants(job.cmd)
                          /\ \/ job.cmd = ERASE1 /\ cmd = ERASE2
                             \/ job.cmd = SEQIN /\ cmd = PAGEPROG
<1> DEFINE p == job.cmd
<1> HIDE DEF p
<1>1. <<p, cmd>> \in {<<SEQIN, PAGEPROG>>, <<ERASE1, ERASE2>>} <=>
        (p = ERASE1 /\ cmd = ERASE2) \/ (p = SEQIN /\ cmd = PAGEPROG)
  OBVIOUS
<1> QED BY <1>1 DEF Commits, Complete, p

\* What the driver asked for, in its own terms.
LEMMA OutcomeMeant ==
  ASSUME job \in JobType, cells \in Cells, Len(job.addrs) = Wants(job.cmd)
  PROVE  /\ job.cmd = ERASE1 => Outcome = BlockErased(cells, job)
         /\ job.cmd = SEQIN => Outcome = Programmed(cells, job)
<1>1. CASE job.cmd = ERASE1
  <2>1. Len(job.addrs) = 3 /\ job.cmd \in Addressing
    BY <1>1 DEF Wants, Addressing
  <2>2. Cycles(job) = 3 + 1
    BY <1>1, <2>1 DEF Cycles
  <2>3. Row(job.addrs) = RowOf(job)
    BY <2>1, <2>2, RowMeant
  <2> QED BY <1>1, <2>3 DEF Outcome, BlockErased
<1>2. CASE job.cmd = SEQIN
  <2>1. Len(job.addrs) = 4 /\ job.cmd \in Addressing /\ job.cmd # ERASE1
    BY <1>2 DEF Wants, Addressing
  <2>2. Cycles(job) = 4
    BY <2>1 DEF Cycles
  <2>3. Row(job.addrs) = RowOf(job) /\ ByteAt(job.addrs, 1) = job.addrs[1]
    BY <2>1, <2>2, RowMeant
  <2>4. Column(job) = job.area + job.addrs[1]
    BY <2>1, <2>3 DEF Column
  <2>5. Start = StartOf(job)
    <3> DEFINE m == RowOf(job) * PageDump
    <3>1. m \in Nat
      BY RowType, Sizes
    <3>2. job.area \in Nat
      BY Sizes DEF JobType
    <3>3. job.addrs[1] \in Nat
      <4>1. job.addrs \in Seq(0 .. RowBase - 1)
        BY DEF JobType
      <4>2. ByteAt(job.addrs, 1) \in Nat
        BY <4>1, ByteFacts
      <4> QED BY <2>3, <4>2
    <3>4. Start = m + job.area + job.addrs[1] /\ StartOf(job) = m + Column(job)
      BY <2>3 DEF Start, StartOf
    <3> HIDE DEF m
    <3> QED BY <2>4, <3>1, <3>2, <3>3, <3>4
  <2> QED BY <1>2, <2>5 DEF Outcome, Programmed
<1> QED BY <1>1, <1>2

\* NFCMD.
LEMMA CmdStep ==
  ASSUME NandInv, NEW cmd \in NandCmds, NFCMD(cmd)
  PROVE  NandInv' /\ cells' = IF commits' # commits THEN Outcome ELSE cells
<1>1. /\ cmd = SEQIN => Reaches /\ job.cmd \in Pointers /\ job.addrs = <<>>
      /\ cmd = PAGEPROG /\ Reaches => Commits(cmd)
      /\ nf' = IF enabled THEN sendcmd(nf, cmd) ELSE nf
      /\ cells' = IF enabled THEN sendcmdCells(nf, cmd, cells) ELSE cells
      /\ job' = IF Reaches THEN NewJob(cmd, IF cmd = SEQIN THEN job.area ELSE AreaOf(cmd))
                           ELSE job
      /\ commits' = IF Commits(cmd) THEN commits + 1 ELSE commits
      /\ enabled' = enabled
  BY DEF NFCMD
<1>2. /\ nf \in NfType /\ job \in JobType /\ Linked(nf, job) /\ cells \in Cells
      /\ commits \in Nat /\ enabled \in BOOLEAN
  BY DEF NandInv
<1>3. Commits(cmd) <=> /\ Reaches /\ Len(job.addrs) = Wants(job.cmd)
                       /\ \/ job.cmd = ERASE1 /\ cmd = ERASE2
                          \/ job.cmd = SEQIN /\ cmd = PAGEPROG
  BY <1>2, CommitCases
<1>4. commits' \in Nat /\ (commits' # commits <=> Commits(cmd))
  BY <1>1, <1>2
<1>5. CASE ~Reaches
  <2>1. ~Commits(cmd)
    BY <1>5 DEF Commits
  <2>2. nf' = nf /\ cells' = cells /\ job' = job
    BY <1>1, <1>2, <1>5 DEF Reaches, sendcmd, sendcmdCells
  <2>3. NandInv'
    BY <1>1, <1>2, <1>4, <2>2 DEF NandInv
  <2> QED BY <1>4, <2>1, <2>2, <2>3
<1>6. CASE Reaches
  <2>1. nf.CE /\ nf' = sendcmd(nf, cmd) /\ cells' = sendcmdCells(nf, cmd, cells)
    BY <1>1, <1>6 DEF Reaches
  <2>2. job' = NewJob(cmd, IF cmd = SEQIN THEN job.area ELSE AreaOf(cmd))
    BY <1>1, <1>6
  <2>3. cmd \in Nat
    BY DEF NandCmds
  <2>4. PICK c : Strobed(nf, c, "cmd") /\ sendcmd(nf, cmd) = docmd(c, cmd)
    BY <1>2, <2>1, <2>3, SendFacts
  <2>5. cmd = SEQIN => job.cmd \in Pointers /\ Len(job.addrs) = 0
    BY <1>1, EmptySeq
  <2>6. cmd = PAGEPROG => job.cmd = SEQIN /\ Len(job.addrs) = Wants(job.cmd)
    BY <1>1, <1>3, <1>6
  <2>7. cmd = PAGEPROG => job.cmd = SEQIN /\ Cycles(job) = 4
    <3> SUFFICES ASSUME cmd = PAGEPROG PROVE job.cmd = SEQIN /\ Cycles(job) = 4
      OBVIOUS
    <3>1. job.cmd = SEQIN /\ Len(job.addrs) = Wants(job.cmd)
      BY <2>6
    <3>2. Wants(job.cmd) = 4
      BY <3>1 DEF Wants
    <3>3. Cycles(job) = Len(job.addrs)
      BY <3>1 DEF Cycles
    <3> QED BY <3>1, <3>2, <3>3
  <2>8. nf' \in NfType /\ job' \in JobType /\ Linked(nf', job')
    <3>1. /\ c \in NfType /\ c.cmd = nf.cmd /\ c.iostatus = "cmd"
          /\ c.cmdstatus = nf.cmdstatus /\ c.pageoffset = nf.pageoffset
      BY <2>4 DEF Strobed
    <3>2. nf' = docmd(c, cmd)
      BY <2>1, <2>4
    <3> QED BY <1>2, <2>2, <2>5, <2>7, <3>1, <3>2, CommandLinked
  <2>9. cells' \in Cells /\ cells' = IF Commits(cmd) THEN Outcome ELSE cells
    <3>1. CASE job.cmd = ERASE1 /\ cmd = ERASE2 /\ Len(job.addrs) = Wants(job.cmd)
      <4>1. cells' = BlockErased(cells, job) /\ BlockErased(cells, job) \in Cells
        BY <1>2, <2>1, <2>6, <3>1, CommandCells
      <4>2. Outcome = BlockErased(cells, job)
        BY <1>2, <3>1, OutcomeMeant
      <4>3. Commits(cmd)
        BY <1>3, <1>6, <3>1
      <4> QED BY <4>1, <4>2, <4>3
    <3>2. CASE job.cmd = SEQIN /\ cmd = PAGEPROG /\ Len(job.addrs) = Wants(job.cmd)
      <4>1. cells' = Programmed(cells, job) /\ Programmed(cells, job) \in Cells
        BY <1>2, <2>1, <2>6, <3>2, CommandCells
      <4>2. Outcome = Programmed(cells, job)
        BY <1>2, <3>2, OutcomeMeant
      <4>3. Commits(cmd)
        BY <1>3, <1>6, <3>2
      <4> QED BY <4>1, <4>2, <4>3
    <3>3. CASE ~Commits(cmd)
      <4>1. ~(/\ Len(job.addrs) = Wants(job.cmd)
              /\ (job.cmd = ERASE1 /\ cmd = ERASE2) \/ (job.cmd = SEQIN /\ cmd = PAGEPROG))
        BY <1>3, <1>6, <3>3
      <4>2. cells' = cells
        BY <1>2, <2>1, <2>6, <4>1, CommandCells
      <4> QED BY <1>2, <3>3, <4>2
    <3> QED BY <1>3, <3>1, <3>2, <3>3
  <2>10. NandInv'
    BY <1>1, <1>2, <1>4, <2>8, <2>9 DEF NandInv
  <2> QED BY <1>4, <2>9, <2>10
<1> QED BY <1>5, <1>6

\* NFADDR.
LEMMA AddrStep ==
  ASSUME NandInv, NEW byte \in 0 .. RowBase - 1, NFADDR(byte)
  PROVE  NandInv' /\ UNCHANGED <<cells, commits>>
<1>1. /\ MayAddress(byte) /\ nf' = sendaddr(nf, byte)
      /\ job' = [job EXCEPT !.addrs = Append(@, byte)]
      /\ cells' = cells /\ enabled' = enabled /\ commits' = commits
  BY DEF NFADDR
<1>2. /\ nf \in NfType /\ job \in JobType /\ Linked(nf, job) /\ cells \in Cells
      /\ commits \in Nat /\ enabled \in BOOLEAN
  BY DEF NandInv
<1>3. OneMore(job, job', byte)
  BY <1>1, <1>2, AddressJob
<1>4. /\ nf.CE /\ Len(job.addrs) # Wants(job.cmd)
      /\ Wants(job.cmd) = 4 /\ Len(job.addrs) = 0 =>
           byte < (IF job.area = PageSize THEN Spare ELSE HalfPage)
  <2>1. /\ nf.CE /\ Len(job.addrs) # Wants(job.cmd)
        /\ Wants(job.cmd) = 4 /\ Len(Append(job.addrs, byte)) = 1 =>
             byte < (IF job.area = PageSize THEN Spare ELSE HalfPage)
    BY <1>1 DEF MayAddress, Reaches, Complete
  <2>2. Len(Append(job.addrs, byte)) = Len(job.addrs) + 1
    <3>1. job.addrs \in Seq(0 .. RowBase - 1)
      BY <1>2 DEF JobType
    <3> QED BY <3>1, AppendProperties
  <2> QED BY <2>1, <2>2
<1>5. byte \in Nat
  BY Sizes
<1>6. PICK c : Strobed(nf, c, "addr") /\ sendaddr(nf, byte) = doaddr(c, byte)
  BY <1>2, <1>4, <1>5, SendFacts
<1>7. /\ c \in NfType /\ c.cmd = nf.cmd /\ c.iostatus = "addr" /\ c.cmdstatus = nf.cmdstatus
      /\ c.address = nf.address /\ c.pageoffset = nf.pageoffset
      /\ c.writebuffer = nf.writebuffer
  BY <1>6 DEF Strobed
<1>8. nf' = doaddr(c, byte)
  BY <1>1, <1>6
<1>9. nf' \in NfType /\ Linked(nf', job')
  BY <1>2, <1>3, <1>4, <1>7, <1>8, AddressLinked
<1>10. job' \in JobType
  BY <1>3 DEF OneMore
<1> QED BY <1>1, <1>2, <1>9, <1>10 DEF NandInv

\* NFDATA, a write.
LEMMA DataStep ==
  ASSUME NandInv, NEW byte \in NandBytes, NFDATA(byte)
  PROVE  NandInv' /\ UNCHANGED <<cells, commits>>
<1>1. /\ job.cmd = SEQIN /\ Len(job.addrs) = Wants(job.cmd)
      /\ job.area + job.addrs[1] + Len(job.data) < PageDump
      /\ nf' = IF enabled THEN senddata(nf, byte) ELSE nf
      /\ cells' = IF enabled THEN senddataCells(nf, byte, cells) ELSE cells
      /\ job' = IF Reaches THEN [job EXCEPT !.data = Append(@, byte)] ELSE job
      /\ enabled' = enabled /\ commits' = commits
  BY DEF NFDATA, Complete
<1>2. /\ nf \in NfType /\ job \in JobType /\ Linked(nf, job) /\ cells \in Cells
      /\ commits \in Nat /\ enabled \in BOOLEAN
  BY DEF NandInv
<1>3. CASE ~Reaches
  <2>1. nf' = nf /\ cells' = cells /\ job' = job
    BY <1>1, <1>2, <1>3 DEF Reaches, senddata, senddataCells
  <2> QED BY <1>1, <1>2, <2>1 DEF NandInv
<1>4. CASE Reaches
  <2>1. /\ nf.CE /\ nf' = setWE(nf, byte) /\ cells' = setWECells(nf, byte, cells)
        /\ job' = [job EXCEPT !.data = Append(@, byte)]
    BY <1>1, <1>4 DEF Reaches, senddata, senddataCells
  <2>2. Cycles(job) = 4 /\ job.cmd \in Addressing /\ job.cmd # ERASE1
    BY <1>1 DEF Wants, Cycles, Addressing
  <2>3. nf.iostatus = "write"
    BY <1>1, <1>2, <2>2 DEF Linked, Placed
  <2>4. Column(job) + Len(job.data) < PageDump
    <3>1. ByteAt(job.addrs, 1) = job.addrs[1]
      BY <1>2, <2>2, RowMeant
    <3> QED BY <1>1, <2>2, <3>1 DEF Column
  <2>5. byte \in Nat
    BY NandAssumption
  <2>6. PICK c : /\ Strobed(nf, c, nf.iostatus)
                 /\ nf.iostatus = "write" => setWE(nf, byte) = dodatawrite(c, byte)
    BY <1>2, <2>5, EdgeFacts
  <2>7. nf' = dodatawrite(c, byte)
    BY <2>1, <2>3, <2>6
  <2>8. /\ c \in NfType /\ c.cmd = nf.cmd /\ c.iostatus = nf.iostatus
        /\ c.cmdstatus = nf.cmdstatus /\ c.address = nf.address
        /\ c.pageoffset = nf.pageoffset /\ c.writebuffer = nf.writebuffer
    BY <2>6 DEF Strobed
  <2>9. nf' \in NfType /\ job' \in JobType /\ Linked(nf', job')
    BY <1>1, <1>2, <2>1, <2>2, <2>4, <2>7, <2>8, DataLinked
  <2>10. cells' = cells
    BY <2>1, <2>3 DEF setWECells
  <2> QED BY <1>1, <1>2, <2>9, <2>10 DEF NandInv
<1> QED BY <1>3, <1>4

\* The driver's reads in the terms of the invariant.
LEMMA ReadMeant ==
  ASSUME job \in JobType, MayRead
  PROVE  /\ nf.CE /\ Len(job.addrs) = Wants(job.cmd)
         /\ job.cmd \in Pointers \cup {READID, STATUSCMD}
         /\ job.cmd = READID => job.read < 4
         /\ job.cmd \in Pointers => /\ ReadCell(job.read) = CellOf(job, job.read)
                                    /\ CellOf(job, job.read) < DeviceSize
<1>1. /\ nf.CE /\ Len(job.addrs) = Wants(job.cmd) /\ job.read < Readable
      /\ job.cmd \in Pointers => ReadCell(job.read) < DeviceSize
  BY DEF MayRead, Reaches, Complete
<1>2. job.read \in Nat
  BY DEF JobType
<1>3. /\ job.cmd = READID => Readable = 4
      /\ job.cmd \notin Pointers \cup {READID, STATUSCMD} => Readable = 0
  BY DEF Readable
<1>4. job.cmd \in Pointers \cup {READID, STATUSCMD}
  BY <1>1, <1>2, <1>3
<1>5. job.cmd = READID => job.read < 4
  BY <1>1, <1>3
<1>6. CASE job.cmd \in Pointers
  <2>1. Cycles(job) = 4 /\ job.cmd \in Addressing /\ job.cmd # ERASE1
    BY <1>1, <1>6 DEF Wants, Cycles, Addressing
  <2>2. Row(job.addrs) = RowOf(job) /\ ByteAt(job.addrs, 1) = job.addrs[1]
    BY <2>1, RowMeant
  <2>3. ReadCell(job.read) = CellOf(job, job.read)
    <3>1. CASE job.cmd = READOOB
      BY <2>2, <3>1 DEF ReadCell, CellOf, SpareCell
    <3>2. CASE job.cmd # READOOB
      <4> DEFINE m == RowOf(job) * PageDump
      <4>1. m \in Nat
        BY RowType, Sizes
      <4>2. job.area \in Nat
        BY Sizes DEF JobType
      <4>3. job.addrs[1] \in Nat
        <5>1. job.addrs \in Seq(0 .. RowBase - 1)
          BY DEF JobType
        <5>2. ByteAt(job.addrs, 1) \in Nat
          BY <5>1, ByteFacts
        <5> QED BY <2>2, <5>2
      <4>4. Column(job) = job.area + job.addrs[1]
        BY <2>1, <2>2 DEF Column
      <4>5. Start = m + job.area + job.addrs[1] /\ StartOf(job) = m + Column(job)
        BY <2>2 DEF Start, StartOf
      <4> HIDE DEF m
      <4>6. Start = StartOf(job)
        BY <4>1, <4>2, <4>3, <4>4, <4>5
      <4> QED BY <3>2, <4>6 DEF ReadCell, CellOf
    <3> QED BY <3>1, <3>2
  <2> QED BY <1>1, <1>4, <1>5, <1>6, <2>3
<1>7. CASE job.cmd \notin Pointers
  BY <1>1, <1>4, <1>5, <1>7
<1> QED BY <1>6, <1>7

\* NFDATA, a read.
LEMMA ReadStep ==
  ASSUME NandInv, NFDATA_Read
  PROVE  NandInv' /\ UNCHANGED <<cells, commits>>
<1>1. /\ MayRead /\ nf' = readdata(nf, cells) /\ job' = [job EXCEPT !.read = @ + 1]
      /\ cells' = cells /\ enabled' = enabled /\ commits' = commits
  BY DEF NFDATA_Read
<1>2. /\ nf \in NfType /\ job \in JobType /\ Linked(nf, job) /\ cells \in Cells
      /\ commits \in Nat /\ enabled \in BOOLEAN
  BY DEF NandInv
<1>3. /\ nf.CE /\ Len(job.addrs) = Wants(job.cmd)
      /\ job.cmd \in Pointers \cup {READID, STATUSCMD}
      /\ job.cmd = READID => job.read < 4
      /\ job.cmd \in Pointers => CellOf(job, job.read) < DeviceSize
  BY <1>1, <1>2, ReadMeant
<1>4. /\ job' \in JobType /\ job'.cmd = job.cmd /\ job'.area = job.area
      /\ job'.addrs = job.addrs /\ job'.read = job.read + 1
  BY <1>1, <1>2, ReadJob
<1>5. cells \in [0 .. DeviceSize - 1 -> {0, 15, 240, FF}]
  BY <1>2 DEF Cells
<1>6. nf' \in NfType /\ Linked(nf', job')
  <2>1. nf' = readdata(nf, cells)
    BY <1>1
  <2> QED BY <1>2, <1>3, <1>4, <1>5, <2>1, ReadLinked
<1> QED BY <1>1, <1>2, <1>4, <1>6 DEF NandInv

-----------------------------------------------------------------------------
(* The board *)

\* Every step of the board keeps the invariant, and changes the file only as a
\* completed command asks.
LEMMA NandStep ==
  ASSUME NandInv, [Next]_vars
  PROVE  NandInv' /\ cells' = IF commits' # commits THEN Outcome ELSE cells
<1>1. ASSUME UNCHANGED nand PROVE NandInv' /\ UNCHANGED <<cells, commits>>
  <2>1. /\ cells' = cells /\ nf' = nf /\ enabled' = enabled /\ job' = job
        /\ commits' = commits
    BY <1>1 DEF nand
  <2> QED BY <2>1 DEF NandInv
<1>2. CASE UNCHANGED vars
  BY <1>1, <1>2 DEF vars
<1>3. CASE board = "intel" /\ IntelNext /\ UNCHANGED <<nand, board>>
  BY <1>1, <1>3
<1>4. CASE board = "nand" /\ NandNext /\ UNCHANGED <<intel, board>>
  <2>1. CASE \E en, nFCE \in BOOLEAN : NFCONF(en, nFCE)
    BY <2>1, ConfStep
  <2>2. CASE \E cmd \in NandCmds : NFCMD(cmd)
    BY <2>2, CmdStep
  <2>3. CASE \E byte \in 0 .. RowBase - 1 : NFADDR(byte)
    BY <2>3, AddrStep
  <2>4. CASE \E byte \in NandBytes : NFDATA(byte)
    BY <2>4, DataStep
  <2>5. CASE NFDATA_Read
    BY <2>5, ReadStep
  <2> QED BY <1>4, <2>1, <2>2, <2>3, <2>4, <2>5 DEF NandNext
<1> QED BY <1>2, <1>3, <1>4 DEF Next

\* Chip and driver agree in every reachable state.
LEMMA NandInvHolds == Spec => []NandInv
<1>1. Init => NandInv
  BY NandInitial DEF Init
<1>2. NandInv /\ [Next]_vars => NandInv'
  BY NandStep
<1> QED BY <1>1, <1>2, PTL DEF Spec

\* A read returns the byte that the driver addressed, in the area its read command
\* chose, whatever commands came before (nandflash_sb_doread, nandflash_sb_doaddr).
THEOREM ReadCorrect == Spec => []NandReadExact
<1>1. NandInv => NandReadExact
  <2> SUFFICES ASSUME NandInv, MayRead, job.cmd \in Pointers
               PROVE  readdata(nf, cells).IOPIN = cells[ReadCell(job.read)]
    BY DEF NandReadExact
  <2>1. /\ nf \in NfType /\ job \in JobType /\ Linked(nf, job)
        /\ cells \in [0 .. DeviceSize - 1 -> {0, 15, 240, FF}]
    BY DEF NandInv, Cells
  <2>2. /\ nf.CE /\ Len(job.addrs) = Wants(job.cmd)
        /\ ReadCell(job.read) = CellOf(job, job.read) /\ CellOf(job, job.read) < DeviceSize
    BY <2>1, ReadMeant
  <2> DEFINE k == [job EXCEPT !.read = @ + 1]
  <2>3. /\ k \in JobType /\ k.cmd = job.cmd /\ k.area = job.area /\ k.addrs = job.addrs
        /\ k.read = job.read + 1
    BY <2>1, ReadJob
  <2> HIDE DEF k
  <2> DEFINE t == readdata(nf, cells)
  <2>4. t = readdata(nf, cells)
    OBVIOUS
  <2> HIDE DEF t
  <2>5. job.cmd \in Pointers \cup {READID, STATUSCMD} /\ (job.cmd = READID => job.read < 4)
    OBVIOUS
  <2>6. t.IOPIN = cells[CellOf(job, job.read)]
    BY <2>1, <2>2, <2>3, <2>4, <2>5, ReadLinked, ZenonT(60)
  <2> QED BY <2>2, <2>6 DEF t
<1> QED BY <1>1, NandInvHolds, PTL

\* The file changes only when the driver completes a program or an erasure, and then
\* exactly as it asked (nandflash_sb_finishwrite, nandflash_sb_doerase).
THEOREM CommitCorrect == Spec => NandCommitExact
<1>1. NandInv /\ [Next]_vars =>
        [cells' = IF commits' # commits THEN Outcome ELSE cells]_<<cells, commits>>
  BY NandStep
<1> QED BY <1>1, NandInvHolds, PTL DEF Spec, NandCommitExact

\* The types of both flashes, and no byte behind the end of the write buffer.
THEOREM BoardTypeCorrect == Spec => []TypeOK
<1>1. NandInv => NandType
  <2> SUFFICES ASSUME NandInv PROVE NandType
    OBVIOUS
  <2>1. /\ nf \in NfType /\ job \in JobType /\ Linked(nf, job) /\ enabled \in BOOLEAN
        /\ cells \in [0 .. DeviceSize - 1 -> {0, 15, 240, FF}]
    BY DEF NandInv, Cells
  <2>2. /\ nf.iostatus \in {"cmd", "addr", "read", "write", "status", "id", "none"}
        /\ nf.writebuffer \in [0 .. PageDump - 1 -> {FF} \cup NandBytes]
        /\ nf.CE \in BOOLEAN
    BY <2>1 DEF NfType, IoStates
  <2>3. ASSUME nf.iostatus = "write" PROVE nf.pageoffset <= PageDump
    <3>1. Fits(job) /\ Sent(nf, job) /\ Unarmed(nf, job) /\ Erasing(nf, job) /\ Placed(nf, job)
      BY <2>1 DEF Linked
    <3>2. job.cmd \in {SEQIN, ERASE1}
      BY <2>3, <3>1 DEF Unarmed
    <3>3. Cycles(job) >= 4
      <4>1. ~(Cycles(job) < 4)
        BY <2>3, <3>1, <3>2 DEF Sent, Addressing
      <4> QED BY <2>1, <4>1, RowType
    <3>4. Cycles(job) <= 4
      <4> DEFINE l == Len(job.addrs)
      <4>1. l \in Nat /\ l <= Wants(job.cmd)
        BY <2>1, <3>1, RowType DEF Fits
      <4>2. /\ job.cmd = SEQIN => Wants(job.cmd) = 4 /\ Cycles(job) = l
            /\ job.cmd = ERASE1 => Wants(job.cmd) = 3 /\ Cycles(job) = l + 1
        BY DEF Wants, Cycles
      <4> HIDE DEF l
      <4> QED BY <3>2, <4>1, <4>2
    <3>5. Cycles(job) = 4
      BY <2>1, <3>3, <3>4, RowType
    <3>6. job.cmd = SEQIN
      BY <2>3, <3>1, <3>2, <3>5 DEF Erasing
    <3> QED BY <3>1, <3>5, <3>6 DEF Placed
  <2> QED BY <2>1, <2>2, <2>3 DEF NandType
<1>2. Init => board \in {"intel", "nand"}
  BY DEF Init
<1>3. board \in {"intel", "nand"} /\ [Next]_vars => (board \in {"intel", "nand"})'
  BY DEF Next, vars
<1>4. Spec => [](board \in {"intel", "nand"})
  BY <1>2, <1>3, PTL DEF Spec
<1>5. IntelType /\ NandType /\ board \in {"intel", "nand"} => TypeOK
  BY DEF TypeOK
<1> QED BY <1>1, <1>4, <1>5, NandInvHolds, IntelTypeCorrect, PTL
=============================================================================
