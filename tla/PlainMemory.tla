---------------------------- MODULE PlainMemory -----------------------------
(***************************************************************************)
(* What programs expect of the memory system: a memory of words and a map  *)
(* from virtual pages to physical pages and rights.  There is no cache, no *)
(* buffer and no copy of the map.                                          *)
(***************************************************************************)
EXTENDS Naturals

CONSTANTS PageWords, FAULT

VARIABLES plain,           \* the words
          map              \* virtual page -> its mapping: the physical page, and
                           \* who may read and write it (TRUE is a user program)

Mapping(va) == map[va \div PageWords]
PlainPa(va) == (Mapping(va).page * PageWords) + (va % PageWords)

Readable(va, user) == user \in Mapping(va).read
Writable(va, user) == user \in Mapping(va).write

PlainRead(va, user) == IF Readable(va, user) THEN plain[PlainPa(va)] ELSE FAULT

PlainStore(va, data, user) ==
  /\ plain' = IF Writable(va, user) THEN [plain EXCEPT ![PlainPa(va)] = data] ELSE plain
  /\ UNCHANGED map

Remap(new) == map' = new /\ UNCHANGED plain
=============================================================================
