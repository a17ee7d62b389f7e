------------------------------ MODULE MmuGuest ------------------------------
(***************************************************************************)
(* The memory system of the ARM920T under an operating system that follows *)
(* the architecture's rules, next to the plain memory its programs expect. *)
(*                                                                         *)
(* The rules: one page of the address space is given one mapping after     *)
(* another, by flushing the page, storing its descriptor, cleaning and     *)
(* draining the descriptor and invalidating the TLBs, with accesses to the *)
(* other pages in between; the MMU is turned off after the caches and the  *)
(* buffer have been emptied and on after the instruction cache and the     *)
(* TLBs have; a page that was stored to is cleaned and drained before it   *)
(* is fetched from; no physical page has two virtual ones; programs do not *)
(* store where they must not in pages that hold code.  Maintenance beyond  *)
(* these rules happens at any other time.                                  *)
(***************************************************************************)
EXTENDS Arm920tMmu

CONSTANTS Loaded,          \* memory after loading: the tables and the data
          Table,           \* address of the first-level table
          Access,          \* access control the system gives to the domains
          VPages,          \* virtual pages
          MapOf,           \* what the system means by the tables, for each
                           \* descriptor word of the page it remaps
          FreePage,        \* the virtual page it remaps
          DescVa, DescPa,  \* where that page's descriptor is
          Programs,        \* what runs: the virtual words a program stores to,
                           \* those it only loads from, the pages it fetches from,
                           \* the descriptors the system gives to its page, the
                           \* control bits it sets with the MMU on, and
                           \* the sizes of the TLBs and caches it runs with
          Data             \* words programs store

Descs == DOMAIN MapOf
FreeVa == FreePage * PageWords

\* The virtual words programs of g access, and those the system looks up as well.
Used(g) == g.store \cup g.load \cup {DescVa}
Known(g) == Used(g) \cup {FreeVa}

\* Memory is a function of the address.
ASSUME LoadedAssumption == Loaded = [a \in DOMAIN Loaded |-> Loaded[a]]

ASSUME GuestAssumption ==
  /\ PageWords = LineWords          \* a page is flushed by one operation
  /\ {PageWords, SectionPages, WbNum} \subseteq Nat \ {0}
  /\ DOMAIN Loaded \subseteq Nat /\ VPages \subseteq Nat /\ FreePage \in VPages
  /\ MapOf \in [Descs -> [VPages -> [page : Nat, read : SUBSET BOOLEAN, write : SUBSET BOOLEAN]]]
  /\ Programs \subseteq [store : SUBSET Nat, load : SUBSET Nat,
                          code : SUBSET VPages, descs : SUBSET Descs,
                          controls : SUBSET SUBSET {"M", "C", "S", "R"},
                          size : [{"tlb", "iway", "iset", "dway", "dset"} -> Nat \ {0}]]
  /\ \A g \in Programs :
       /\ \A bits \in g.controls : "M" \in bits
       /\ \A va \in Used(g) : PageOf(va) \in VPages
       /\ g.descs # {} => g.code \cap {FreePage, PageOf(DescVa)} = {}

\* The words a walk reads, the second only where the first names a table.
L1At(va) == Table + (PageOf(va) \div SectionPages)
L2At(va) == L1desc[Loaded[L1At(va)]].base + (PageOf(va) % SectionPages)
InTable(va) == L1desc[Loaded[L1At(va)]].kind = "table"
TableWords(g) == {L1At(va) : va \in Known(g)} \cup {L2At(va) : va \in {u \in Known(g) : InTable(u)}}

\* A walk of the tables with descriptor d for the remapped page, and the physical
\* word that map m has for va.
Meaning(d, va) == Walk([Loaded EXCEPT ![DescPa] = d], Table, va)
Phys(m, va) == (m[PageOf(va)].page * PageWords) + (va % PageWords)

\* The tables: they are in memory, only the descriptor of the page that is
\* remapped is ever stored to, and by the system only.
ASSUME TablesAssumption ==
  /\ Loaded[DescPa] \in Descs
  /\ DescVa \in Nat /\ DescPa \in Nat /\ Table \in Nat
  /\ PageOf(DescVa) # FreePage /\ PageOf(DescPa) \in VPages
  /\ InTable(FreeVa)
  /\ \A g \in Programs :
       /\ TableWords(g) \subseteq DOMAIN Loaded
       /\ \A va \in Known(g) :
            /\ L1At(va) # DescPa
            /\ InTable(va) => (L2At(va) = DescPa <=> PageOf(va) = FreePage)
       /\ \A va \in g.store :
            /\ va \notin TableWords(g)
            /\ \A d \in Descs : Phys(MapOf[d], va) \notin TableWords(g)

\* What the walk makes of va with descriptor d is what the system means by d.
Agrees(g, d, va) ==
  LET entry == Meaning(d, va)
      mapping == MapOf[d][PageOf(va)]
      may(bits, user, rd) == /\ entry # NoEntry
                             /\ check_access(bits \cup {"W"}, Access, entry, user, rd)
  IN /\ entry # NoEntry => /\ tlb_va_to_pa(entry, va) = Phys(MapOf[d], va)
                           /\ entry.c \in BOOLEAN /\ entry.b \in BOOLEAN
     /\ \A bits \in g.controls, user \in BOOLEAN :
          /\ user \in mapping.read <=> may(bits, user, TRUE)
          /\ user \in mapping.write <=> may(bits, user, FALSE)
     /\ \A i \in LineIndex : (mapping.page * PageWords) + i \in DOMAIN Loaded

\* It is for the words programs use, in whatever page the system remaps; no physical
\* page has two virtual ones; and with the MMU off the pages stored to are memory.
ASSUME MapAssumption ==
  /\ \A d, e \in Descs, p \in VPages \ {FreePage} : MapOf[d][p] = MapOf[e][p]
  /\ \A d \in Descs : Phys(MapOf[d], DescVa) = DescPa /\ MapOf[d][PageOf(DescVa)].write = {FALSE}
  /\ \A g \in Programs :
       /\ \A d \in Descs, va \in Used(g) : Agrees(g, d, va)
       /\ \A d \in Descs : \A p, q \in {PageOf(va) : va \in Used(g)} \cup g.code :
            MapOf[d][p].page = MapOf[d][q].page => p = q
       /\ \A va \in g.store, i \in LineIndex : (PageOf(va) * PageWords) + i \in DOMAIN Loaded

VARIABLES prog,            \* the program that runs
          pc,              \* where the system is in its sequences
          next,            \* the descriptor being installed
          fresh,           \* per code page: 0 stored to, 1 cleaned since, 2 drained
          plain, map

P == INSTANCE PlainMemory

guest == <<prog, pc, next, fresh>>
CodePages == prog.code
vars == <<mmu, guest, plain, map>>

\* With the MMU off an address is its own translation.
Identity == [p \in VPages |-> [page |-> p, read |-> BOOLEAN, write |-> BOOLEAN]]

\* The page being remapped is not accessed: nobody has rights, nobody tries.
Busy(m) == [m EXCEPT ![FreePage].read = {}, ![FreePage].write = {}]

\* The sequences in which programs run.
Remapping == {"flushI", "store", "clean", "drain", "tlbD", "tlbI"}
Running == {"idle"} \cup Remapping

\* Pages programs may access now.
Accessible(va) == PageOf(va) = FreePage => pc \notin Remapping

Init ==
  /\ prog \in Programs
  /\ MmuInit(Loaded, prog.size)
  /\ pc = "boot" /\ next = Loaded[DescPa] /\ fresh = [p \in CodePages |-> 2]
  /\ plain = Loaded /\ map = Identity

-----------------------------------------------------------------------------
(* Programs *)

Stored(va) == [p \in CodePages |-> IF p = PageOf(va) THEN 0 ELSE fresh[p]]

Store == \E va \in prog.store \cup {DescVa}, data \in Data, user \in BOOLEAN :
  /\ pc \in Running /\ Accessible(va)
  /\ va = DescVa => user
  /\ P!Writable(va, user) \/ PageOf(va) \notin CodePages
  /\ write(va, data, user)
  /\ P!PlainStore(va, data, user)
  /\ fresh' = Stored(va)
  /\ UNCHANGED <<prog, pc, next>>

Load == \E va \in prog.store \cup prog.load, user \in BOOLEAN :
  /\ pc \in Running /\ Accessible(va)
  /\ read(va, user)
  /\ UNCHANGED <<guest, plain, map>>

MayFetch(va) == PageOf(va) \in CodePages /\ fresh[PageOf(va)] = 2

Fetch == \E va \in prog.store \cup prog.load, user \in BOOLEAN :
  /\ pc \in Running /\ MayFetch(va)
  /\ load_instr(va, user)
  /\ UNCHANGED <<guest, plain, map>>

-----------------------------------------------------------------------------
(* The system *)

Step(from, to) == pc = from /\ pc' = to
Silent == UNCHANGED <<prog, next, fresh, plain, map>>

Cleaned1(p) == [q \in CodePages |-> IF q = p /\ fresh[q] = 0 THEN 1 ELSE fresh[q]]
Drained == [q \in CodePages |-> IF fresh[q] = 1 THEN 2 ELSE fresh[q]]

Maintain ==
  /\ pc = "idle"
  /\ \/ /\ \/ InvalidateIcache \/ InvalidateDcache \/ InvalidateCaches
           \/ InvalidateTlbs \/ InvalidateItlb \/ InvalidateDtlb
           \/ \E va \in prog.store : InvalidateIcacheEntry(va) \/ InvalidateItlbEntry(va)
                                   \/ InvalidateDcacheEntry(va)
                                   \/ CleanInvalidateDcacheEntry(va)
           \/ \E p \in Places(d_cache) : CleanDcacheIndex(p) \/ CleanInvalidateDcacheIndex(p)
           \/ \E bits \in prog.controls : WriteControl(bits)
        /\ UNCHANGED fresh
     \/ \E p \in CodePages : /\ CleanDcacheEntry(p * PageWords)
                             /\ fresh' = Cleaned1(p)
     \/ DrainWriteBuffer /\ fresh' = Drained
  /\ UNCHANGED <<prog, pc, next, plain, map>>

\* The page gets a new mapping.
FlushPage == /\ Step("idle", "flushI")
             /\ next' \in prog.descs
             /\ CleanInvalidateDcacheEntry(FreeVa)
             /\ P!Remap(Busy(map))
             /\ UNCHANGED <<prog, fresh>>
FlushPageI == Step("flushI", "store") /\ InvalidateIcacheEntry(FreeVa) /\ Silent
StoreDesc == /\ Step("store", "clean")
             /\ write(DescVa, next, FALSE)
             /\ P!PlainStore(DescVa, next, FALSE)
             /\ UNCHANGED <<prog, next, fresh>>
CleanDesc == Step("clean", "drain") /\ CleanDcacheEntry(DescVa) /\ Silent
DrainDesc == /\ Step("drain", "tlbD")
             /\ DrainWriteBuffer
             /\ fresh' = Drained
             /\ UNCHANGED <<prog, next, plain, map>>
TlbEntryD == Step("tlbD", "tlbI") /\ InvalidateDtlbEntry(FreeVa) /\ Silent
TlbEntryI == /\ Step("tlbI", "idle")
             /\ InvalidateItlbEntry(FreeVa)
             /\ P!Remap(MapOf[next])
             /\ UNCHANGED <<prog, next, fresh>>

\* The registers are set up and the MMU is turned on and off.
BootTtb == Step("boot", "boot2") /\ WriteTtb(Table) /\ Silent
BootDacr == Step("boot2", "off") /\ WriteDacr(Access) /\ Silent
TurnOnIcache == Step("off", "on1") /\ InvalidateIcache /\ Silent
TurnOnTlbs == Step("on1", "on2") /\ InvalidateTlbs /\ Silent
TurnOn == /\ Step("on2", "idle")
          /\ \E bits \in prog.controls : WriteControl(bits)
          /\ P!Remap(MapOf[next])
          /\ UNCHANGED <<prog, next, fresh>>
TurnOffCaches == Step("idle", "off1") /\ InvalidateCaches /\ Silent
TurnOffDrain == /\ Step("off1", "off2")
                /\ DrainWriteBuffer
                /\ UNCHANGED <<prog, next, plain, map>>
                /\ fresh' = [p \in CodePages |-> 2]
TurnOff == /\ Step("off2", "off")
           /\ WriteControl({})
           /\ P!Remap(Identity)
           /\ UNCHANGED <<prog, next, fresh>>

\* Accesses with the MMU off; a store may replace the page's descriptor.
OffStore == \E pa \in prog.store, data \in Data :
  /\ pc = "off"
  /\ write(pa, data, FALSE) /\ P!PlainStore(pa, data, FALSE)
  /\ UNCHANGED guest
OffStoreDesc == \E d \in prog.descs :
  /\ pc = "off"
  /\ write(DescPa, d, FALSE) /\ P!PlainStore(DescPa, d, FALSE)
  /\ next' = d
  /\ UNCHANGED <<prog, pc, fresh>>
OffFetch == \E pa \in prog.store :
  pc = "off" /\ load_instr(pa, FALSE) /\ UNCHANGED <<guest, plain, map>>
OffLoad == \E pa \in prog.store :
  pc = "off" /\ read(pa, FALSE) /\ UNCHANGED <<guest, plain, map>>

Next ==
  \/ Store \/ Load \/ Fetch \/ Maintain
  \/ FlushPage \/ FlushPageI \/ StoreDesc \/ CleanDesc \/ DrainDesc
  \/ TlbEntryD \/ TlbEntryI
  \/ BootTtb \/ BootDacr \/ TurnOnIcache \/ TurnOnTlbs \/ TurnOn
  \/ TurnOffCaches \/ TurnOffDrain \/ TurnOff
  \/ OffStore \/ OffStoreDesc \/ OffFetch \/ OffLoad

Spec == Init /\ [][Next]_vars

-----------------------------------------------------------------------------
(* Properties *)

TypeOK ==
  /\ DOMAIN mem = DOMAIN Loaded /\ DOMAIN plain = DOMAIN Loaded
  /\ control \subseteq {"M", "C", "W", "S", "R"} /\ (MMU_Enabled => MMU_WBEnabled)
  /\ \A t \in {i_tlb, d_tlb} : t.cycle \in Entries(t)
  /\ \A c \in {i_cache, d_cache} :
       /\ \A s \in 0 .. c.set - 1 : c.cycle[s] \in 0 .. c.way - 1
       /\ \A l \in Lines(c) : l.dirty \subseteq {FIRST, LAST} /\ l.pa \in DOMAIN mem
       \* a virtual address is in one place at most
       /\ \A l \in Lines(c) : Cardinality(Holding(c, l.tag)) = 1
  /\ Len(wb) <= WbNum
  /\ next \in Descs

\* No store is lost, delayed past a newer one or made twice: whatever lines are
\* replaced, cleaned, invalidated or softly flushed, whenever the buffer fills
\* up or is drained, and across every change of a mapping and of the MMU's
\* state, each word the emulated machine holds is the last one stored there; a
\* store that faults stores nothing.
NoStoreLost == \A pa \in DOMAIN plain : Current(pa) = plain[pa]

\* An access gets what plain memory gives: a load returns the last word stored at
\* the address, or faults, exactly as the mapping in force says, and so does a
\* fetch from a page that was cleaned and drained after its last store.
LoadsAgree ==
  /\ pc \in Running =>
       \A user \in BOOLEAN, va \in prog.store \cup prog.load :
         /\ Accessible(va) /\ P!PlainPa(va) \notin FlushWords =>
              ReadData(va, user) = P!PlainRead(va, user)
         /\ MayFetch(va) => Instr(va, user) = P!PlainRead(va, user)
  /\ pc = "off" => \A pa \in prog.store :
                     ReadData(pa, FALSE) = plain[pa] /\ Instr(pa, FALSE) = plain[pa]

\* A TLB entry is what a walk of the tables in memory gives now, except for the
\* page whose descriptor the system has stored and not yet invalidated.
TlbCurrent ==
  MMU_Enabled =>
    \A t \in {i_tlb, d_tlb} : \A e \in Entries(t) :
      LET entry == t.entrys[e]
          va == entry.virt * Span(entry.mapping) * PageWords
      IN entry.mapping # TLB_INVALID =>
           \/ entry = Walk(mem, ttb, va)
           \/ PageOf(va) = FreePage /\ pc \in {"clean", "drain", "tlbD", "tlbI"}
=============================================================================
