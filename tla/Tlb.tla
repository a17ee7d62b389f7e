-------------------------------- MODULE Tlb ---------------------------------
(***************************************************************************)
(* tlb.c: a TLB with round-robin replacement, the walk of the translation  *)
(* tables that fills it, and the permission check.  Addresses count words. *)
(* A descriptor is a word of memory; L1desc and L2desc say how the walk    *)
(* reads it.  Sections and small pages are the two mapping sizes kept; the *)
(* coarse and the fine table differ from each other in layout only.        *)
(***************************************************************************)
EXTENDS Integers, FiniteSetsExt

CONSTANTS PageWords,       \* words of a small page                (code: 1024)
          SectionPages,    \* small pages of a section              (code: 256)
          L1desc,          \* what each word means as a first-level descriptor
          L2desc           \* what each word means as a second-level descriptor

TLB_INVALID == "invalid"
TLB_SMALLPAGE == "page"
TLB_SECTION == "section"

\* Domains have two bits of access control each.
NOACCESS == 0
CLIENT == 1
MANAGER == 3

\* What an access that faults returns in place of a word.
FAULT == -1

PageOf(a) == a \div PageWords

\* The pages an entry covers: tlb_masks.
Span(mapping) == IF mapping = TLB_SECTION THEN SectionPages ELSE 1

Entry(mapping, va, base, desc, domain) ==
  [mapping |-> mapping,
   virt    |-> PageOf(va) \div Span(mapping),
   phys    |-> base \div Span(mapping),
   c |-> desc.c, b |-> desc.b, ap |-> desc.ap, domain |-> domain]

NoEntry == [mapping |-> TLB_INVALID]

Entries(t) == 0 .. t.num - 1

mmu_tlb_init(num) == [num |-> num, entrys |-> [e \in 0 .. num - 1 |-> NoEntry], cycle |-> 0]

\* mmu_tlb_search: the entries that match; the code takes the first.
Matches(t, va) ==
  {e \in Entries(t) : /\ t.entrys[e].mapping # TLB_INVALID
                      /\ t.entrys[e].virt = PageOf(va) \div Span(t.entrys[e].mapping)}

TlbHit(t, va) == Matches(t, va) # {}
mmu_tlb_search(t, va) == Min(Matches(t, va))

tlb_va_to_pa(entry, va) ==
  LET span == Span(entry.mapping) * PageWords
  IN (entry.phys * span) + (va % span)

mmu_tlb_invalidate_all(t) == mmu_tlb_init(t.num)

\* Seeded fault: an entry is invalidated only if it is the next to be replaced.
InvalidateNext(t, va) ==
  IF TlbHit(t, va) /\ mmu_tlb_search(t, va) = t.cycle
    THEN [t EXCEPT !.entrys[t.cycle] = NoEntry]
    ELSE t

mmu_tlb_invalidate_entry(t, va) ==
  IF TlbHit(t, va)
    THEN [t EXCEPT !.entrys[mmu_tlb_search(t, va)] = NoEntry]
    ELSE t

\* translate(), the walk: it reads memory, whatever the data cache and the
\* write buffer hold.
Walk(mem, ttb, va) ==
  LET l1 == L1desc[mem[ttb + (PageOf(va) \div SectionPages)]]
      l2 == L2desc[mem[l1.base + (PageOf(va) % SectionPages)]]
  IN CASE l1.kind = "section" -> Entry(TLB_SECTION, va, l1.base, l1, l1.domain)
       [] l1.kind = "table" -> IF l2.kind = "page"
                                 THEN Entry(TLB_SMALLPAGE, va, l2.base, l2, l1.domain)
                                 ELSE NoEntry
       [] OTHER -> NoEntry

\* translate(): the TLB afterwards, and the entry found or NoEntry for a
\* translation fault.
translate(t, mem, ttb, va) ==
  IF TlbHit(t, va)
    THEN [tlb |-> t, entry |-> t.entrys[mmu_tlb_search(t, va)]]
    ELSE LET entry == Walk(mem, ttb, va)
         IN [tlb |-> IF entry = NoEntry
                       THEN t
                       ELSE [t EXCEPT !.entrys[t.cycle] = entry,
                                      !.cycle = (@ + 1) % t.num],
             entry |-> entry]

\* check_perms: control is the set of bits of the control register, user is
\* TRUE in the user and system modes.
check_perms(control, ap, user, read) ==
  CASE ap = 0 -> read /\ (("S" \in control /\ ~user) \/ "R" \in control)
    [] ap = 1 -> ~user
    [] ap = 2 -> read \/ ~user
    [] ap = 3 -> TRUE

\* check_access, for an entry that translate() found.
check_access(control, dacr, entry, user, read) ==
  \/ dacr[entry.domain] = MANAGER
  \/ dacr[entry.domain] = CLIENT /\ check_perms(control, entry.ap, user, read)
=============================================================================
