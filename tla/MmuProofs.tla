------------------------------ MODULE MmuProofs -----------------------------
(***************************************************************************)
(* Proofs about the memory system of the ARM920T under a system that       *)
(* follows the architecture's rules: no store is lost, loads and fetches   *)
(* agree with plain memory and TLB entries are current, for pages, caches, *)
(* TLBs and write buffers of any size, any tables and any programs.        *)
(***************************************************************************)
EXTENDS MmuGuest, FiniteSetTheorems, SequenceTheorems, WellFoundedInduction, TLAPS

-----------------------------------------------------------------------------
(* The inductive invariant *)

\* Words.
Vals == {Loaded[a] : a \in DOMAIN Loaded} \cup Data \cup Descs

LineRec == [valid : {TRUE}, tag : Nat, pa : Nat, dirty : SUBSET {FIRST, LAST},
            data : [LineIndex -> Vals]]
CacheRec(w, s) == [way : {w}, set : {s},
                   lines : [(0 .. s - 1) \X (0 .. w - 1) -> LineRec \cup {NoLine}],
                   cycle : [0 .. s - 1 -> 0 .. w - 1]]

\* Line l holds a page of V: the words of pl where map m has that page.
Holds(l, V, m, pl) == \E v \in V : /\ l.tag = v * PageWords
                                   /\ l.pa = m[v].page * PageWords
                                   /\ \A i \in LineIndex : l.data[i] = pl[l.pa + i]

\* A cache holds pages of V only, each in one place of the set it belongs to.
Coherent(c, V, m, pl) ==
  \A p \in Places(c) : c.lines[p].valid =>
    /\ Holds(c.lines[p], V, m, pl)
    /\ p[1] = va_cache_set(c.lines[p].tag, c)
    /\ \A q \in Places(c) : c.lines[q].valid /\ c.lines[q].tag = c.lines[p].tag => q = p

OffPcs == {"boot", "boot2", "off", "on1", "on2"}
OnPcs == Running \cup {"off1", "off2"}

UsedPages(g) == {PageOf(va) : va \in Used(g)}

\* The pages the two caches may hold lines of when the system is at q.
DPages(q, g) == CASE q = "idle" -> UsedPages(g)
                  [] q \in Remapping -> UsedPages(g) \ {FreePage}
                  [] OTHER -> {}
IPages(q, g) == CASE q \in Running -> UsedPages(g) \cap g.code
                  [] q \in {"boot", "boot2", "off"} -> {PageOf(va) : va \in g.store}
                  [] OTHER -> {}

\* The words the write buffer may hold: those of buffered pages, and of the
\* remapped page until the drain.
Delayable(q, g, cur) ==
  {va \in g.store \cup {DescVa} :
     /\ q \in Running \cup {"off1"}
     /\ PageOf(va) = FreePage => q \notin {"tlbD", "tlbI"}
     /\ \/ PageOf(va) = FreePage /\ q \in Remapping
        \/ Meaning(cur, va) # NoEntry /\ Meaning(cur, va).b}

WbRec == [pa : Nat, data : Vals]

Memory == [DOMAIN Loaded -> Vals]

\* Types.
Typed ==
  /\ prog \in Programs
  /\ pc \in OffPcs \cup OnPcs
  /\ next \in Descs
  /\ fresh \in [CodePages -> 0 .. 2]
  /\ mem \in Memory
  /\ plain \in Memory
  /\ i_cache \in CacheRec(prog.size["iway"], prog.size["iset"])
  /\ d_cache \in CacheRec(prog.size["dway"], prog.size["dset"])
  /\ wb \in Seq(WbRec) /\ Len(wb) <= WbNum

\* The registers and the map in each phase of the system.
Phased ==
  /\ pc \in OnPcs => \E bits \in prog.controls : control = bits \cup {"W"}
  /\ pc \in OffPcs => control \in {{}, {"W"}}
  /\ pc # "boot" => ttb = Table
  /\ pc \notin {"boot", "boot2"} => dacr = Access
  /\ pc \in {"idle", "off1", "off2"} => map = MapOf[next]
  /\ pc \in Remapping => prog.descs # {} /\ \E d \in Descs : map = Busy(MapOf[d])
  /\ pc \in OffPcs => map = Identity

\* The buffer b holds words of S only, where map m has them.
Delayed(b, S, m) == \A n \in DOMAIN b : \E va \in S : b[n].pa = Phys(m, va)

\* It holds no word of a page that has a line in cache c.
Separate(c, b) ==
  \A n \in DOMAIN b, p \in Places(c) : c.lines[p].valid => va_cache_align(b[n].pa) # c.lines[p].pa

\* What cache c and buffer b have not written yet is all that memory m lacks.
Complete(c, b, m, pl) ==
  \A a \in DOMAIN Loaded :
    /\ Buffered(b, a) => LastBuffered(b, a) = pl[a]
    /\ DirtyPlaces(c, a) = {} /\ ~Buffered(b, a) => m[a] = pl[a]

\* Memory, the caches and the buffer together hold plain memory.
Coherence ==
  /\ Coherent(i_cache, IPages(pc, prog), map, plain)
  /\ Coherent(d_cache, DPages(pc, prog), map, plain)
  /\ Delayed(wb, Delayable(pc, prog, plain[DescPa]), map)
  /\ Separate(d_cache, wb)
  /\ Complete(d_cache, wb, mem, plain)

\* A page of C that was cleaned, and drained, is in memory.
InMemory(c, b, C, fr, m) ==
  \A p \in C, a \in DOMAIN Loaded : PageOf(a) = m[p].page =>
    /\ fr[p] # 0 => DirtyPlaces(c, a) = {}
    /\ fr[p] = 2 => ~Buffered(b, a)

\* The code pages are in memory where the system says so.
Freshness == InMemory(d_cache, wb, CodePages, fresh, map)

\* The tables in memory M.
TablesIn(M, g) == \A w \in TableWords(g) \ {DescPa} : M[w] = Loaded[w]

\* The descriptor of the remapped page when the system is at q: what it is, and
\* whether memory has it.
DescAt(q, d, b, m, pl) ==
  /\ pl[DescPa] \in Descs
  /\ q \notin {"flushI", "store"} => pl[DescPa] = d
  /\ q \notin {"clean", "drain"} => ~Buffered(b, DescPa)
  /\ q # "clean" /\ ~Buffered(b, DescPa) => m[DescPa] = pl[DescPa]

\* The tables.
Tables ==
  /\ TablesIn(mem, prog) /\ TablesIn(plain, prog)
  /\ DescAt(pc, next, wb, mem, plain)

\* The entries of a TLB are walks of these tables, those of the remapped page
\* with the descriptor in force unless they are stale.
Fine(t, n, g, cur, stale) ==
  /\ t.num = n /\ t.cycle \in 0 .. n - 1
  /\ t = [num |-> n, entrys |-> t.entrys, cycle |-> t.cycle]
  /\ t.entrys = [e \in 0 .. n - 1 |-> t.entrys[e]]
  /\ \A e \in 0 .. n - 1 :
       t.entrys[e] = NoEntry \/ \E va \in Used(g), d \in Descs :
                                  /\ t.entrys[e] = Meaning(d, va) /\ Meaning(d, va) # NoEntry
                                  /\ PageOf(va) = FreePage /\ ~stale => d = cur
  /\ \A va \in Known(g) : \A e, f \in Matches(t, va) : e = f

StaleI(q) == q \in {"clean", "drain", "tlbD", "tlbI", "boot", "boot2", "off", "on1"}
StaleD(q) == StaleI(q) /\ q # "tlbI"

\* The TLBs.
Translated == /\ Fine(i_tlb, prog.size["tlb"], prog, plain[DescPa], StaleI(pc))
              /\ Fine(d_tlb, prog.size["tlb"], prog, plain[DescPa], StaleD(pc))

MmuInv == Typed /\ Phased /\ Coherence /\ Freshness /\ Tables /\ Translated

-----------------------------------------------------------------------------
(* Pages and words *)

\* The sizes are positive, and a line is a page.
LEMMA Sizes ==
  /\ PageWords \in Nat \ {0} /\ SectionPages \in Nat \ {0} /\ WbNum \in Nat \ {0}
  /\ LineWords = PageWords /\ LineIndex = 0 .. PageWords - 1
BY GuestAssumption DEF LineIndex

\* Quotient and remainder determine each other.
LEMMA DivMod ==
  ASSUME NEW n \in Nat \ {0}, NEW a \in Nat
  PROVE  /\ a \div n \in Nat /\ a % n \in 0 .. n - 1
         /\ a = (a \div n) * n + (a % n)
<1> DEFINE q == a \div n
           r == a % n
<1>1. q \in Int /\ r \in 0 .. n - 1 /\ a = q * n + r
  OBVIOUS
<1> HIDE DEF q, r
<1>2. q >= 0
  <2> SUFFICES ASSUME q < 0 PROVE FALSE
    BY <1>1
  <2>1. q <= -1
    BY <1>1
  <2>2. q * n <= (-1) * n
    BY <1>1, <2>1
  <2> QED BY <1>1, <2>2
<1> QED BY <1>1, <1>2 DEF q, r

\* Equal quotients for equal sums.
LEMMA DivUnique ==
  ASSUME NEW n \in Nat \ {0}, NEW q \in Nat, NEW r \in 0 .. n - 1
  PROVE  (q * n + r) \div n = q /\ (q * n + r) % n = r
OBVIOUS

\* A word is a page and a place in it.
LEMMA WordParts ==
  ASSUME NEW a \in Nat
  PROVE  /\ PageOf(a) \in Nat /\ a % PageWords \in LineIndex
         /\ a = PageOf(a) * PageWords + (a % PageWords)
         /\ va_cache_align(a) = PageOf(a) * PageWords
         /\ va_cache_index(a) = a % PageWords
         /\ va_cache_align(a) + va_cache_index(a) = a
         /\ va_cache_index(a) \in LineIndex
<1> DEFINE q == PageOf(a)
           r == a % PageWords
<1>1. q \in Nat /\ r \in LineIndex /\ a = q * PageWords + r
  BY Sizes, DivMod DEF PageOf
<1>2. va_cache_align(a) = a - r /\ va_cache_index(a) = r
  BY Sizes DEF va_cache_align, va_cache_index
<1> HIDE DEF q, r
<1>3. q * PageWords \in Nat /\ r \in Nat
  BY <1>1, Sizes
<1>4. va_cache_align(a) = q * PageWords /\ va_cache_align(a) + va_cache_index(a) = a
  BY <1>1, <1>2, <1>3
<1> QED BY <1>1, <1>2, <1>4 DEF q, r

\* A page and a place in it make a word.
LEMMA PartsWord ==
  ASSUME NEW v \in Nat, NEW i \in LineIndex
  PROVE  /\ v * PageWords + i \in Nat /\ i \in Nat
         /\ PageOf(v * PageWords + i) = v
         /\ (v * PageWords + i) % PageWords = i
         /\ va_cache_align(v * PageWords + i) = v * PageWords
         /\ va_cache_index(v * PageWords + i) = i
<1>1. v * PageWords + i \in Nat /\ i \in Nat
  BY Sizes
<1>2. PageOf(v * PageWords + i) = v /\ (v * PageWords + i) % PageWords = i
  BY Sizes, DivUnique DEF PageOf
<1> QED BY <1>1, <1>2, WordParts

\* The first word of a page.
LEMMA PageStart ==
  ASSUME NEW v \in Nat
  PROVE  /\ v * PageWords \in Nat
         /\ PageOf(v * PageWords) = v
         /\ va_cache_align(v * PageWords) = v * PageWords
         /\ \A u \in Nat : u * PageWords = v * PageWords => u = v
<1>1. 0 \in LineIndex
  BY Sizes
<1>2. ASSUME NEW u \in Nat PROVE u * PageWords + 0 = u * PageWords /\ u * PageWords \in Nat
  BY Sizes
<1>3. ASSUME NEW u \in Nat PROVE /\ PageOf(u * PageWords) = u
                                 /\ va_cache_align(u * PageWords) = u * PageWords
  <2>1. /\ PageOf(u * PageWords + 0) = u
        /\ va_cache_align(u * PageWords + 0) = u * PageWords
    BY <1>1, PartsWord
  <2> QED BY <1>2, <2>1
<1>4. ASSUME NEW u \in Nat, u * PageWords = v * PageWords PROVE u = v
  <2>1. PageOf(u * PageWords) = u /\ PageOf(v * PageWords) = v
    BY <1>3
  <2> QED BY <1>4, <2>1
<1> QED BY <1>2, <1>3, <1>4

\* The word a map has for va.
LEMMA PhysParts ==
  ASSUME NEW m, NEW va \in Nat, m[PageOf(va)].page \in Nat
  PROVE  /\ Phys(m, va) \in Nat
         /\ PageOf(Phys(m, va)) = m[PageOf(va)].page
         /\ va_cache_align(Phys(m, va)) = m[PageOf(va)].page * PageWords
         /\ va_cache_index(Phys(m, va)) = va_cache_index(va)
BY WordParts, PartsWord DEF Phys

\* All words of a line belong to one set of a cache.
LEMMA SetOfLine ==
  ASSUME NEW c, NEW va \in Nat
  PROVE  va_cache_set(va_cache_align(va), c) = va_cache_set(va, c)
<1>1. PageOf(va_cache_align(va)) = PageOf(va)
  BY WordParts, PageStart
<1> QED BY <1>1, Sizes DEF va_cache_set, PageOf

-----------------------------------------------------------------------------
(* Caches *)

Sized(w, s) == w \in Nat \ {0} /\ s \in Nat \ {0}
Grid(w, s) == (0 .. s - 1) \X (0 .. w - 1)

\* Caches c and d differ in the line at place p, where d has l.
Changed(c, d, p, l) ==
  /\ d.way = c.way /\ d.set = c.set /\ d.lines[p] = l
  /\ \A q \in Places(c) : q # p => d.lines[q] = c.lines[q]

\* The parts of a cache.
LEMMA CacheParts ==
  ASSUME NEW w, NEW s, NEW c \in CacheRec(w, s)
  PROVE  /\ c.way = w /\ c.set = s /\ Places(c) = Grid(w, s)
         /\ c.lines \in [Grid(w, s) -> LineRec \cup {NoLine}]
         /\ c.cycle \in [0 .. s - 1 -> 0 .. w - 1]
         /\ c = [way |-> w, set |-> s, lines |-> c.lines, cycle |-> c.cycle]
BY DEF CacheRec, Places, Grid

\* A line is valid and has its parts, or it is none.
LEMMA LineKinds ==
  ASSUME NEW l \in LineRec \cup {NoLine}
  PROVE  /\ l.valid \in BOOLEAN
         /\ l.valid => /\ l \in LineRec /\ l.tag \in Nat /\ l.pa \in Nat
                       /\ l.dirty \subseteq {FIRST, LAST} /\ l.data \in [LineIndex -> Vals]
         /\ ~l.valid => l = NoLine
<1>1. CASE l \in LineRec
  <2>1. /\ l.valid = TRUE /\ l.tag \in Nat /\ l.pa \in Nat
        /\ l.dirty \subseteq {FIRST, LAST} /\ l.data \in [LineIndex -> Vals]
    BY <1>1 DEF LineRec
  <2> QED BY <1>1, <2>1
<1>2. CASE l = NoLine
  <2>1. l.valid = FALSE
    BY <1>2 DEF NoLine
  <2> QED BY <1>2, <2>1
<1> QED BY <1>1, <1>2

\* Another line in a place of a cache.
LEMMA PutLine ==
  ASSUME NEW w, NEW s, NEW c \in CacheRec(w, s), NEW p \in Places(c),
         NEW l \in LineRec \cup {NoLine}
  PROVE  /\ [c EXCEPT !.lines[p] = l] \in CacheRec(w, s)
         /\ Changed(c, [c EXCEPT !.lines[p] = l], p, l)
<1> DEFINE d == [c EXCEPT !.lines[p] = l]
<1>1. d = [way |-> w, set |-> s, lines |-> [c.lines EXCEPT ![p] = l], cycle |-> c.cycle]
  BY CacheParts
<1>2. [c.lines EXCEPT ![p] = l] \in [Grid(w, s) -> LineRec \cup {NoLine}]
  BY CacheParts
<1>3. d \in CacheRec(w, s)
  BY <1>1, <1>2, CacheParts DEF CacheRec, Grid
<1>4. Changed(c, d, p, l)
  BY <1>1, CacheParts DEF Changed
<1> QED BY <1>3, <1>4

\* The places that hold a line are in the line's set; the lookup finds the line,
\* which no other place has.
LEMMA Lookup ==
  ASSUME NEW w, NEW s, Sized(w, s), NEW c \in CacheRec(w, s), NEW va \in Nat,
         NEW V, NEW m, NEW pl, Coherent(c, V, m, pl), CacheHit(c, va)
  PROVE  LET p == mmu_cache_search(c, va)
         IN /\ p \in Places(c) /\ Holding(c, va) = {p}
            /\ c.lines[p].valid /\ c.lines[p].tag = va_cache_align(va)
<1>1. PICK q \in Holding(c, va) : TRUE
  BY DEF CacheHit
<1>2. /\ q \in Places(c) /\ q[1] = va_cache_set(va, c) /\ c.lines[q].valid
      /\ c.lines[q].tag = va_cache_align(va)
  BY <1>1 DEF Holding
<1>3. Holding(c, va) = {q}
  <2>1. ASSUME NEW r \in Holding(c, va) PROVE r = q
    BY <1>2, <2>1 DEF Holding, Coherent
  <2> QED BY <1>1, <2>1
<1>4. q \in Grid(w, s)
  BY <1>2, CacheParts
<1>5. q[2] \in Int /\ q = <<q[1], q[2]>>
  BY <1>4 DEF Grid, Sized
<1>6. {p[2] : p \in Holding(c, va)} = {q[2]}
  BY <1>3
<1>7. Min({q[2]}) = q[2]
  BY <1>5 DEF Min
<1>8. mmu_cache_search(c, va) = q
  BY <1>2, <1>5, <1>6, <1>7 DEF mmu_cache_search
<1> QED BY <1>2, <1>3, <1>8

\* A miss: no place has the line.
LEMMA Miss ==
  ASSUME NEW w, NEW s, NEW c \in CacheRec(w, s), NEW va \in Nat,
         NEW V, NEW m, NEW pl, Coherent(c, V, m, pl), ~CacheHit(c, va),
         NEW p \in Places(c), c.lines[p].valid
  PROVE  c.lines[p].tag # va_cache_align(va)
<1> SUFFICES ASSUME c.lines[p].tag = va_cache_align(va) PROVE FALSE
  OBVIOUS
<1>1. p[1] = va_cache_set(va_cache_align(va), c)
  BY DEF Coherent
<1>2. p \in Holding(c, va)
  BY <1>1, SetOfLine DEF Holding
<1> QED BY <1>2 DEF CacheHit

\* A cache with a coherent line in a place of its set is coherent.
LEMMA CoherentChange ==
  ASSUME NEW c, NEW d, NEW p \in Places(c), NEW l, Changed(c, d, p, l),
         NEW V, NEW m, NEW pl, Coherent(c, V, m, pl),
         l.valid => /\ Holds(l, V, m, pl) /\ p[1] = va_cache_set(l.tag, c)
                    /\ \A q \in Places(c) : /\ q # p
                                            /\ c.lines[q].valid
                                            => c.lines[q].tag # l.tag
  PROVE  Coherent(d, V, m, pl)
<1>1. Places(d) = Places(c)
  BY DEF Changed, Places
<1>2. \A a : va_cache_set(a, d) = va_cache_set(a, c)
  BY DEF Changed, va_cache_set
<1>3. SUFFICES ASSUME NEW q \in Places(c), d.lines[q].valid
               PROVE  /\ Holds(d.lines[q], V, m, pl)
                      /\ q[1] = va_cache_set(d.lines[q].tag, c)
                      /\ \A r \in Places(c) : /\ d.lines[r].valid
                                              /\ d.lines[r].tag = d.lines[q].tag
                                              => r = q
  BY <1>1, <1>2 DEF Coherent
<1>4. CASE q = p
  <2>1. d.lines[q] = l /\ l.valid
    BY <1>3, <1>4 DEF Changed
  <2>2. ASSUME NEW r \in Places(c), d.lines[r].valid, d.lines[r].tag = l.tag PROVE r = q
    BY <1>4, <2>1, <2>2 DEF Changed
  <2> QED BY <1>4, <2>1, <2>2
<1>5. CASE q # p
  <2>1. d.lines[q] = c.lines[q] /\ c.lines[q].valid
    BY <1>3, <1>5 DEF Changed
  <2>2. ASSUME NEW r \in Places(c), d.lines[r].valid, d.lines[r].tag = c.lines[q].tag PROVE r = q
    <3>1. CASE r = p
      BY <1>5, <2>1, <2>2, <3>1 DEF Changed
    <3>2. CASE r # p
      BY <2>1, <2>2, <3>2 DEF Changed, Coherent
    <3> QED BY <3>1, <3>2
  <2> QED BY <2>1, <2>2 DEF Coherent
<1> QED BY <1>4, <1>5

\* From cache c and memory m to d and n, lines are dropped or cleaned and what was
\* dirty in them has reached memory.
Purged(c, m, d, n, pl) ==
  \A a \in DOMAIN Loaded :
    /\ n[a] = m[a] \/ n[a] = pl[a]
    /\ DirtyPlaces(d, a) # {} => DirtyPlaces(c, a) # {}
    /\ DirtyPlaces(c, a) # {} /\ DirtyPlaces(d, a) = {} => n[a] = pl[a]

\* Nothing is purged where nothing changes.
LEMMA PurgedNone ==
  ASSUME NEW c, NEW m, NEW pl
  PROVE  Purged(c, m, c, m, pl)
BY DEF Purged

\* One after the other.
LEMMA PurgedTrans ==
  ASSUME NEW c, NEW m, NEW d, NEW n, NEW e, NEW o, NEW pl,
         Purged(c, m, d, n, pl), Purged(d, n, e, o, pl)
  PROVE  Purged(c, m, e, o, pl)
<1> SUFFICES ASSUME NEW a \in DOMAIN Loaded
             PROVE  /\ o[a] = m[a] \/ o[a] = pl[a]
                    /\ DirtyPlaces(e, a) # {} => DirtyPlaces(c, a) # {}
                    /\ DirtyPlaces(c, a) # {} /\ DirtyPlaces(e, a) = {} => o[a] = pl[a]
  BY DEF Purged
<1>1. /\ n[a] = m[a] \/ n[a] = pl[a]
      /\ DirtyPlaces(d, a) # {} => DirtyPlaces(c, a) # {}
      /\ DirtyPlaces(c, a) # {} /\ DirtyPlaces(d, a) = {} => n[a] = pl[a]
  BY DEF Purged
<1>2. /\ o[a] = n[a] \/ o[a] = pl[a]
      /\ DirtyPlaces(e, a) # {} => DirtyPlaces(d, a) # {}
      /\ DirtyPlaces(d, a) # {} /\ DirtyPlaces(e, a) = {} => o[a] = pl[a]
  BY DEF Purged
<1> QED BY <1>1, <1>2

\* A dirty line of a coherent cache has the words of plain memory.
LEMMA DirtyWord ==
  ASSUME NEW c, NEW V, NEW m, NEW pl, Coherent(c, V, m, pl),
         NEW a \in DOMAIN Loaded, NEW p \in DirtyPlaces(c, a)
  PROVE  c.lines[p].data[va_cache_index(a)] = pl[a]
<1>1. /\ p \in Places(c) /\ c.lines[p].valid /\ c.lines[p].pa = va_cache_align(a)
  BY DEF DirtyPlaces
<1>2. \A i \in LineIndex : c.lines[p].data[i] = pl[c.lines[p].pa + i]
  BY <1>1 DEF Coherent, Holds
<1>3. a \in Nat
  BY GuestAssumption
<1>4. va_cache_index(a) \in LineIndex /\ va_cache_align(a) + va_cache_index(a) = a
  BY <1>3, WordParts
<1> QED BY <1>1, <1>2, <1>4

\* Writing back a line and leaving a clean one, or none, in its place.
LEMMA PurgedChange ==
  ASSUME NEW w, NEW s, NEW c \in CacheRec(w, s), NEW d, NEW p \in Places(c), NEW l,
         Changed(c, d, p, l), l.valid => l.dirty = {},
         NEW V, NEW m, NEW pl, Coherent(c, V, m, pl), NEW old \in Memory
  PROVE  /\ mmu_cache_write_back(old, c.lines[p]) \in Memory
         /\ Purged(c, old, d, mmu_cache_write_back(old, c.lines[p]), pl)
<1> DEFINE k == c.lines[p]
           new == mmu_cache_write_back(old, k)
<1>1. k \in LineRec \cup {NoLine}
  BY CacheParts
<1>2. Places(d) = Places(c)
  BY DEF Changed, Places
<1>3. ASSUME NEW a \in DOMAIN Loaded
      PROVE  new[a] = IF p \in DirtyPlaces(c, a) THEN k.data[va_cache_index(a)] ELSE old[a]
  BY <1>3 DEF mmu_cache_write_back, DirtyPlaces, Memory
<1>4. ASSUME NEW a \in DOMAIN Loaded
      PROVE  /\ new[a] \in Vals
             /\ new[a] = old[a] \/ new[a] = pl[a]
             /\ DirtyPlaces(d, a) # {} => DirtyPlaces(c, a) # {}
             /\ DirtyPlaces(c, a) # {} /\ DirtyPlaces(d, a) = {} => new[a] = pl[a]
  <2>1. p \in DirtyPlaces(c, a) => new[a] = pl[a]
    BY <1>3, DirtyWord
  <2>2. p \notin DirtyPlaces(c, a) => new[a] = old[a]
    BY <1>3
  <2>3. ASSUME NEW q \in DirtyPlaces(d, a) PROVE q \in DirtyPlaces(c, a)
    <3>1. q # p
      BY <2>3 DEF DirtyPlaces, Changed
    <3> QED BY <1>2, <2>3, <3>1 DEF DirtyPlaces, Changed
  <2>4. ASSUME NEW q \in DirtyPlaces(c, a), q # p PROVE q \in DirtyPlaces(d, a)
    BY <1>2, <2>4 DEF DirtyPlaces, Changed
  <2>5. new[a] \in Vals
    <3>1. CASE p \in DirtyPlaces(c, a)
      <4>1. k.valid
        BY <3>1 DEF DirtyPlaces
      <4>2. k.data \in [LineIndex -> Vals]
        BY <1>1, <4>1, LineKinds
      <4>3. va_cache_index(a) \in LineIndex
        BY GuestAssumption, WordParts
      <4> QED BY <1>3, <3>1, <4>2, <4>3
    <3>2. CASE p \notin DirtyPlaces(c, a)
      BY <2>2, <3>2 DEF Memory
    <3> QED BY <3>1, <3>2
  <2> HIDE DEF new
  <2> QED BY <2>1, <2>2, <2>3, <2>4, <2>5
<1>5. new = [a \in DOMAIN Loaded |-> new[a]]
  BY DEF mmu_cache_write_back, Memory
<1> HIDE DEF new
<1>6. new \in Memory
  BY <1>4, <1>5 DEF Memory
<1>7. Purged(c, old, d, new, pl)
  BY <1>4 DEF Purged
<1> QED BY <1>6, <1>7 DEF new

\* No line of d is new.
Fewer(c, d) ==
  \A p \in Places(d) : d.lines[p].valid =>
    \E q \in Places(c) : /\ c.lines[q].valid
                         /\ c.lines[q].tag = d.lines[p].tag /\ c.lines[q].pa = d.lines[p].pa

\* What cache maintenance does to a coherent cache c and the memory m.
Maintained(c, old, r, w, s, V, m, pl) ==
  /\ r.cache \in CacheRec(w, s) /\ r.mem \in Memory
  /\ Coherent(r.cache, V, m, pl)
  /\ Purged(c, old, r.cache, r.mem, pl)
  /\ Fewer(c, r.cache)

\* A cache that is left alone is maintained.
LEMMA MaintainedNone ==
  ASSUME NEW w, NEW s, NEW c \in CacheRec(w, s), NEW V, NEW m, NEW pl,
         Coherent(c, V, m, pl), NEW old \in Memory
  PROVE  Maintained(c, old, [cache |-> c, mem |-> old], w, s, V, m, pl)
BY PurgedNone DEF Maintained, Fewer

\* Maintenance after maintenance.
LEMMA MaintainedTrans ==
  ASSUME NEW w, NEW s, NEW c, NEW old, NEW r, NEW t, NEW V, NEW m, NEW pl,
         Maintained(c, old, r, w, s, V, m, pl),
         Maintained(r.cache, r.mem, t, w, s, V, m, pl)
  PROVE  Maintained(c, old, t, w, s, V, m, pl)
<1>1. Purged(c, old, t.cache, t.mem, pl)
  BY PurgedTrans DEF Maintained
<1>2. Fewer(c, t.cache)
  <2>1. Fewer(c, r.cache) /\ Fewer(r.cache, t.cache)
    BY DEF Maintained
  <2> QED BY <2>1 DEF Fewer
<1> QED BY <1>1, <1>2 DEF Maintained

\* A line is written back and gives its place to none, or to itself cleaned.
LEMMA MaintainedReplace ==
  ASSUME NEW w, NEW s, NEW c \in CacheRec(w, s), NEW V, NEW m, NEW pl,
         Coherent(c, V, m, pl), NEW old \in Memory, NEW p \in Places(c),
         NEW l \in {NoLine, Cleaned(c.lines[p])}
  PROVE  /\ Maintained(c, old, Replace(c, old, p, l), w, s, V, m, pl)
         /\ Changed(c, Replace(c, old, p, l).cache, p, l)
<1> DEFINE k == c.lines[p]
           d == [c EXCEPT !.lines[p] = l]
           new == mmu_cache_write_back(old, k)
<1>1. k \in LineRec \cup {NoLine}
  BY CacheParts
<1>2. /\ l \in LineRec \cup {NoLine}
      /\ l.valid => l.dirty = {}
      /\ l.valid => k.valid /\ l.tag = k.tag /\ l.pa = k.pa /\ l.data = k.data
  <2>1. CASE l = NoLine
    BY <2>1 DEF NoLine
  <2>2. CASE l = Cleaned(k) /\ ~k.valid
    <3>1. l = k
      BY <2>2 DEF Cleaned
    <3> QED BY <1>1, <2>2, <3>1
  <2>3. CASE l = Cleaned(k) /\ k.valid
    <3>1. l = [k EXCEPT !.dirty = {}]
      BY <2>3 DEF Cleaned
    <3>2. k \in LineRec
      BY <1>1, <2>3, LineKinds
    <3>3. l \in LineRec /\ l.dirty = {} /\ l.tag = k.tag /\ l.pa = k.pa /\ l.data = k.data
      BY <3>1, <3>2 DEF LineRec
    <3> QED BY <2>3, <3>3
  <2> QED BY <2>1, <2>2, <2>3
<1>3. d \in CacheRec(w, s) /\ Changed(c, d, p, l)
  BY <1>2, PutLine
<1>4. Replace(c, old, p, l).cache = d /\ Replace(c, old, p, l).mem = new
  BY DEF Replace
<1> HIDE DEF d, new
<1>5. new \in Memory /\ Purged(c, old, d, new, pl)
  BY <1>2, <1>3, PurgedChange DEF new
<1>6. Coherent(d, V, m, pl)
  <2>1. l.valid => /\ Holds(l, V, m, pl) /\ p[1] = va_cache_set(l.tag, c)
                   /\ \A q \in Places(c) : /\ q # p
                                           /\ c.lines[q].valid
                                           => c.lines[q].tag # l.tag
    <3> SUFFICES ASSUME l.valid
                 PROVE  /\ Holds(l, V, m, pl) /\ p[1] = va_cache_set(l.tag, c)
                        /\ \A q \in Places(c) : /\ q # p
                                                /\ c.lines[q].valid
                                                => c.lines[q].tag # l.tag
      OBVIOUS
    <3>1. k.valid /\ l.tag = k.tag /\ l.pa = k.pa /\ l.data = k.data
      BY <1>2
    <3>2. /\ Holds(k, V, m, pl) /\ p[1] = va_cache_set(k.tag, c)
          /\ \A q \in Places(c) : c.lines[q].valid /\ c.lines[q].tag = k.tag => q = p
      BY <3>1 DEF Coherent
    <3> HIDE DEF k
    <3>3. Holds(l, V, m, pl)
      BY <3>1, <3>2 DEF Holds
    <3> QED BY <3>1, <3>2, <3>3
  <2> QED BY <1>3, <2>1, CoherentChange
<1>7. Fewer(c, d)
  <2>1. Places(d) = Places(c)
    BY <1>3 DEF Changed, Places
  <2> SUFFICES ASSUME NEW q \in Places(c), d.lines[q].valid
               PROVE  \E u \in Places(c) : /\ c.lines[u].valid
                                           /\ c.lines[u].tag = d.lines[q].tag
                                           /\ c.lines[u].pa = d.lines[q].pa
    BY <2>1 DEF Fewer
  <2>2. CASE q = p
    <3>1. d.lines[q] = l
      BY <1>3, <2>2 DEF Changed
    <3>2. k.valid /\ l.tag = k.tag /\ l.pa = k.pa
      BY <1>2, <3>1
    <3> QED BY <3>1, <3>2
  <2>3. CASE q # p
    <3>1. d.lines[q] = c.lines[q]
      BY <1>3, <2>3 DEF Changed
    <3> QED BY <3>1
  <2> QED BY <2>2, <2>3
<1> QED BY <1>3, <1>4, <1>5, <1>6, <1>7 DEF Maintained

\* Cleaning by address: what is dirty of the line reaches memory.
LEMMA MaintainedClean ==
  ASSUME NEW w, NEW s, Sized(w, s), NEW c \in CacheRec(w, s), NEW V, NEW m, NEW pl,
         Coherent(c, V, m, pl), NEW old \in Memory, NEW va \in Nat
  PROVE  LET r == mmu_cache_clean(c, old, va)
         IN /\ Maintained(c, old, r, w, s, V, m, pl)
            /\ \A p \in Places(c) : /\ r.cache.lines[p].valid
                                    /\ r.cache.lines[p].tag = va_cache_align(va)
                                    => r.cache.lines[p].dirty = {}
<1> DEFINE r == mmu_cache_clean(c, old, va)
           k == mmu_cache_search(c, va)
<1>1. CASE ~CacheHit(c, va)
  <2>1. r = [cache |-> c, mem |-> old]
    BY <1>1 DEF mmu_cache_clean
  <2>2. \A p \in Places(c) : c.lines[p].valid => c.lines[p].tag # va_cache_align(va)
    BY <1>1, Miss
  <2>3. r.cache = c
    BY <2>1
  <2>4. Maintained(c, old, r, w, s, V, m, pl)
    BY <2>1, MaintainedNone
  <2> HIDE DEF r
  <2> QED BY <2>2, <2>3, <2>4 DEF r
<1>2. CASE CacheHit(c, va)
  <2>1. /\ k \in Places(c) /\ Holding(c, va) = {k}
        /\ c.lines[k].valid /\ c.lines[k].tag = va_cache_align(va)
    BY <1>2, Lookup
  <2> HIDE DEF k
  <2>2. r = Replace(c, old, k, Cleaned(c.lines[k]))
    BY <1>2 DEF mmu_cache_clean, CleanPlace, k
  <2>3. /\ Maintained(c, old, r, w, s, V, m, pl)
        /\ Changed(c, r.cache, k, Cleaned(c.lines[k]))
    BY <2>1, <2>2, MaintainedReplace
  <2> HIDE DEF r
  <2>4. ASSUME NEW p \in Places(c), r.cache.lines[p].valid,
               r.cache.lines[p].tag = va_cache_align(va)
        PROVE  r.cache.lines[p].dirty = {}
    <3>1. CASE p = k
      <4>1. c.lines[k] \in LineRec
        BY <2>1, CacheParts, LineKinds
      <4>2. Cleaned(c.lines[k]) = [c.lines[k] EXCEPT !.dirty = {}]
        BY <2>1 DEF Cleaned
      <4>3. Cleaned(c.lines[k]).dirty = {}
        BY <4>1, <4>2 DEF LineRec
      <4> QED BY <2>3, <3>1, <4>3 DEF Changed
    <3>2. CASE p # k
      <4>1. c.lines[p].valid /\ c.lines[p].tag = c.lines[k].tag
        BY <2>1, <2>3, <2>4, <3>2 DEF Changed
      <4> QED BY <2>1, <3>2, <4>1 DEF Coherent
    <3> QED BY <3>1, <3>2
  <2> QED BY <2>3, <2>4 DEF r
<1> QED BY <1>1, <1>2

\* Invalidation by address: no place has the line any more.
LEMMA MaintainedInvalidate ==
  ASSUME NEW w, NEW s, Sized(w, s), NEW c \in CacheRec(w, s), NEW V, NEW m, NEW pl,
         Coherent(c, V, m, pl), NEW old \in Memory, NEW va \in Nat
  PROVE  LET r == mmu_cache_invalidate(c, old, va)
         IN /\ Maintained(c, old, r, w, s, V, m, pl)
            /\ \A p \in Places(c) : r.cache.lines[p].valid
                                    => r.cache.lines[p].tag # va_cache_align(va)
<1> DEFINE r == mmu_cache_invalidate(c, old, va)
           k == mmu_cache_search(c, va)
<1>1. CASE ~CacheHit(c, va)
  <2>1. r = [cache |-> c, mem |-> old]
    BY <1>1 DEF mmu_cache_invalidate
  <2>2. \A p \in Places(c) : c.lines[p].valid => c.lines[p].tag # va_cache_align(va)
    BY <1>1, Miss
  <2>3. r.cache = c
    BY <2>1
  <2>4. Maintained(c, old, r, w, s, V, m, pl)
    BY <2>1, MaintainedNone
  <2> HIDE DEF r
  <2> QED BY <2>2, <2>3, <2>4 DEF r
<1>2. CASE CacheHit(c, va)
  <2>1. /\ k \in Places(c) /\ Holding(c, va) = {k}
        /\ c.lines[k].valid /\ c.lines[k].tag = va_cache_align(va)
    BY <1>2, Lookup
  <2> HIDE DEF k
  <2>2. r = Replace(c, old, k, NoLine)
    BY <1>2 DEF mmu_cache_invalidate, InvalidatePlace, k
  <2>3. Maintained(c, old, r, w, s, V, m, pl) /\ Changed(c, r.cache, k, NoLine)
    BY <2>1, <2>2, MaintainedReplace
  <2> HIDE DEF r
  <2>4. ASSUME NEW p \in Places(c), r.cache.lines[p].valid
        PROVE  r.cache.lines[p].tag # va_cache_align(va)
    <3>1. CASE p = k
      <4>1. r.cache.lines[p] = NoLine
        BY <2>3, <3>1 DEF Changed
      <4> QED BY <2>4, <4>1 DEF NoLine
    <3>2. CASE p # k
      <4>1. r.cache.lines[p] = c.lines[p]
        BY <2>3, <3>2 DEF Changed
      <4> QED BY <2>1, <2>4, <3>2, <4>1 DEF Coherent
    <3> QED BY <3>1, <3>2
  <2> QED BY <2>3, <2>4 DEF r
<1> QED BY <1>1, <1>2

\* A bounded set of numbers has a largest one.
LEMMA Largest ==
  ASSUME NEW n \in Nat, NEW S \in SUBSET (0 .. n), S # {}
  PROVE  \E x \in S : \A y \in S : y <= x
<1> DEFINE R == OpToRel(<, Nat)
           T == {n - y : y \in S}
<1>1. IsWellFoundedOn(R, Nat)
  BY NatLessThanWellFounded
<1>2. T \in SUBSET Nat /\ T # {}
  <2>1. \A y \in S : n - y \in Nat
    OBVIOUS
  <2>2. \E y \in S : n - y \in T
    OBVIOUS
  <2> QED BY <2>1, <2>2
<1>3. \E x \in T : \A y \in T : ~(<<y, x>> \in R)
  <2> HIDE DEF R, T
  <2> QED BY <1>1, <1>2, WFMin, Zenon
<1>4. PICK u \in T : \A y \in T : ~(<<y, u>> \in R)
  BY <1>3
<1>5. PICK x \in S : u = n - x
  OBVIOUS
<1>6. ASSUME NEW y \in S PROVE y <= x
  <2>1. n - y \in T /\ n - y \in Nat /\ n - x \in Nat /\ x \in Nat /\ y \in Nat
    OBVIOUS
  <2>2. n - y < n - x => <<n - y, n - x>> \in R
    BY <2>1 DEF OpToRel
  <2> HIDE DEF R, T
  <2>3. ~(n - y < n - x)
    BY <1>4, <1>5, <2>1, <2>2
  <2> QED BY <2>1, <2>3
<1> QED BY <1>6

\* Emptying a cache: everything dirty reaches memory and no line is left.
LEMMA MaintainedEmpty ==
  ASSUME NEW w, NEW s, Sized(w, s), NEW c \in CacheRec(w, s), NEW V, NEW m, NEW pl,
         Coherent(c, V, m, pl), NEW old \in Memory
  PROVE  LET r == mmu_cache_invalidate_all(c, old)
         IN /\ Maintained(c, old, r, w, s, V, m, pl)
            /\ \A p \in Places(r.cache) : ~r.cache.lines[p].valid
            /\ \A a : DirtyPlaces(r.cache, a) = {}
<1> DEFINE r == mmu_cache_invalidate_all(c, old)
           d == [c EXCEPT !.lines = [p \in Places(c) |-> NoLine]]
           new == [a \in DOMAIN old |-> IF DirtyPlaces(c, a) # {}
                                          THEN c.lines[LastPlace(c, a)].data[va_cache_index(a)]
                                          ELSE old[a]]
<1>1. r.cache = d /\ r.mem = new
  BY DEF mmu_cache_invalidate_all
<1>2. d = [way |-> w, set |-> s, lines |-> [p \in Grid(w, s) |-> NoLine], cycle |-> c.cycle]
  BY CacheParts
<1>3. d \in CacheRec(w, s)
  <2>1. [p \in Grid(w, s) |-> NoLine] \in [Grid(w, s) -> LineRec \cup {NoLine}]
    OBVIOUS
  <2> QED BY <1>2, <2>1, CacheParts DEF CacheRec, Grid
<1>4. \A p \in Places(d) : d.lines[p] = NoLine /\ ~d.lines[p].valid
  BY <1>2, CacheParts DEF Places, Grid, NoLine
<1>5. \A a : DirtyPlaces(d, a) = {}
  BY <1>4 DEF DirtyPlaces
<1>6. Coherent(d, V, m, pl) /\ Fewer(c, d)
  BY <1>4 DEF Coherent, Fewer
<1>7. ASSUME NEW a \in DOMAIN Loaded, DirtyPlaces(c, a) # {}
      PROVE  LastPlace(c, a) \in DirtyPlaces(c, a)
  <2> DEFINE S == DirtyPlaces(c, a)
             R == {(p[1] * c.way) + p[2] : p \in S}
  <2>0. c.way = w /\ Places(c) = Grid(w, s)
    BY CacheParts
  <2>1. ASSUME NEW p \in S PROVE (p[1] * w) + p[2] \in 0 .. s * w
    <3>1. p[1] \in 0 .. s - 1 /\ p[2] \in 0 .. w - 1
      BY <2>0 DEF DirtyPlaces, Grid
    <3> DEFINE x == p[1]
               y == p[2]
    <3> HIDE DEF x, y
    <3>2. x \in 0 .. s - 1 /\ y \in 0 .. w - 1
      BY <3>1 DEF x, y
    <3>3. w \in Nat /\ s \in Nat /\ x * w \in Nat /\ (s - 1) * w = s * w - w /\ s * w \in Nat
      BY <3>2 DEF Sized
    <3>4. x * w <= (s - 1) * w
      BY <3>2, <3>3 DEF Sized
    <3>5. (x * w) + y \in 0 .. s * w
      BY <3>2, <3>3, <3>4
    <3> QED BY <3>5 DEF x, y
  <2>2. R \in SUBSET (0 .. s * w) /\ R # {}
    BY <1>7, <2>0, <2>1
  <2>3. s * w \in Nat
    BY DEF Sized
  <2>4. PICK x \in R : \A y \in R : y <= x
    <3> HIDE DEF R
    <3> QED BY <2>2, <2>3, Largest
  <2>5. PICK p \in S : x = (p[1] * c.way) + p[2]
    OBVIOUS
  <2>6. ASSUME NEW q \in S PROVE Later(c, p, q)
    <3>1. (q[1] * c.way) + q[2] \in R /\ (p[1] * c.way) + p[2] \in R
      OBVIOUS
    <3>2. (q[1] * c.way) + q[2] <= (p[1] * c.way) + p[2]
      BY <2>4, <2>5, <3>1
    <3>3. (q[1] * c.way) + q[2] \in Int /\ (p[1] * c.way) + p[2] \in Int
      BY <2>2, <3>1
    <3> QED BY <3>2, <3>3 DEF Later
  <2> HIDE DEF S
  <2>7. \E u \in S : \A q \in S : Later(c, u, q)
    BY <2>6
  <2> QED BY <2>7, Zenon DEF LastPlace, S
<1>8. ASSUME NEW a \in DOMAIN Loaded
      PROVE  /\ new[a] \in Vals
             /\ new[a] = old[a] \/ new[a] = pl[a]
             /\ DirtyPlaces(c, a) # {} => new[a] = pl[a]
  <2>0. a \in DOMAIN old /\ old[a] \in Vals
    BY DEF Memory
  <2>1. CASE DirtyPlaces(c, a) = {}
    BY <2>0, <2>1
  <2>2. CASE DirtyPlaces(c, a) # {}
    <3> DEFINE k == LastPlace(c, a)
    <3>1. k \in DirtyPlaces(c, a)
      BY <1>7, <2>2
    <3>2. new[a] = c.lines[k].data[va_cache_index(a)]
      BY <2>0, <2>2
    <3> HIDE DEF k, new
    <3>3. new[a] = pl[a]
      BY <3>1, <3>2, DirtyWord
    <3>4. k \in Grid(w, s) /\ c.lines[k].valid
      BY <3>1, CacheParts DEF DirtyPlaces
    <3>5. c.lines[k].data \in [LineIndex -> Vals]
      BY <3>4, CacheParts, LineKinds
    <3>6. va_cache_index(a) \in LineIndex
      BY GuestAssumption, WordParts
    <3> QED BY <3>2, <3>3, <3>5, <3>6
  <2> QED BY <2>1, <2>2
<1>9. new \in Memory
  <2>1. new = [a \in DOMAIN Loaded |-> new[a]]
    BY DEF Memory
  <2> HIDE DEF new
  <2> QED BY <1>8, <2>1 DEF Memory
<1>10. Purged(c, old, d, new, pl)
  <2> HIDE DEF new, d
  <2> QED BY <1>5, <1>8 DEF Purged
<1> HIDE DEF r, d, new
<1>11. Maintained(c, old, r, w, s, V, m, pl)
  BY <1>1, <1>3, <1>6, <1>9, <1>10 DEF Maintained
<1> QED BY <1>1, <1>4, <1>5, <1>11 DEF r

\* The place a soft flush empties.
LEMMA MaintainedFlush ==
  ASSUME NEW w, NEW s, Sized(w, s), NEW c \in CacheRec(w, s), NEW V, NEW m, NEW pl,
         Coherent(c, V, m, pl), NEW old \in Memory, NEW pa \in Nat
  PROVE  Maintained(c, old, mmu_cache_soft_flush(c, old, pa), w, s, V, m, pl)
<1> DEFINE line == pa \div LineWords
           p == <<(line \div c.way) % c.set, line % c.way>>
<1>1. line \in Nat
  BY Sizes, DivMod
<1> HIDE DEF line
<1>2. /\ line \div w \in Nat /\ line % w \in 0 .. w - 1
  BY <1>1, DivMod DEF Sized
<1>3. (line \div w) % s \in 0 .. s - 1
  BY <1>2, DivMod DEF Sized
<1>4. p \in Places(c)
  <2>1. c.way = w /\ c.set = s /\ Places(c) = Grid(w, s)
    BY CacheParts
  <2>2. <<(line \div w) % s, line % w>> \in Grid(w, s)
    BY <1>2, <1>3 DEF Grid
  <2> QED BY <2>1, <2>2
<1> HIDE DEF p
<1>5. Maintained(c, old, Replace(c, old, p, NoLine), w, s, V, m, pl)
  BY <1>4, MaintainedReplace
<1> QED BY <1>5 DEF mmu_cache_soft_flush, InvalidatePlace, p, line

\* The pages of V are in memory.
Mapped(V, m) ==
  \A v \in V : /\ v \in Nat /\ m[v].page \in Nat
               /\ \A i \in LineIndex : (m[v].page * PageWords) + i \in DOMAIN Loaded

\* The word of a page that is in memory.
LEMMA MappedWord ==
  ASSUME NEW V, NEW m, Mapped(V, m), NEW va \in Nat, PageOf(va) \in V
  PROVE  Phys(m, va) \in DOMAIN Loaded
BY WordParts DEF Mapped, Phys

\* The first word of the page that m has for v.
Base(m, v) == m[v].page * PageWords

\* A line of a mapped page, in physical and virtual terms.
LEMMA LineOf ==
  ASSUME NEW V, NEW m, NEW pl, Mapped(V, m), NEW l, Holds(l, V, m, pl), NEW va \in Nat,
         l.tag = va_cache_align(va)
  PROVE  /\ PageOf(va) \in V /\ l.pa = Base(m, PageOf(va))
         /\ \A i \in LineIndex : l.data[i] = pl[l.pa + i]
<1>1. PICK v \in V : /\ l.tag = v * PageWords /\ l.pa = m[v].page * PageWords
                     /\ \A i \in LineIndex : l.data[i] = pl[l.pa + i]
  BY DEF Holds
<1>2. v \in Nat
  BY DEF Mapped
<1>3. v * PageWords = PageOf(va) * PageWords /\ PageOf(va) \in Nat
  BY <1>1, WordParts
<1>4. v = PageOf(va)
  BY <1>2, <1>3, PageStart
<1> QED BY <1>1, <1>4 DEF Base

\* A hit returns the word of plain memory.
LEMMA CachedPlain ==
  ASSUME NEW w, NEW s, Sized(w, s), NEW c \in CacheRec(w, s), NEW va \in Nat,
         NEW V, NEW m, NEW pl, Coherent(c, V, m, pl), Mapped(V, m), CacheHit(c, va)
  PROVE  /\ PageOf(va) \in V
         /\ CachedWord(c, va) = pl[Phys(m, va)]
<1> DEFINE p == mmu_cache_search(c, va)
<1>1. p \in Places(c) /\ c.lines[p].valid /\ c.lines[p].tag = va_cache_align(va)
  BY Lookup
<1>2. Holds(c.lines[p], V, m, pl)
  BY <1>1 DEF Coherent
<1> HIDE DEF p
<1>3. /\ PageOf(va) \in V /\ c.lines[p].pa = m[PageOf(va)].page * PageWords
      /\ \A i \in LineIndex : c.lines[p].data[i] = pl[c.lines[p].pa + i]
  <2> DEFINE l == c.lines[p]
  <2>1. Holds(l, V, m, pl) /\ l.tag = va_cache_align(va)
    BY <1>1, <1>2
  <2> HIDE DEF l
  <2>2. PageOf(va) \in V
    BY <2>1, LineOf
  <2>3. l.pa = Base(m, PageOf(va))
    BY <2>1, LineOf
  <2>4. \A i \in LineIndex : l.data[i] = pl[l.pa + i]
    BY <2>1, LineOf
  <2> QED BY <2>2, <2>3, <2>4 DEF l, Base
<1>4. va_cache_index(va) \in LineIndex /\ va_cache_index(va) = va % PageWords
  BY WordParts
<1>5. c.lines[p].data[va_cache_index(va)] = pl[Phys(m, va)]
  BY <1>3, <1>4 DEF Phys
<1> QED BY <1>3, <1>5 DEF CachedWord, p

\* A line in the page of a word is the line of its virtual address, when no two
\* pages of V share a physical one.
LEMMA NoAlias ==
  ASSUME NEW V, NEW m, NEW pl, Mapped(V, m), NEW l, Holds(l, V, m, pl), NEW va \in Nat,
         m[PageOf(va)].page \in Nat,
         \A v \in V : m[v].page = m[PageOf(va)].page => v = PageOf(va),
         l.pa = va_cache_align(Phys(m, va))
  PROVE  l.tag = va_cache_align(va) /\ PageOf(va) \in V
<1>1. PICK v \in V : l.tag = v * PageWords /\ l.pa = m[v].page * PageWords
  BY DEF Holds
<1>2. m[v].page \in Nat
  BY DEF Mapped
<1>3. l.pa = m[PageOf(va)].page * PageWords
  BY PhysParts
<1>4. m[v].page = m[PageOf(va)].page
  BY <1>1, <1>2, <1>3, PageStart
<1>5. v = PageOf(va)
  BY <1>4
<1> QED BY <1>1, <1>5, WordParts

\* Lines of d that are not those of c are of the page at base.
FewerBut(c, d, base) ==
  \A p \in Places(d) : d.lines[p].valid =>
    d.lines[p].pa = base \/ \E q \in Places(c) : c.lines[q].valid /\ c.lines[q].pa = d.lines[p].pa

\* Another line in a place of a cache, which is not the next to be replaced now.
LEMMA PutLineNext ==
  ASSUME NEW w, NEW s, NEW c \in CacheRec(w, s), NEW p \in Places(c),
         NEW l \in LineRec \cup {NoLine}, NEW k \in 0 .. s - 1, NEW t \in 0 .. w - 1
  PROVE  LET e == [c EXCEPT !.lines[p] = l, !.cycle[k] = t]
         IN e \in CacheRec(w, s) /\ Changed(c, e, p, l)
<1> DEFINE d == [c EXCEPT !.lines[p] = l]
           e == [c EXCEPT !.lines[p] = l, !.cycle[k] = t]
<1>1. d \in CacheRec(w, s) /\ Changed(c, d, p, l)
  BY PutLine
<1>2. e = [d EXCEPT !.cycle[k] = t]
  OBVIOUS
<1> HIDE DEF d, e
<1>3. d = [way |-> w, set |-> s, lines |-> d.lines, cycle |-> d.cycle]
  BY <1>1, CacheParts
<1>4. e = [way |-> w, set |-> s, lines |-> d.lines, cycle |-> [d.cycle EXCEPT ![k] = t]]
  BY <1>2, <1>3
<1>5. [d.cycle EXCEPT ![k] = t] \in [0 .. s - 1 -> 0 .. w - 1]
  BY <1>1, CacheParts
<1>6. d.lines \in [Grid(w, s) -> LineRec \cup {NoLine}]
  BY <1>1, CacheParts
<1>7. e \in CacheRec(w, s)
  BY <1>4, <1>5, <1>6 DEF CacheRec, Grid
<1>8. e.lines = d.lines /\ e.way = d.way /\ e.set = d.set
  BY <1>3, <1>4
<1>9. Changed(c, e, p, l)
  BY <1>1, <1>8 DEF Changed
<1> QED BY <1>7, <1>9 DEF e

\* A line is allocated for a page that is current in memory.
LEMMA Allocated ==
  ASSUME NEW w, NEW s, Sized(w, s), NEW c \in CacheRec(w, s), NEW va \in Nat,
         NEW V, NEW m, NEW pl, Coherent(c, V, m, pl), Mapped(V, m), PageOf(va) \in V,
         NEW old \in Memory, ~CacheHit(c, va),
         \A i \in LineIndex : old[(m[PageOf(va)].page * PageWords) + i]
                              = pl[(m[PageOf(va)].page * PageWords) + i]
  PROVE  LET r == mmu_cache_alloc(c, old, va, Phys(m, va))
         IN /\ r.cache \in CacheRec(w, s) /\ r.mem \in Memory
            /\ Coherent(r.cache, V, m, pl)
            /\ Purged(c, old, r.cache, r.mem, pl)
            /\ FewerBut(c, r.cache, m[PageOf(va)].page * PageWords)
            /\ CachedWord(r.cache, va) = pl[Phys(m, va)]
<1> DEFINE r == mmu_cache_alloc(c, old, va, Phys(m, va))
           k == va_cache_set(va, c)
           p == <<k, c.cycle[k]>>
           base == m[PageOf(va)].page * PageWords
           new == mmu_cache_write_back(old, c.lines[p])
           l == [valid |-> TRUE, tag |-> va_cache_align(va), pa |-> base, dirty |-> {},
                 data |-> [i \in LineIndex |-> new[base + i]]]
           t == (c.cycle[k] + 1) % c.way
           e == [c EXCEPT !.lines[p] = l, !.cycle[k] = t]
<1>0. m[PageOf(va)].page \in Nat /\ \A i \in LineIndex : base + i \in DOMAIN Loaded
  BY DEF Mapped
<1>1. va_cache_align(Phys(m, va)) = base
  BY <1>0, PhysParts
<1>2. k \in 0 .. s - 1 /\ va_cache_align(va) \in Nat /\ base \in Nat
  <2>1. va \div LineWords \in Nat
    BY Sizes, DivMod
  <2>2. (va \div LineWords) % s \in 0 .. s - 1
    BY <2>1, DivMod DEF Sized
  <2>3. va_cache_align(va) \in Nat
    BY WordParts, PageStart
  <2> QED BY <1>0, <2>2, <2>3, PageStart, CacheParts DEF va_cache_set
<1>3. c.cycle[k] \in 0 .. w - 1 /\ p \in Places(c) /\ t \in 0 .. w - 1
  <2> HIDE DEF k
  <2>0. c.cycle \in [0 .. s - 1 -> 0 .. w - 1]
    BY CacheParts
  <2>1. c.cycle[k] \in 0 .. w - 1
    BY <1>2, <2>0
  <2>2. p \in Grid(w, s)
    BY <1>2, <2>1 DEF Grid
  <2>3. (c.cycle[k] + 1) % w \in 0 .. w - 1
    BY <2>1 DEF Sized
  <2> QED BY <2>1, <2>2, <2>3, CacheParts
<1>4. r = [cache |-> e, mem |-> new]
  BY <1>1 DEF mmu_cache_alloc
<1> HIDE DEF k, base, t
<1>5. new \in Memory /\ Purged(c, old, [c EXCEPT !.lines[p] = NoLine], new, pl)
  <2>1. Changed(c, [c EXCEPT !.lines[p] = NoLine], p, NoLine)
    BY <1>3, PutLine
  <2>2. ~NoLine.valid
    BY DEF NoLine
  <2> HIDE DEF p
  <2> QED BY <1>3, <2>1, <2>2, PurgedChange
<1>6. ASSUME NEW i \in LineIndex PROVE new[base + i] = pl[base + i] /\ new[base + i] \in Vals
  <2>1. base + i \in DOMAIN Loaded /\ old[base + i] = pl[base + i]
    BY <1>0 DEF base
  <2> HIDE DEF new
  <2> QED BY <1>5, <2>1 DEF Purged, Memory
<1> HIDE DEF new
<1>7. l \in LineRec /\ l.valid /\ l.dirty = {} /\ l.tag = va_cache_align(va) /\ l.pa = base
  BY <1>2, <1>6 DEF LineRec
<1>10. e \in CacheRec(w, s) /\ Changed(c, e, p, l)
  <2> HIDE DEF l, p
  <2> QED BY <1>2, <1>3, <1>7, PutLineNext
<1>11. l.data = [i \in LineIndex |-> new[base + i]]
  OBVIOUS
<1>12. r.cache = e /\ r.mem = new
  BY <1>4
<1> HIDE DEF r, e, l
<1>13. Purged(c, old, e, new, pl)
  <2> HIDE DEF p
  <2> QED BY <1>3, <1>7, <1>10, PurgedChange DEF new
<1>14. Holds(l, V, m, pl)
  <2>1. va_cache_align(va) = PageOf(va) * PageWords
    BY WordParts
  <2>2. \A i \in LineIndex : l.data[i] = pl[l.pa + i]
    BY <1>6, <1>7, <1>11
  <2> QED BY <1>7, <2>1, <2>2 DEF Holds, base
<1>15. Coherent(e, V, m, pl)
  <2>1. p[1] = va_cache_set(l.tag, c)
    BY <1>7, SetOfLine DEF k
  <2>2. \A q \in Places(c) : q # p /\ c.lines[q].valid => c.lines[q].tag # l.tag
    BY <1>7, Miss
  <2> HIDE DEF p
  <2> QED BY <1>3, <1>10, <1>14, <2>1, <2>2, CoherentChange
<1>16. FewerBut(c, e, base)
  <2>1. Places(e) = Places(c)
    BY <1>10 DEF Changed, Places
  <2>2. ASSUME NEW q \in Places(c), q # p PROVE e.lines[q] = c.lines[q]
    BY <1>10, <2>2 DEF Changed
  <2>3. e.lines[p].pa = base
    BY <1>7, <1>10 DEF Changed
  <2> HIDE DEF p
  <2> QED BY <2>1, <2>2, <2>3 DEF FewerBut
<1>17. CachedWord(e, va) = pl[Phys(m, va)]
  <2>1. e.set = c.set /\ Places(e) = Places(c) /\ e.lines[p] = l
    BY <1>10 DEF Changed, Places
  <2>2. p \in Holding(e, va)
    BY <1>3, <1>7, <2>1 DEF Holding, va_cache_set, k
  <2>3. CacheHit(e, va)
    BY <2>2 DEF CacheHit
  <2> QED BY <1>10, <1>15, <2>3, CachedPlain
<1> QED BY <1>5, <1>10, <1>12, <1>13, <1>15, <1>16, <1>17 DEF r, base

\* Plain memory pl with data at pa.
Written(pl, pl2, pa, data) ==
  pl2[pa] = data /\ \A a \in DOMAIN Loaded : a # pa => pl2[a] = pl[a]

\* Of the pages of V and that of va, no two share a physical one.
Apart(V, m, va) == \A v \in V : m[v].page = m[PageOf(va)].page => v = PageOf(va)

\* A line that is not that of va does not see a store to va.
LEMMA LineKept ==
  ASSUME NEW V, NEW m, NEW pl, NEW pl2, Mapped(V, m), NEW l, Holds(l, V, m, pl),
         NEW va \in Nat, m[PageOf(va)].page \in Nat, Apart(V, m, va), NEW data,
         Written(pl, pl2, Phys(m, va), data), l.tag # va_cache_align(va)
  PROVE  Holds(l, V, m, pl2)
<1>1. PICK v \in V : /\ l.tag = v * PageWords /\ l.pa = m[v].page * PageWords
                     /\ \A i \in LineIndex : l.data[i] = pl[l.pa + i]
  BY DEF Holds
<1>2. v \in Nat /\ m[v].page \in Nat /\ \A i \in LineIndex : (m[v].page * PageWords) + i \in DOMAIN Loaded
  BY DEF Mapped
<1>3. v # PageOf(va)
  BY <1>1, WordParts
<1>4. m[v].page # m[PageOf(va)].page
  BY <1>3 DEF Apart
<1>5. ASSUME NEW i \in LineIndex PROVE pl2[l.pa + i] = pl[l.pa + i]
  <2>1. PageOf((m[v].page * PageWords) + i) = m[v].page
    BY <1>2, PartsWord
  <2>2. PageOf(Phys(m, va)) = m[PageOf(va)].page
    BY PhysParts
  <2>3. l.pa + i # Phys(m, va) /\ l.pa + i \in DOMAIN Loaded
    BY <1>1, <1>2, <1>4, <2>1, <2>2
  <2> QED BY <2>3 DEF Written
<1>6. \A i \in LineIndex : l.data[i] = pl2[l.pa + i]
  BY <1>1, <1>5
<1> QED BY <1>1, <1>6 DEF Holds

\* A store to an address that misses leaves the cache coherent.
LEMMA StoreMiss ==
  ASSUME NEW w, NEW s, NEW c \in CacheRec(w, s), NEW V, NEW m, NEW pl, NEW pl2,
         Coherent(c, V, m, pl), Mapped(V, m), NEW va \in Nat, m[PageOf(va)].page \in Nat,
         Apart(V, m, va), NEW data, Written(pl, pl2, Phys(m, va), data), ~CacheHit(c, va)
  PROVE  Coherent(c, V, m, pl2)
<1>1. ASSUME NEW p \in Places(c), c.lines[p].valid PROVE Holds(c.lines[p], V, m, pl2)
  <2>1. c.lines[p].tag # va_cache_align(va)
    BY <1>1, Miss
  <2>2. Holds(c.lines[p], V, m, pl)
    BY <1>1 DEF Coherent
  <2> QED BY <2>1, <2>2, LineKept
<1> QED BY <1>1 DEF Coherent

\* The dirty words of d are those of c and pa, and others of its page.
Marked(c, d, pa) ==
  /\ DirtyPlaces(d, pa) # {}
  /\ \A a \in DOMAIN Loaded :
       /\ DirtyPlaces(c, a) # {} => DirtyPlaces(d, a) # {}
       /\ DirtyPlaces(d, a) # {} /\ PageOf(a) # PageOf(pa) => DirtyPlaces(c, a) # {}

\* Line l after a store to its word i.
Updated(l, i, data) == [l EXCEPT !.data[i] = data, !.dirty = l.dirty \cup {Half(i)}]

\* The line of a store that hits.
LEMMA UpdatedLine ==
  ASSUME NEW l \in LineRec, NEW i \in LineIndex, NEW data \in Vals
  PROVE  LET k == Updated(l, i, data)
         IN /\ k \in LineRec /\ k.valid /\ k.tag = l.tag /\ k.pa = l.pa
            /\ k.dirty = l.dirty \cup {Half(i)}
            /\ k.data[i] = data /\ \A j \in LineIndex : j # i => k.data[j] = l.data[j]
<1> DEFINE f == [l.data EXCEPT ![i] = data]
           g == l.dirty \cup {Half(i)}
           k == Updated(l, i, data)
           u == [l EXCEPT !.data[i] = data]
<1>1. /\ l = [valid |-> l.valid, tag |-> l.tag, pa |-> l.pa, dirty |-> l.dirty, data |-> l.data]
      /\ l.tag \in Nat /\ l.pa \in Nat /\ l.dirty \subseteq {FIRST, LAST}
      /\ l.data \in [LineIndex -> Vals]
  BY DEF LineRec
<1>0. l.valid = TRUE
  BY DEF LineRec
<1>2. u = [valid |-> l.valid, tag |-> l.tag, pa |-> l.pa, dirty |-> l.dirty, data |-> f]
  BY <1>1
<1>3. k = [u EXCEPT !.dirty = l.dirty \cup {Half(i)}]
  BY DEF Updated
<1> HIDE DEF u, f, k
<1>4. k = [valid |-> l.valid, tag |-> l.tag, pa |-> l.pa, dirty |-> g, data |-> f]
  BY <1>2, <1>3
<1>5. f \in [LineIndex -> Vals] /\ f[i] = data /\ \A j \in LineIndex : j # i => f[j] = l.data[j]
  BY <1>1 DEF f
<1>6. g \subseteq {FIRST, LAST}
  BY <1>1 DEF Half
<1> HIDE DEF g
<1>7. k \in LineRec
  BY <1>0, <1>1, <1>4, <1>5, <1>6 DEF LineRec
<1>8. k.valid /\ k.tag = l.tag /\ k.pa = l.pa /\ k.dirty = g /\ k.data = f
  BY <1>0, <1>4
<1> QED BY <1>5, <1>7, <1>8 DEF k, g

\* A store to an address that hits is in the cache.
LEMMA StoreHit ==
  ASSUME NEW w, NEW s, Sized(w, s), NEW c \in CacheRec(w, s), NEW V, NEW m, NEW pl, NEW pl2,
         Coherent(c, V, m, pl), Mapped(V, m), NEW va \in Nat,
         Apart(V, m, va), NEW data \in Vals,
         Written(pl, pl2, Phys(m, va), data), CacheHit(c, va)
  PROVE  LET d == update_cache(c, va, data)
         IN /\ d \in CacheRec(w, s) /\ Coherent(d, V, m, pl2)
            /\ Marked(c, d, Phys(m, va)) /\ Fewer(c, d)
<1> DEFINE p == mmu_cache_search(c, va)
           i == va_cache_index(va)
           l == c.lines[p]
           k == Updated(l, i, data)
           d == update_cache(c, va, data)
<1>1. p \in Places(c) /\ l.valid /\ l.tag = va_cache_align(va)
  BY Lookup
<1>2. i \in LineIndex /\ i = va % PageWords
  BY WordParts
<1>3. l \in LineRec
  <2> HIDE DEF p
  <2> QED BY <1>1, CacheParts, LineKinds
<1>4. d = [c EXCEPT !.lines[p] = k]
  BY DEF update_cache, Updated
<1> HIDE DEF p, i, d
<1>5. /\ k \in LineRec /\ k.valid /\ k.tag = l.tag /\ k.pa = l.pa
      /\ k.dirty = l.dirty \cup {Half(i)}
      /\ k.data[i] = data /\ \A j \in LineIndex : j # i => k.data[j] = l.data[j]
  <2> HIDE DEF l
  <2> QED BY <1>2, <1>3, UpdatedLine
<1> HIDE DEF k
<1>6. d \in CacheRec(w, s) /\ Changed(c, d, p, k)
  BY <1>1, <1>4, <1>5, PutLine
<1>7. /\ PageOf(va) \in V /\ l.pa = Base(m, PageOf(va))
      /\ \A j \in LineIndex : l.data[j] = pl[l.pa + j]
  <2>1. Holds(l, V, m, pl)
    BY <1>1 DEF Coherent
  <2> HIDE DEF l
  <2>2. PageOf(va) \in V
    BY <1>1, <2>1, LineOf
  <2>3. l.pa = Base(m, PageOf(va))
    BY <1>1, <2>1, LineOf
  <2>4. \A j \in LineIndex : l.data[j] = pl[l.pa + j]
    BY <1>1, <2>1, LineOf
  <2> QED BY <2>2, <2>3, <2>4
<1>8. /\ m[PageOf(va)].page \in Nat
      /\ \A j \in LineIndex : (m[PageOf(va)].page * PageWords) + j \in DOMAIN Loaded
  BY <1>7 DEF Mapped
<1>9. l.pa + i = Phys(m, va) /\ l.pa \in Nat
  BY <1>2, <1>3, <1>7 DEF Phys, Base, LineRec
<1>10. Holds(k, V, m, pl2)
  <2>1. ASSUME NEW j \in LineIndex PROVE k.data[j] = pl2[k.pa + j]
    <3>1. CASE j = i
      BY <1>5, <1>9, <3>1 DEF Written
    <3>2. CASE j # i
      <4>1. l.pa + j # l.pa + i
        BY <1>2, <1>9, <3>2, Sizes
      <4>2. l.pa + j \in DOMAIN Loaded
        BY <1>7, <1>8 DEF Base
      <4>3. pl2[l.pa + j] = pl[l.pa + j]
        BY <1>9, <4>1, <4>2 DEF Written
      <4> QED BY <1>5, <1>7, <3>2, <4>3
    <3> QED BY <3>1, <3>2
  <2>2. k.tag = PageOf(va) * PageWords
    BY <1>1, <1>5, WordParts
  <2> QED BY <1>5, <1>7, <2>1, <2>2 DEF Holds, Base
<1>11. Coherent(d, V, m, pl2)
  <2>0. Places(d) = Places(c) /\ \A a : va_cache_set(a, d) = va_cache_set(a, c)
    BY <1>6 DEF Changed, Places, va_cache_set
  <2>1. /\ p[1] = va_cache_set(l.tag, c)
        /\ \A q \in Places(c) : c.lines[q].valid /\ c.lines[q].tag = l.tag => q = p
    BY <1>1 DEF Coherent
  <2>3. SUFFICES ASSUME NEW q \in Places(c), d.lines[q].valid
                 PROVE  /\ Holds(d.lines[q], V, m, pl2)
                        /\ q[1] = va_cache_set(d.lines[q].tag, c)
                        /\ \A r \in Places(c) : d.lines[r].valid
                                                /\ d.lines[r].tag = d.lines[q].tag => r = q
    BY <2>0 DEF Coherent
  <2>4. ASSUME NEW r \in Places(c), d.lines[r].valid
        PROVE  c.lines[r].valid /\ c.lines[r].tag = d.lines[r].tag
    <3>1. CASE r = p
      BY <1>1, <1>5, <1>6, <3>1 DEF Changed
    <3>2. CASE r # p
      BY <1>6, <2>4, <3>2 DEF Changed
    <3> QED BY <3>1, <3>2
  <2>5. /\ q[1] = va_cache_set(c.lines[q].tag, c) /\ Holds(c.lines[q], V, m, pl)
        /\ \A r \in Places(c) : c.lines[r].valid /\ c.lines[r].tag = c.lines[q].tag => r = q
    BY <2>3, <2>4 DEF Coherent
  <2>6. Holds(d.lines[q], V, m, pl2)
    <3>1. CASE q = p
      BY <1>6, <1>10, <3>1 DEF Changed
    <3>2. CASE q # p
      <4>1. d.lines[q] = c.lines[q]
        BY <1>6, <3>2 DEF Changed
      <4>2. c.lines[q].tag # va_cache_align(va)
        BY <1>1, <2>1, <2>3, <2>4, <3>2
      <4>3. Holds(c.lines[q], V, m, pl2)
        BY <1>8, <2>5, <4>2, LineKept
      <4> QED BY <4>1, <4>3
    <3> QED BY <3>1, <3>2
  <2> QED BY <2>3, <2>4, <2>5, <2>6
<1>12. Marked(c, d, Phys(m, va))
  <2>0. Places(d) = Places(c) /\ d.lines[p] = k
    BY <1>6 DEF Changed, Places
  <2>1. /\ va_cache_align(Phys(m, va)) = l.pa /\ va_cache_index(Phys(m, va)) = i
        /\ PageOf(Phys(m, va)) = m[PageOf(va)].page
    BY <1>7, <1>8, PhysParts DEF i, Base
  <2>2. p \in DirtyPlaces(d, Phys(m, va))
    BY <1>1, <1>5, <2>0, <2>1 DEF DirtyPlaces
  <2>3. ASSUME NEW a \in DOMAIN Loaded, NEW q \in DirtyPlaces(c, a) PROVE q \in DirtyPlaces(d, a)
    <3>1. CASE q = p
      BY <1>1, <1>5, <2>0, <2>3, <3>1 DEF DirtyPlaces
    <3>2. CASE q # p
      BY <1>6, <2>0, <2>3, <3>2 DEF DirtyPlaces, Changed
    <3> QED BY <3>1, <3>2
  <2>4. ASSUME NEW a \in DOMAIN Loaded, NEW q \in DirtyPlaces(d, a),
               PageOf(a) # PageOf(Phys(m, va))
        PROVE  q \in DirtyPlaces(c, a)
    <3>1. CASE q = p
      <4>1. a \in Nat
        BY GuestAssumption
      <4>2. va_cache_align(a) = l.pa
        BY <1>5, <2>0, <2>4, <3>1 DEF DirtyPlaces
      <4>3. PageOf(a) * PageWords = m[PageOf(va)].page * PageWords /\ PageOf(a) \in Nat
        BY <1>7, <4>1, <4>2, WordParts DEF Base
      <4>4. PageOf(a) = m[PageOf(va)].page
        BY <1>8, <4>3, PageStart
      <4> QED BY <2>1, <2>4, <4>4
    <3>2. CASE q # p
      BY <1>6, <2>0, <2>4, <3>2 DEF DirtyPlaces, Changed
    <3> QED BY <3>1, <3>2
  <2> QED BY <2>2, <2>3, <2>4 DEF Marked
<1>13. Fewer(c, d)
  <2>0. Places(d) = Places(c) /\ d.lines[p] = k
    BY <1>6 DEF Changed, Places
  <2> SUFFICES ASSUME NEW q \in Places(c), d.lines[q].valid
               PROVE  \E u \in Places(c) : /\ c.lines[u].valid
                                           /\ c.lines[u].tag = d.lines[q].tag
                                           /\ c.lines[u].pa = d.lines[q].pa
    BY <2>0 DEF Fewer
  <2>2. CASE q = p
    BY <1>1, <1>5, <2>0, <2>2
  <2>3. CASE q # p
    <3>1. d.lines[q] = c.lines[q]
      BY <1>6, <2>3 DEF Changed
    <3> QED BY <3>1
  <2> QED BY <2>2, <2>3
<1> QED BY <1>6, <1>11, <1>12, <1>13 DEF d

\* More pages, or another map that has the pages where they were.
LEMMA CoherentMore ==
  ASSUME NEW c, NEW V, NEW U, NEW m, NEW n, NEW pl, Coherent(c, V, m, pl),
         \A v \in V : v \in U /\ n[v].page = m[v].page
  PROVE  Coherent(c, U, n, pl)
<1>1. ASSUME NEW l, Holds(l, V, m, pl) PROVE Holds(l, U, n, pl)
  BY <1>1 DEF Holds
<1> QED BY <1>1 DEF Coherent

\* A page that has no line in the cache.
LEMMA CoherentLess ==
  ASSUME NEW c, NEW V, NEW m, NEW pl, Coherent(c, V, m, pl), NEW u,
         \A p \in Places(c) : c.lines[p].valid => c.lines[p].tag # u * PageWords
  PROVE  Coherent(c, V \ {u}, m, pl)
<1>1. ASSUME NEW l, Holds(l, V, m, pl), l.tag # u * PageWords PROVE Holds(l, V \ {u}, m, pl)
  BY <1>1 DEF Holds
<1> QED BY <1>1 DEF Coherent

\* An empty cache is coherent with any memory.
LEMMA CoherentEmpty ==
  ASSUME NEW c, NEW V, NEW m, NEW pl, \A p \in Places(c) : ~c.lines[p].valid
  PROVE  Coherent(c, V, m, pl)
BY DEF Coherent

\* A cache that may hold no page is empty.
LEMMA EmptyCoherent ==
  ASSUME NEW c, NEW m, NEW pl, Coherent(c, {}, m, pl)
  PROVE  /\ \A p \in Places(c) : ~c.lines[p].valid
         /\ \A a : DirtyPlaces(c, a) = {}
BY DEF Coherent, Holds, DirtyPlaces

-----------------------------------------------------------------------------
(* The write buffer *)

\* The last entry of an address.
IsLast(b, a, n) ==
  n \in DOMAIN b /\ b[n].pa = a /\ \A j \in DOMAIN b : b[j].pa = a => j <= n

\* A buffered address has a last entry, whose word is the one the buffer holds.
LEMMA LastEntry ==
  ASSUME NEW b \in Seq(WbRec), NEW a
  PROVE  /\ Buffered(b, a) => \E n \in DOMAIN b : IsLast(b, a, n)
         /\ \A n \in DOMAIN b : IsLast(b, a, n) => LastBuffered(b, a) = b[n].data
<1>0. DOMAIN b = 1 .. Len(b) /\ Len(b) \in Nat
  OBVIOUS
<1>1. ASSUME Buffered(b, a) PROVE \E n \in DOMAIN b : IsLast(b, a, n)
  <2> DEFINE S == {j \in DOMAIN b : b[j].pa = a}
  <2>1. S \in SUBSET (0 .. Len(b)) /\ S # {}
    BY <1>0, <1>1 DEF Buffered
  <2>2. PICK n \in S : \A j \in S : j <= n
    <3> HIDE DEF S
    <3> QED BY <1>0, <2>1, Largest
  <2> QED BY <2>2 DEF IsLast
<1>2. ASSUME NEW n \in DOMAIN b, IsLast(b, a, n) PROVE LastBuffered(b, a) = b[n].data
  <2> DEFINE k == CHOOSE k \in DOMAIN b :
                    b[k].pa = a /\ \A j \in DOMAIN b : b[j].pa = a => j <= k
  <2>1. k \in DOMAIN b /\ b[k].pa = a /\ \A j \in DOMAIN b : b[j].pa = a => j <= k
    BY <1>2, Zenon DEF IsLast
  <2>2. LastBuffered(b, a) = b[k].data
    BY DEF LastBuffered
  <2> HIDE DEF k
  <2>3. k <= n /\ n <= k
    BY <1>2, <2>1 DEF IsLast
  <2>4. k = n
    BY <1>0, <1>2, <2>1, <2>3
  <2> QED BY <2>2, <2>4
<1> QED BY <1>1, <1>2

\* The words the buffer holds are words.
LEMMA BufferedWord ==
  ASSUME NEW b \in Seq(WbRec), NEW a, Buffered(b, a)
  PROVE  LastBuffered(b, a) \in Vals
<1>1. PICK n \in DOMAIN b : IsLast(b, a, n)
  BY LastEntry
<1>2. LastBuffered(b, a) = b[n].data
  BY <1>1, LastEntry
<1>3. b[n] \in WbRec
  OBVIOUS
<1> QED BY <1>2, <1>3 DEF WbRec

\* The buffer holds the words of plain memory.
Delays(b, pl) == \A a \in DOMAIN Loaded : Buffered(b, a) => LastBuffered(b, a) = pl[a]

\* A drain brings them to memory.
LEMMA DrainedMemory ==
  ASSUME NEW b \in Seq(WbRec), NEW old \in Memory, NEW pl, Delays(b, pl)
  PROVE  /\ mmu_wb_drain_all(b, old) \in Memory
         /\ \A a \in DOMAIN Loaded :
              mmu_wb_drain_all(b, old)[a] = IF Buffered(b, a) THEN pl[a] ELSE old[a]
<1> DEFINE new == mmu_wb_drain_all(b, old)
<1>1. new = [a \in DOMAIN Loaded |-> IF Buffered(b, a) THEN LastBuffered(b, a) ELSE old[a]]
  BY DEF mmu_wb_drain_all, Memory
<1> HIDE DEF new
<1>2. ASSUME NEW a \in DOMAIN Loaded
      PROVE  new[a] = (IF Buffered(b, a) THEN pl[a] ELSE old[a]) /\ new[a] \in Vals
  <2>1. CASE Buffered(b, a)
    BY <1>1, <2>1, BufferedWord DEF Delays
  <2>2. CASE ~Buffered(b, a)
    BY <1>1, <2>2 DEF Memory
  <2> QED BY <2>1, <2>2
<1>3. new \in Memory
  BY <1>1, <1>2 DEF Memory
<1> QED BY <1>2, <1>3 DEF new

\* An empty buffer holds nothing.
LEMMA EmptyBuffer ==
  /\ <<>> \in Seq(WbRec) /\ Len(<<>>) = 0 /\ DOMAIN <<>> = {}
  /\ \A a : ~Buffered(<<>>, a)
BY DEF Buffered

\* An entry at the end of the buffer.
LEMMA AppendEntry ==
  ASSUME NEW b \in Seq(WbRec), NEW pa \in Nat, NEW data \in Vals
  PROVE  LET c == Append(b, [pa |-> pa, data |-> data])
         IN /\ c \in Seq(WbRec) /\ Len(c) = Len(b) + 1
            /\ Buffered(c, pa) /\ LastBuffered(c, pa) = data
            /\ \A n \in DOMAIN c : c[n].pa = pa \/ Buffered(b, c[n].pa)
            /\ \A a : a # pa => /\ Buffered(c, a) <=> Buffered(b, a)
                                /\ Buffered(b, a) => LastBuffered(c, a) = LastBuffered(b, a)
<1> DEFINE e == [pa |-> pa, data |-> data]
           c == Append(b, e)
           k == Len(b) + 1
<1>1. e \in WbRec /\ e.pa = pa /\ e.data = data
  BY DEF WbRec
<1> HIDE DEF e
<1>2. /\ c \in Seq(WbRec) /\ Len(c) = Len(b) + 1 /\ Len(b) \in Nat
      /\ DOMAIN b = 1 .. Len(b) /\ DOMAIN c = 1 .. Len(b) + 1
      /\ c[Len(b) + 1] = e /\ \A n \in 1 .. Len(b) : c[n] = b[n]
  BY <1>1
<1> HIDE DEF c
<1>3. k \in DOMAIN c /\ c[k].pa = pa /\ c[k].data = data /\ \A n \in DOMAIN c : n <= k
  BY <1>1, <1>2
<1>4. Buffered(c, pa)
  BY <1>3 DEF Buffered
<1>5. LastBuffered(c, pa) = data
  <2>1. IsLast(c, pa, k)
    BY <1>3 DEF IsLast
  <2> HIDE DEF k
  <2>2. LastBuffered(c, pa) = c[k].data
    BY <1>2, <1>3, <2>1, LastEntry
  <2> QED BY <1>3, <2>2
<1>6. ASSUME NEW n \in DOMAIN c PROVE c[n].pa = pa \/ Buffered(b, c[n].pa)
  <2>1. CASE n = k
    BY <1>3, <2>1
  <2>2. CASE n # k
    BY <1>2, <2>2 DEF Buffered
  <2> QED BY <2>1, <2>2
<1>7. ASSUME NEW a, a # pa PROVE Buffered(c, a) <=> Buffered(b, a)
  <2>1. ASSUME Buffered(c, a) PROVE Buffered(b, a)
    BY <1>6, <1>7, <2>1 DEF Buffered
  <2>2. ASSUME Buffered(b, a) PROVE Buffered(c, a)
    BY <1>2, <2>2 DEF Buffered
  <2> QED BY <2>1, <2>2
<1>8. ASSUME NEW a, a # pa, Buffered(b, a) PROVE LastBuffered(c, a) = LastBuffered(b, a)
  <2>1. PICK n \in DOMAIN b : IsLast(b, a, n)
    BY <1>8, LastEntry
  <2>2. IsLast(c, a, n)
    <3>1. n \in DOMAIN c /\ c[n].pa = a
      BY <1>2, <2>1 DEF IsLast
    <3>2. ASSUME NEW j \in DOMAIN c, c[j].pa = a PROVE j <= n
      <4>1. j # k
        BY <1>3, <1>8, <3>2
      <4> QED BY <1>2, <2>1, <3>2, <4>1 DEF IsLast
    <3> QED BY <3>1, <3>2 DEF IsLast
  <2>3. LastBuffered(b, a) = b[n].data
    BY <2>1, LastEntry
  <2>4. LastBuffered(c, a) = c[n].data
    BY <1>2, <2>2, LastEntry DEF IsLast
  <2> QED BY <1>2, <2>3, <2>4
<1> QED BY <1>2, <1>4, <1>5, <1>6, <1>7, <1>8 DEF c, e

\* The buffer without its oldest entry.
LEMMA TailEntry ==
  ASSUME NEW b \in Seq(WbRec), b # <<>>
  PROVE  LET c == Tail(b)
         IN /\ c \in Seq(WbRec) /\ Len(c) = Len(b) - 1 /\ Len(b) \in Nat \ {0}
            /\ Head(b) \in WbRec /\ Buffered(b, Head(b).pa)
            /\ \A a : Buffered(c, a) => /\ Buffered(b, a)
                                        /\ LastBuffered(c, a) = LastBuffered(b, a)
            /\ \A a : Buffered(b, a) /\ ~Buffered(c, a)
                      => Head(b).pa = a /\ LastBuffered(b, a) = Head(b).data
<1> DEFINE c == Tail(b)
<1>1. /\ c \in Seq(WbRec) /\ Len(b) \in Nat \ {0} /\ Len(c) = Len(b) - 1
      /\ DOMAIN b = 1 .. Len(b) /\ DOMAIN c = 1 .. Len(b) - 1
      /\ Head(b) = b[1] /\ \A n \in 1 .. Len(b) - 1 : c[n] = b[n + 1]
  OBVIOUS
<1> HIDE DEF c
<1>2. Head(b) \in WbRec /\ Buffered(b, Head(b).pa)
  <2>1. 1 \in DOMAIN b
    BY <1>1
  <2> QED BY <1>1, <2>1 DEF Buffered
<1>3. ASSUME NEW a, Buffered(c, a)
      PROVE  Buffered(b, a) /\ LastBuffered(c, a) = LastBuffered(b, a)
  <2>1. PICK n \in DOMAIN c : IsLast(c, a, n)
    BY <1>1, <1>3, LastEntry
  <2>2. n + 1 \in DOMAIN b /\ b[n + 1] = c[n] /\ c[n].pa = a
    BY <1>1, <2>1 DEF IsLast
  <2>3. ASSUME NEW j \in DOMAIN b, b[j].pa = a PROVE j <= n + 1
    <3>1. CASE j = 1
      BY <1>1, <3>1
    <3>2. CASE j # 1
      <4>1. j - 1 \in DOMAIN c /\ c[j - 1] = b[j]
        BY <1>1, <3>2
      <4>2. j - 1 <= n
        BY <2>1, <2>3, <4>1 DEF IsLast
      <4> QED BY <1>1, <4>2
    <3> QED BY <3>1, <3>2
  <2> DEFINE k == n + 1
  <2> HIDE DEF k
  <2>4. IsLast(b, a, k) /\ k \in DOMAIN b /\ b[k] = c[n]
    BY <2>2, <2>3 DEF IsLast, k
  <2>5. LastBuffered(b, a) = b[k].data
    BY <2>4, LastEntry
  <2>6. LastBuffered(c, a) = c[n].data
    BY <1>1, <2>1, LastEntry
  <2>7. Buffered(b, a)
    BY <2>4 DEF Buffered, IsLast
  <2> QED BY <2>4, <2>5, <2>6, <2>7
<1>4. ASSUME NEW a, Buffered(b, a), ~Buffered(c, a)
      PROVE  Head(b).pa = a /\ LastBuffered(b, a) = Head(b).data
  <2>1. PICK n \in DOMAIN b : IsLast(b, a, n)
    BY <1>4, LastEntry
  <2>2. LastBuffered(b, a) = b[n].data /\ b[n].pa = a
    BY <2>1, LastEntry DEF IsLast
  <2>3. n = 1
    <3> SUFFICES ASSUME n # 1 PROVE FALSE
      OBVIOUS
    <3>1. n - 1 \in DOMAIN c /\ c[n - 1] = b[n]
      BY <1>1
    <3> QED BY <1>4, <2>2, <3>1 DEF Buffered
  <2> QED BY <1>1, <2>2, <2>3
<1> QED BY <1>1, <1>2, <1>3, <1>4 DEF c

\* A store to the buffer: the word is there, and what gives way has reached memory.
LEMMA Pushed ==
  ASSUME NEW b \in Seq(WbRec), Len(b) <= WbNum, NEW pa \in Nat, NEW data \in Vals,
         NEW old \in Memory
  PROVE  LET r == mmu_wb_write_bytes(b, old, pa, data)
         IN /\ r.wb \in Seq(WbRec) /\ Len(r.wb) <= WbNum /\ r.mem \in Memory
            /\ Buffered(r.wb, pa) /\ LastBuffered(r.wb, pa) = data
            /\ \A n \in DOMAIN r.wb : r.wb[n].pa = pa \/ Buffered(b, r.wb[n].pa)
            /\ \A a \in DOMAIN Loaded :
                 /\ a # pa /\ Buffered(r.wb, a) =>
                      Buffered(b, a) /\ LastBuffered(r.wb, a) = LastBuffered(b, a)
                 /\ a # pa /\ Buffered(b, a) /\ ~Buffered(r.wb, a) =>
                      r.mem[a] = LastBuffered(b, a)
                 /\ ~Buffered(b, a) => r.mem[a] = old[a]
<1> DEFINE r == mmu_wb_write_bytes(b, old, pa, data)
           e == [pa |-> pa, data |-> data]
<1>0. Len(b) \in Nat /\ WbNum \in Nat \ {0}
  BY Sizes
<1>1. CASE Len(b) # WbNum
  <2> DEFINE c == Append(b, e)
  <2>1. r.wb = c /\ r.mem = old
    BY <1>1 DEF mmu_wb_write_bytes
  <2>2. /\ c \in Seq(WbRec) /\ Len(c) = Len(b) + 1
        /\ Buffered(c, pa) /\ LastBuffered(c, pa) = data
        /\ \A n \in DOMAIN c : c[n].pa = pa \/ Buffered(b, c[n].pa)
        /\ \A a : a # pa => /\ Buffered(c, a) <=> Buffered(b, a)
                            /\ Buffered(b, a) => LastBuffered(c, a) = LastBuffered(b, a)
    BY AppendEntry
  <2> HIDE DEF r, c
  <2>3. Len(c) <= WbNum
    BY <1>0, <1>1, <2>2
  <2>4. ASSUME NEW a \in DOMAIN Loaded
        PROVE  /\ a # pa /\ Buffered(c, a) =>
                    Buffered(b, a) /\ LastBuffered(c, a) = LastBuffered(b, a)
               /\ a # pa /\ Buffered(b, a) /\ ~Buffered(c, a) => old[a] = LastBuffered(b, a)
    BY <2>2
  <2> QED BY <2>1, <2>2, <2>3, <2>4 DEF r
<1>2. CASE Len(b) = WbNum
  <2> DEFINE t == Tail(b)
             h == Head(b)
             c == Append(t, e)
             new == Put(old, h)
  <2>0. b # <<>>
    BY <1>0, <1>2
  <2>1. r.wb = c /\ r.mem = new
    BY <1>2 DEF mmu_wb_write_bytes
  <2>2. /\ t \in Seq(WbRec) /\ Len(t) = Len(b) - 1
        /\ h \in WbRec /\ Buffered(b, h.pa)
        /\ \A a : Buffered(t, a) => /\ Buffered(b, a)
                                    /\ LastBuffered(t, a) = LastBuffered(b, a)
        /\ \A a : Buffered(b, a) /\ ~Buffered(t, a)
                  => h.pa = a /\ LastBuffered(b, a) = h.data
    BY <2>0, TailEntry
  <2> HIDE DEF r, t, h
  <2>3. /\ c \in Seq(WbRec) /\ Len(c) = Len(t) + 1
        /\ Buffered(c, pa) /\ LastBuffered(c, pa) = data
        /\ \A n \in DOMAIN c : c[n].pa = pa \/ Buffered(t, c[n].pa)
        /\ \A a : a # pa => /\ Buffered(c, a) <=> Buffered(t, a)
                            /\ Buffered(t, a) => LastBuffered(c, a) = LastBuffered(t, a)
    BY <2>2, AppendEntry
  <2> HIDE DEF c
  <2>4. Len(c) <= WbNum
    BY <1>0, <1>2, <2>2, <2>3
  <2>5. new = [old EXCEPT ![h.pa] = h.data] /\ h.data \in Vals
    BY <2>2 DEF Put, WbRec
  <2> HIDE DEF new
  <2>6. new \in Memory
    BY <2>5 DEF Memory
  <2>7. ASSUME NEW a \in DOMAIN Loaded
        PROVE  /\ a # pa /\ Buffered(c, a) =>
                    Buffered(b, a) /\ LastBuffered(c, a) = LastBuffered(b, a)
               /\ a # pa /\ Buffered(b, a) /\ ~Buffered(c, a) => new[a] = LastBuffered(b, a)
               /\ ~Buffered(b, a) => new[a] = old[a]
    <3>1. a # pa /\ Buffered(c, a) => Buffered(b, a) /\ LastBuffered(c, a) = LastBuffered(b, a)
      BY <2>2, <2>3
    <3>2. ASSUME a # pa, Buffered(b, a), ~Buffered(c, a) PROVE new[a] = LastBuffered(b, a)
      <4>1. ~Buffered(t, a)
        BY <2>3, <3>2
      <4>2. h.pa = a /\ LastBuffered(b, a) = h.data
        BY <2>2, <3>2, <4>1
      <4> QED BY <2>5, <4>2 DEF Memory
    <3>3. ASSUME ~Buffered(b, a) PROVE new[a] = old[a]
      <4>1. h.pa # a
        BY <2>2, <3>3
      <4> QED BY <2>5, <4>1 DEF Memory
    <3> QED BY <3>1, <3>2, <3>3
  <2>8. \A n \in DOMAIN c : c[n].pa = pa \/ Buffered(b, c[n].pa)
    BY <2>2, <2>3
  <2> QED BY <2>1, <2>3, <2>4, <2>6, <2>7, <2>8 DEF r
<1> QED BY <1>1, <1>2

-----------------------------------------------------------------------------
(* The TLBs *)

\* The three kinds of first-level descriptors.
LEMMA WalkCases ==
  ASSUME NEW M, NEW T, NEW va
  PROVE  LET l1 == L1desc[M[T + (PageOf(va) \div SectionPages)]]
             l2 == L2desc[M[l1.base + (PageOf(va) % SectionPages)]]
         IN /\ l1.kind = "section" =>
                 Walk(M, T, va) = Entry(TLB_SECTION, va, l1.base, l1, l1.domain)
            /\ l1.kind = "table" =>
                 Walk(M, T, va) = IF l2.kind = "page"
                                    THEN Entry(TLB_SMALLPAGE, va, l2.base, l2, l1.domain)
                                    ELSE NoEntry
            /\ l1.kind \notin {"section", "table"} => Walk(M, T, va) = NoEntry
BY Zenon DEF Walk

\* The parts of an entry that matter to a lookup.
LEMMA EntryParts ==
  ASSUME NEW mapping, NEW va, NEW base, NEW desc, NEW domain
  PROVE  /\ Entry(mapping, va, base, desc, domain).mapping = mapping
         /\ Entry(mapping, va, base, desc, domain).virt = PageOf(va) \div Span(mapping)
BY DEF Entry

\* What a walk finds is a section or a page and covers the address.
LEMMA WalkFound ==
  ASSUME NEW M, NEW T, NEW va, Walk(M, T, va) # NoEntry
  PROVE  LET l1 == L1desc[M[T + (PageOf(va) \div SectionPages)]]
             e == Walk(M, T, va)
         IN /\ \/ e.mapping = TLB_SECTION /\ l1.kind = "section"
               \/ e.mapping = TLB_SMALLPAGE /\ l1.kind = "table"
            /\ e.mapping # TLB_INVALID
            /\ e.virt = PageOf(va) \div Span(e.mapping)
<1> DEFINE l1 == L1desc[M[T + (PageOf(va) \div SectionPages)]]
           l2 == L2desc[M[l1.base + (PageOf(va) % SectionPages)]]
           e == Walk(M, T, va)
<1>1. CASE l1.kind = "section"
  <2>1. e = Entry(TLB_SECTION, va, l1.base, l1, l1.domain)
    BY <1>1, WalkCases
  <2> HIDE DEF l1, e
  <2>2. e.mapping = TLB_SECTION /\ e.virt = PageOf(va) \div Span(TLB_SECTION)
    BY <2>1, EntryParts
  <2>3. TLB_SECTION # TLB_INVALID
    BY DEF TLB_SECTION, TLB_INVALID
  <2> QED BY <1>1, <2>2, <2>3 DEF e, l1
<1>2. CASE l1.kind = "table" /\ l2.kind = "page"
  <2>1. e = Entry(TLB_SMALLPAGE, va, l2.base, l2, l1.domain)
    BY <1>2, WalkCases
  <2> HIDE DEF l1, l2, e
  <2>2. e.mapping = TLB_SMALLPAGE /\ e.virt = PageOf(va) \div Span(TLB_SMALLPAGE)
    BY <2>1, EntryParts
  <2>3. TLB_SMALLPAGE # TLB_INVALID
    BY DEF TLB_SMALLPAGE, TLB_INVALID
  <2> QED BY <1>2, <2>2, <2>3, SMTT(30) DEF e, l1
<1>3. CASE l1.kind = "table" /\ l2.kind # "page"
  BY <1>3, WalkCases, Zenon
<1>4. CASE l1.kind \notin {"section", "table"}
  BY <1>4, WalkCases, Zenon
<1> QED BY <1>1, <1>2, <1>3, <1>4

\* The walk of another address that the entry covers finds the same entry.
LEMMA WalkSame ==
  ASSUME NEW M, NEW T, NEW va \in Nat, NEW vb \in Nat, Walk(M, T, va) # NoEntry,
         Walk(M, T, va).virt = PageOf(vb) \div Span(Walk(M, T, va).mapping)
  PROVE  Walk(M, T, vb) = Walk(M, T, va)
<1> DEFINE l1(a) == L1desc[M[T + (PageOf(a) \div SectionPages)]]
           l2(a) == L2desc[M[l1(a).base + (PageOf(a) % SectionPages)]]
           e == Walk(M, T, va)
<1>1. /\ \/ e.mapping = TLB_SECTION /\ l1(va).kind = "section"
         \/ e.mapping = TLB_SMALLPAGE /\ l1(va).kind = "table"
      /\ e.virt = PageOf(va) \div Span(e.mapping)
  BY WalkFound
<1>2. PageOf(va) \in Nat /\ PageOf(vb) \in Nat
  BY WordParts
<1>3. CASE e.mapping = TLB_SECTION /\ l1(va).kind = "section"
  <2>1. Span(e.mapping) = SectionPages
    BY <1>3 DEF Span
  <2>2. PageOf(va) \div SectionPages = PageOf(vb) \div SectionPages
    BY <1>1, <2>1
  <2>3. l1(vb) = l1(va)
    BY <2>2, Zenon
  <2>4. /\ Walk(M, T, va) = Entry(TLB_SECTION, va, l1(va).base, l1(va), l1(va).domain)
        /\ Walk(M, T, vb) = Entry(TLB_SECTION, vb, l1(va).base, l1(va), l1(va).domain)
    BY <1>3, <2>3, WalkCases
  <2>5. Span(TLB_SECTION) = SectionPages
    BY DEF Span
  <2> HIDE DEF l1
  <2>6. Entry(TLB_SECTION, va, l1(va).base, l1(va), l1(va).domain)
        = Entry(TLB_SECTION, vb, l1(va).base, l1(va), l1(va).domain)
    BY <2>2, <2>5 DEF Entry
  <2> QED BY <2>4, <2>6
<1>4. CASE e.mapping = TLB_SMALLPAGE /\ l1(va).kind = "table"
  <2>1. Span(e.mapping) = 1
    BY <1>4 DEF Span, TLB_SMALLPAGE, TLB_SECTION
  <2>2. PageOf(va) = PageOf(vb)
    <3>1. PageOf(va) \div 1 = PageOf(vb) \div 1
      BY <1>1, <2>1
    <3> DEFINE x == PageOf(va)
               y == PageOf(vb)
    <3> HIDE DEF x, y
    <3>2. x \in Nat /\ y \in Nat /\ x \div 1 = y \div 1
      BY <1>2, <3>1 DEF x, y
    <3>3. x = y
      BY <3>2
    <3> QED BY <3>3 DEF x, y
  <2> QED BY <2>2, Zenon DEF Walk, Entry
<1> QED BY <1>1, <1>3, <1>4

\* The words programs and the system look up, and the table words of each.
LEMMA KnownWords ==
  ASSUME NEW g \in Programs, NEW va \in Known(g)
  PROVE  /\ va \in Nat /\ PageOf(va) \in Nat
         /\ L1At(va) \in TableWords(g) /\ L1At(va) \in DOMAIN Loaded /\ L1At(va) # DescPa
         /\ InTable(va) => /\ L2At(va) \in TableWords(g) /\ L2At(va) \in DOMAIN Loaded
                           /\ L2At(va) = DescPa <=> PageOf(va) = FreePage
<1>1. FreePage \in Nat /\ DescVa \in Nat /\ g.store \subseteq Nat /\ g.load \subseteq Nat
  BY GuestAssumption, TablesAssumption
<1>2. FreeVa \in Nat
  BY <1>1, PageStart DEF FreeVa
<1>3. va \in Nat
  BY <1>1, <1>2 DEF Known, Used
<1>4. PageOf(va) \in Nat
  BY <1>3, WordParts
<1>5. InTable(va) => L2At(va) \in TableWords(g)
  BY DEF TableWords
<1>6. L1At(va) \in TableWords(g)
  BY DEF TableWords
<1>7. TableWords(g) \subseteq DOMAIN Loaded
  BY TablesAssumption
<1>8. /\ L1At(va) # DescPa
      /\ InTable(va) => (L2At(va) = DescPa <=> PageOf(va) = FreePage)
  BY TablesAssumption
<1>9. L1At(va) \in DOMAIN Loaded /\ InTable(va) => L2At(va) \in DOMAIN Loaded
  BY <1>5, <1>7
<1>10. L1At(va) \in DOMAIN Loaded
  BY <1>6, <1>7
<1> QED BY <1>3, <1>4, <1>5, <1>6, <1>8, <1>9, <1>10, Zenon

\* The page that is remapped has its descriptor at DescPa.
LEMMA FreeFacts ==
  /\ FreePage \in Nat /\ FreePage \in VPages /\ FreeVa \in Nat /\ PageOf(FreeVa) = FreePage
  /\ va_cache_align(FreeVa) = FreePage * PageWords
  /\ InTable(FreeVa)
  /\ \A g \in Programs : /\ FreeVa \in Known(g) /\ L2At(FreeVa) = DescPa
                         /\ DescPa \in TableWords(g) /\ DescPa \in DOMAIN Loaded
<1>1. FreePage \in Nat /\ FreePage \in VPages
  BY GuestAssumption
<1>2. /\ FreeVa \in Nat /\ PageOf(FreeVa) = FreePage
      /\ va_cache_align(FreeVa) = FreePage * PageWords
  BY <1>1, PageStart DEF FreeVa
<1>3. InTable(FreeVa)
  BY TablesAssumption
<1>4. ASSUME NEW g \in Programs
      PROVE  /\ FreeVa \in Known(g) /\ L2At(FreeVa) = DescPa
             /\ DescPa \in TableWords(g) /\ DescPa \in DOMAIN Loaded
  <2>1. FreeVa \in Known(g)
    BY DEF Known
  <2> QED BY <1>2, <1>3, <2>1, KnownWords
<1> QED BY <1>1, <1>2, <1>3, <1>4

\* The walk of the tables in memory.
LEMMA WalkMeaning ==
  ASSUME NEW g \in Programs, NEW va \in Known(g), NEW M, TablesIn(M, g), NEW d,
         PageOf(va) = FreePage => M[DescPa] = d
  PROVE  Walk(M, Table, va) = Meaning(d, va)
<1> DEFINE L == [Loaded EXCEPT ![DescPa] = d]
           k == L1desc[Loaded[L1At(va)]]
<1>1. /\ L1At(va) \in DOMAIN Loaded /\ L1At(va) # DescPa /\ L1At(va) \in TableWords(g)
      /\ InTable(va) => /\ L2At(va) \in TableWords(g) /\ L2At(va) \in DOMAIN Loaded
                        /\ L2At(va) = DescPa <=> PageOf(va) = FreePage
      /\ DescPa \in DOMAIN Loaded
  BY KnownWords, FreeFacts
<1>2. L[L1At(va)] = Loaded[L1At(va)] /\ M[L1At(va)] = Loaded[L1At(va)]
  BY <1>1 DEF TablesIn
<1>3. InTable(va) => L[L2At(va)] = M[L2At(va)]
  <2>1. ASSUME InTable(va), L2At(va) = DescPa PROVE L[L2At(va)] = M[L2At(va)]
    BY <1>1, <2>1
  <2>2. ASSUME InTable(va), L2At(va) # DescPa PROVE L[L2At(va)] = M[L2At(va)]
    BY <1>1, <2>2 DEF TablesIn
  <2> QED BY <2>1, <2>2
<1> HIDE DEF L
<1>4. CASE k.kind = "table"
  <2>1. InTable(va)
    BY <1>4 DEF InTable
  <2>2. L[L2At(va)] = M[L2At(va)]
    BY <1>3, <2>1
  <2> HIDE DEF k
  <2>3. /\ L1desc[M[Table + (PageOf(va) \div SectionPages)]] = k
        /\ L1desc[L[Table + (PageOf(va) \div SectionPages)]] = k
    BY <1>2, Zenon DEF L1At, k
  <2>4. L2At(va) = k.base + (PageOf(va) % SectionPages)
    BY Zenon DEF L2At, k
  <2> DEFINE j == L2desc[M[L2At(va)]]
  <2>5. Walk(M, Table, va) = IF j.kind = "page"
                               THEN Entry(TLB_SMALLPAGE, va, j.base, j, k.domain) ELSE NoEntry
    BY <1>4, <2>3, <2>4, Zenon DEF Walk
  <2>6. Walk(L, Table, va) = IF j.kind = "page"
                               THEN Entry(TLB_SMALLPAGE, va, j.base, j, k.domain) ELSE NoEntry
    BY <1>4, <2>2, <2>3, <2>4, Zenon DEF Walk
  <2>7. Walk(M, Table, va) = Walk(L, Table, va)
    BY <2>5, <2>6
  <2> QED BY <2>7 DEF Meaning, L
<1>5. CASE k.kind # "table"
  <2> HIDE DEF k
  <2>3. /\ L1desc[M[Table + (PageOf(va) \div SectionPages)]] = k
        /\ L1desc[L[Table + (PageOf(va) \div SectionPages)]] = k
    BY <1>2, Zenon DEF L1At, k
  <2>5. Walk(M, Table, va) = IF k.kind = "section"
                               THEN Entry(TLB_SECTION, va, k.base, k, k.domain) ELSE NoEntry
    BY <1>5, <2>3, WalkCases
  <2>6. Walk(L, Table, va) = IF k.kind = "section"
                               THEN Entry(TLB_SECTION, va, k.base, k, k.domain) ELSE NoEntry
    BY <1>5, <2>3, WalkCases
  <2>7. Walk(M, Table, va) = Walk(L, Table, va)
    BY <2>5, <2>6
  <2> QED BY <2>7 DEF Meaning, L
<1> QED BY <1>4, <1>5

\* An entry of the tables: what it covers and, by its address, what it is.
LEMMA MeaningFound ==
  ASSUME NEW g \in Programs, NEW va \in Known(g), NEW d, Meaning(d, va) # NoEntry
  PROVE  LET e == Meaning(d, va)
         IN /\ e.mapping = IF InTable(va) THEN TLB_SMALLPAGE ELSE TLB_SECTION
            /\ e.mapping # TLB_INVALID
            /\ e.virt = PageOf(va) \div Span(e.mapping)
<1> DEFINE L == [Loaded EXCEPT ![DescPa] = d]
           e == Walk(L, Table, va)
           k == L1desc[Loaded[L1At(va)]]
<1>0. Meaning(d, va) = e
  BY DEF Meaning
<1>1. L1At(va) \in DOMAIN Loaded /\ L1At(va) # DescPa
  BY KnownWords
<1>2. L[L1At(va)] = Loaded[L1At(va)]
  BY <1>1
<1> HIDE DEF L
<1>3. /\ \/ e.mapping = TLB_SECTION /\ k.kind = "section"
         \/ e.mapping = TLB_SMALLPAGE /\ k.kind = "table"
      /\ e.mapping # TLB_INVALID
      /\ e.virt = PageOf(va) \div Span(e.mapping)
  <2>1. L1desc[L[Table + (PageOf(va) \div SectionPages)]] = k
    BY <1>2, Zenon DEF L1At
  <2>2. e # NoEntry
    BY <1>0
  <2> HIDE DEF e, k
  <2> QED BY <2>1, <2>2, WalkFound DEF e
<1>4. InTable(va) <=> k.kind = "table"
  BY DEF InTable
<1> HIDE DEF e, k
<1>5. e.mapping = IF InTable(va) THEN TLB_SMALLPAGE ELSE TLB_SECTION
  BY <1>3, <1>4
<1> QED BY <1>0, <1>3, <1>5

\* The entry of an address is the entry of every address it covers.
LEMMA MeaningSame ==
  ASSUME NEW va \in Nat, NEW vb \in Nat, NEW d, Meaning(d, va) # NoEntry,
         Meaning(d, va).virt = PageOf(vb) \div Span(Meaning(d, va).mapping)
  PROVE  Meaning(d, vb) = Meaning(d, va)
BY WalkSame DEF Meaning

\* The descriptor of the remapped page matters to that page only.
LEMMA MeaningElsewhere ==
  ASSUME NEW g \in Programs, NEW va \in Known(g), PageOf(va) # FreePage, NEW d, NEW f
  PROVE  Meaning(d, va) = Meaning(f, va)
<1> DEFINE L == [Loaded EXCEPT ![DescPa] = f]
<1>1. TablesIn(L, g)
  <2>1. TableWords(g) \subseteq DOMAIN Loaded
    BY TablesAssumption
  <2> QED BY <2>1 DEF TablesIn
<1> HIDE DEF L
<1>2. Walk(L, Table, va) = Meaning(d, va)
  BY <1>1, WalkMeaning
<1> QED BY <1>2 DEF Meaning, L

\* An entry that covers an address of the remapped page is that page's own.
LEMMA FreeEntry ==
  ASSUME NEW g \in Programs, NEW va \in Known(g), NEW d, NEW vb \in Known(g), NEW f,
         Meaning(d, va) # NoEntry, PageOf(vb) = FreePage,
         Meaning(d, va).virt = PageOf(vb) \div Span(Meaning(d, va).mapping)
  PROVE  PageOf(va) = FreePage
<1>1. va \in Nat /\ vb \in Nat /\ PageOf(va) \in Nat /\ PageOf(vb) \in Nat
  BY KnownWords
<1>2. Meaning(d, vb) = Meaning(d, va)
  BY <1>1, MeaningSame
<1>3. InTable(vb)
  <2>1. L1At(vb) = L1At(FreeVa)
    BY FreeFacts, Zenon DEF L1At
  <2> QED BY <2>1, FreeFacts DEF InTable
<1>4. Meaning(d, va).mapping = TLB_SMALLPAGE
  BY <1>2, <1>3, MeaningFound
<1>5. Span(Meaning(d, va).mapping) = 1
  BY <1>4 DEF Span, TLB_SMALLPAGE, TLB_SECTION
<1>6. Meaning(d, va).virt = PageOf(va) \div 1
  BY <1>5, MeaningFound
<1>7. PageOf(va) \div 1 = PageOf(vb) \div 1
  BY <1>5, <1>6
<1> DEFINE x == PageOf(va)
           y == PageOf(vb)
<1> HIDE DEF x, y
<1>8. x \in Nat /\ y \in Nat /\ x \div 1 = y \div 1
  BY <1>1, <1>7 DEF x, y
<1>9. x = y
  BY <1>8
<1> QED BY <1>9 DEF x, y

\* Entry x is the one of va, for the descriptor in force or a stale one.
EntryOf(x, va, cur, stale) ==
  \E d \in Descs : /\ x = Meaning(d, va) /\ Meaning(d, va) # NoEntry
                   /\ PageOf(va) = FreePage /\ ~stale => d = cur

\* What matches an address in a TLB is the entry of that address.
LEMMA MatchMeaning ==
  ASSUME NEW g \in Programs, NEW t, NEW n \in Nat, NEW cur, NEW stale, Fine(t, n, g, cur, stale),
         NEW va \in Known(g), NEW e \in Matches(t, va)
  PROVE  EntryOf(t.entrys[e], va, cur, stale)
<1>1. /\ e \in 0 .. n - 1 /\ t.entrys[e].mapping # TLB_INVALID
      /\ t.entrys[e].virt = PageOf(va) \div Span(t.entrys[e].mapping)
  BY DEF Matches, Entries, Fine
<1>2. t.entrys[e] # NoEntry
  BY <1>1 DEF NoEntry
<1>3. PICK vb \in Used(g), d \in Descs :
        /\ t.entrys[e] = Meaning(d, vb) /\ Meaning(d, vb) # NoEntry
        /\ PageOf(vb) = FreePage /\ ~stale => d = cur
  BY <1>1, <1>2 DEF Fine
<1>4. vb \in Known(g)
  BY DEF Known
<1>5. va \in Nat /\ vb \in Nat
  BY <1>4, KnownWords
<1>6. Meaning(d, vb).virt = PageOf(va) \div Span(Meaning(d, vb).mapping)
  BY <1>1, <1>3
<1>7. Meaning(d, va) = Meaning(d, vb)
  BY <1>3, <1>5, <1>6, MeaningSame
<1>8. PageOf(va) = FreePage => PageOf(vb) = FreePage
  BY <1>3, <1>4, <1>6, FreeEntry
<1> QED BY <1>3, <1>7, <1>8 DEF EntryOf

\* An address that an entry of the tables covers is covered by none that does not
\* cover the addresses this one does.
LEMMA MatchShared ==
  ASSUME NEW g \in Programs, NEW t, NEW n \in Nat, NEW cur, NEW stale, Fine(t, n, g, cur, stale),
         NEW va \in Known(g), NEW vb \in Known(g), NEW d, Meaning(d, va) # NoEntry,
         Meaning(d, va).virt = PageOf(vb) \div Span(Meaning(d, va).mapping),
         NEW e \in Matches(t, vb)
  PROVE  e \in Matches(t, va)
<1>1. PICK f \in Descs : t.entrys[e] = Meaning(f, vb) /\ Meaning(f, vb) # NoEntry
  <2>1. EntryOf(t.entrys[e], vb, cur, stale)
    BY MatchMeaning
  <2> QED BY <2>1 DEF EntryOf
<1>2. va \in Nat /\ vb \in Nat
  BY KnownWords
<1>3. Meaning(d, vb) = Meaning(d, va)
  BY <1>2, MeaningSame
<1>4. Meaning(f, vb).mapping = Meaning(d, vb).mapping
  BY <1>1, <1>3, MeaningFound
<1>5. /\ Meaning(d, va).virt = PageOf(va) \div Span(Meaning(d, va).mapping)
      /\ Meaning(d, vb).virt = PageOf(vb) \div Span(Meaning(d, vb).mapping)
      /\ Meaning(f, vb).virt = PageOf(vb) \div Span(Meaning(f, vb).mapping)
      /\ Meaning(f, vb).mapping # TLB_INVALID
  BY <1>1, <1>3, MeaningFound
<1>6. t.entrys[e].virt = PageOf(va) \div Span(t.entrys[e].mapping)
  BY <1>1, <1>3, <1>4, <1>5, Zenon
<1>7. e \in Entries(t)
  BY DEF Matches
<1> QED BY <1>1, <1>5, <1>6, <1>7 DEF Matches

\* What translate finds, and that the TLB stays fine.
LEMMA Translate ==
  ASSUME NEW g \in Programs, NEW t, NEW n \in Nat \ {0}, NEW cur \in Descs, NEW stale,
         Fine(t, n, g, cur, stale), NEW va \in Used(g), NEW M, TablesIn(M, g),
         PageOf(va) = FreePage => ~stale /\ M[DescPa] = cur
  PROVE  LET tr == translate(t, M, Table, va)
         IN tr.entry = Meaning(cur, va) /\ Fine(tr.tlb, n, g, cur, stale)
<1> DEFINE tr == translate(t, M, Table, va)
<1>0. va \in Known(g)
  BY DEF Known
<1>1. CASE TlbHit(t, va)
  <2>1. PICK e \in Matches(t, va) : TRUE
    BY <1>1 DEF TlbHit
  <2>2. Matches(t, va) = {e}
    BY <1>0, <2>1 DEF Fine
  <2>3. e \in Int
    BY <2>1 DEF Matches, Entries, Fine
  <2>4. mmu_tlb_search(t, va) = e
    <3>1. Min({e}) = e
      BY <2>3 DEF Min
    <3> QED BY <2>2, <3>1 DEF mmu_tlb_search
  <2>5. PICK d \in Descs : /\ t.entrys[e] = Meaning(d, va) /\ Meaning(d, va) # NoEntry
                           /\ PageOf(va) = FreePage /\ ~stale => d = cur
    <3>1. EntryOf(t.entrys[e], va, cur, stale)
      BY <1>0, MatchMeaning
    <3> QED BY <3>1 DEF EntryOf
  <2>6. Meaning(d, va) = Meaning(cur, va)
    <3>1. CASE PageOf(va) = FreePage
      BY <2>5, <3>1
    <3>2. CASE PageOf(va) # FreePage
      BY <1>0, <3>2, MeaningElsewhere
    <3> QED BY <3>1, <3>2
  <2>7. tr.tlb = t /\ tr.entry = t.entrys[e]
    BY <1>1, <2>4 DEF translate
  <2> HIDE DEF tr
  <2> QED BY <2>5, <2>6, <2>7 DEF tr
<1>2. CASE ~TlbHit(t, va)
  <2> DEFINE m == Meaning(cur, va)
  <2>1. Walk(M, Table, va) = m
    BY <1>0, WalkMeaning
  <2>2. CASE m = NoEntry
    <3>1. tr.tlb = t /\ tr.entry = m
      BY <1>2, <2>1, <2>2 DEF translate
    <3> HIDE DEF tr
    <3> QED BY <3>1 DEF tr
  <2>3. CASE m # NoEntry
    <3> DEFINE u == [t EXCEPT !.entrys[t.cycle] = m, !.cycle = (@ + 1) % t.num]
               k == t.cycle
               c == (k + 1) % n
               f == [t.entrys EXCEPT ![k] = m]
    <3>1. tr.tlb = u /\ tr.entry = m
      BY <1>2, <2>1, <2>3 DEF translate
    <3>2. /\ t.num = n /\ k \in 0 .. n - 1
          /\ t = [num |-> n, entrys |-> t.entrys, cycle |-> k]
          /\ t.entrys = [e \in 0 .. n - 1 |-> t.entrys[e]]
      BY DEF Fine
    <3> HIDE DEF tr, m
    <3>3. u = [num |-> n, entrys |-> f, cycle |-> c]
      <4> DEFINE v == [t EXCEPT !.entrys[k] = m]
      <4>0. t = [num |-> n, entrys |-> t.entrys, cycle |-> t.cycle]
        BY <3>2
      <4>1. v = [num |-> n, entrys |-> f, cycle |-> k]
        BY <4>0
      <4>2. u = [v EXCEPT !.cycle = c]
        BY <3>2
      <4> HIDE DEF v, u, c, f
      <4> QED BY <4>1, <4>2
    <3>4. c \in 0 .. n - 1
      BY <3>2
    <3>5. /\ f = [e \in 0 .. n - 1 |-> f[e]] /\ f[k] = m
          /\ \A e \in 0 .. n - 1 : e # k => f[e] = t.entrys[e]
      BY <3>2
    <3> HIDE DEF u, c, f, k
    <3>6. u.num = n /\ u.entrys = f /\ u.cycle = c
      BY <3>3
    <3>7. ASSUME NEW e \in 0 .. n - 1
          PROVE  u.entrys[e] = NoEntry \/ \E vb \in Used(g), d \in Descs :
                   /\ u.entrys[e] = Meaning(d, vb) /\ Meaning(d, vb) # NoEntry
                   /\ PageOf(vb) = FreePage /\ ~stale => d = cur
      <4>1. CASE e = k
        <5>1. u.entrys[e] = Meaning(cur, va) /\ Meaning(cur, va) # NoEntry
          BY <2>3, <3>5, <3>6, <4>1 DEF m
        <5> QED BY <5>1
      <4>2. CASE e # k
        <5>1. u.entrys[e] = t.entrys[e]
          BY <3>5, <3>6, <4>2
        <5> QED BY <5>1 DEF Fine
      <4> QED BY <4>1, <4>2
    <3>8. ASSUME NEW vb \in Known(g), NEW e \in Matches(u, vb)
          PROVE  \/ e = k /\ m.virt = PageOf(vb) \div Span(m.mapping)
                 \/ e # k /\ e \in Matches(t, vb)
      <4>1. e \in 0 .. n - 1
        BY <3>6, <3>8 DEF Matches, Entries
      <4>2. CASE e = k
        BY <3>5, <3>6, <3>8, <4>2 DEF Matches
      <4>3. CASE e # k
        BY <3>2, <3>5, <3>6, <3>8, <4>1, <4>3 DEF Matches, Entries
      <4> QED BY <4>2, <4>3
    <3>9. ASSUME NEW vb \in Known(g), m.virt = PageOf(vb) \div Span(m.mapping),
                 NEW e \in Matches(t, vb)
          PROVE  FALSE
      <4>1. e \in Matches(t, va)
        BY <1>0, <2>3, <3>9, MatchShared DEF m
      <4> QED BY <1>2, <4>1 DEF TlbHit
    <3>10. \A vb \in Known(g) : \A e, h \in Matches(u, vb) : e = h
      <4> SUFFICES ASSUME NEW vb \in Known(g), NEW e \in Matches(u, vb), NEW h \in Matches(u, vb)
                   PROVE  e = h
        OBVIOUS
      <4>1. e = k \/ e \in Matches(t, vb)
        BY <3>8
      <4>2. h = k \/ h \in Matches(t, vb)
        BY <3>8
      <4>3. CASE e \in Matches(t, vb) /\ h \in Matches(t, vb)
        BY <4>3 DEF Fine
      <4>4. CASE e = k
        <5>1. m.virt = PageOf(vb) \div Span(m.mapping)
          BY <3>8, <4>4
        <5> QED BY <3>9, <4>2, <4>4, <5>1
      <4>5. CASE h = k
        <5>1. m.virt = PageOf(vb) \div Span(m.mapping)
          BY <3>8, <4>5
        <5> QED BY <3>9, <4>1, <4>5, <5>1
      <4> QED BY <4>1, <4>2, <4>3, <4>4, <4>5
    <3>11. u = [num |-> n, entrys |-> u.entrys, cycle |-> u.cycle]
           /\ u.entrys = [e \in 0 .. n - 1 |-> u.entrys[e]]
      BY <3>3, <3>5, <3>6
    <3>12. Fine(u, n, g, cur, stale)
      BY <3>4, <3>6, <3>7, <3>10, <3>11 DEF Fine
    <3> QED BY <3>1, <3>12 DEF tr, m
  <2> QED BY <2>2, <2>3
<1> QED BY <1>1, <1>2

\* An empty TLB is fine.
LEMMA TlbEmpty ==
  ASSUME NEW g \in Programs, NEW n \in Nat \ {0}, NEW cur, NEW stale
  PROVE  Fine(mmu_tlb_init(n), n, g, cur, stale)
<1> DEFINE t == mmu_tlb_init(n)
<1>1. t.num = n /\ t.cycle = 0 /\ t.entrys = [e \in 0 .. n - 1 |-> NoEntry]
  BY DEF mmu_tlb_init
<1>2. t = [num |-> n, entrys |-> t.entrys, cycle |-> t.cycle]
  BY DEF mmu_tlb_init
<1> HIDE DEF t
<1>3. \A va : Matches(t, va) = {}
  BY <1>1 DEF Matches, Entries, NoEntry
<1>4. t.entrys = [e \in 0 .. n - 1 |-> t.entrys[e]] /\ \A e \in 0 .. n - 1 : t.entrys[e] = NoEntry
  BY <1>1
<1>5. Fine(t, n, g, cur, stale)
  BY <1>1, <1>2, <1>3, <1>4 DEF Fine
<1> QED BY <1>5 DEF t

\* Stale entries may be of any descriptor.
LEMMA TlbStale ==
  ASSUME NEW g, NEW t, NEW n, NEW cur, NEW stale, Fine(t, n, g, cur, stale), NEW new
  PROVE  Fine(t, n, g, new, TRUE)
BY DEF Fine

\* An entry is invalidated by address; if it was the remapped page's, no entry is
\* stale any more.
LEMMA TlbInvalidated ==
  ASSUME NEW g \in Programs, NEW t, NEW n \in Nat, NEW cur, NEW stale,
         Fine(t, n, g, cur, stale), NEW va \in Known(g)
  PROVE  /\ Fine(mmu_tlb_invalidate_entry(t, va), n, g, cur, stale)
         /\ PageOf(va) = FreePage => Fine(mmu_tlb_invalidate_entry(t, va), n, g, cur, FALSE)
<1> DEFINE u == mmu_tlb_invalidate_entry(t, va)
<1>1. /\ u.num = n /\ u.cycle \in 0 .. n - 1
      /\ u = [num |-> n, entrys |-> u.entrys, cycle |-> u.cycle]
      /\ u.entrys = [e \in 0 .. n - 1 |-> u.entrys[e]]
      /\ \A e \in 0 .. n - 1 : u.entrys[e] \in {t.entrys[e], NoEntry}
      /\ Matches(u, va) = {}
  <2>1. CASE ~TlbHit(t, va)
    <3>1. u = t
      BY <2>1 DEF mmu_tlb_invalidate_entry
    <3> QED BY <2>1, <3>1 DEF Fine, TlbHit
  <2>2. CASE TlbHit(t, va)
    <3>1. PICK e \in Matches(t, va) : TRUE
      BY <2>2 DEF TlbHit
    <3>2. Matches(t, va) = {e}
      BY <3>1 DEF Fine
    <3>3. e \in Int /\ e \in 0 .. n - 1
      BY <3>1 DEF Matches, Entries, Fine
    <3>4. mmu_tlb_search(t, va) = e
      <4>1. Min({e}) = e
        BY <3>3 DEF Min
      <4> QED BY <3>2, <4>1 DEF mmu_tlb_search
    <3>5. u = [t EXCEPT !.entrys[e] = NoEntry]
      BY <2>2, <3>4 DEF mmu_tlb_invalidate_entry
    <3> DEFINE f == [t.entrys EXCEPT ![e] = NoEntry]
    <3>6. /\ t.num = n /\ t.cycle \in 0 .. n - 1
          /\ t = [num |-> n, entrys |-> t.entrys, cycle |-> t.cycle]
          /\ t.entrys = [k \in 0 .. n - 1 |-> t.entrys[k]]
      BY DEF Fine
    <3> HIDE DEF u
    <3>7. u = [num |-> n, entrys |-> f, cycle |-> t.cycle]
      BY <3>5, <3>6
    <3>8. /\ f = [k \in 0 .. n - 1 |-> f[k]] /\ f[e] = NoEntry
          /\ \A k \in 0 .. n - 1 : k # e => f[k] = t.entrys[k]
      BY <3>3, <3>6
    <3> HIDE DEF f
    <3>9. u.num = n /\ u.entrys = f /\ u.cycle = t.cycle
      BY <3>7
    <3>10. ASSUME NEW k \in Matches(u, va) PROVE FALSE
      <4>1. k \in 0 .. n - 1
        BY <3>9, <3>10 DEF Matches, Entries
      <4>2. k # e
        BY <3>8, <3>9, <3>10 DEF Matches, NoEntry
      <4>3. k \in Matches(t, va)
        BY <3>6, <3>8, <3>9, <3>10, <4>1, <4>2 DEF Matches, Entries
      <4> QED BY <3>2, <4>2, <4>3
    <3> QED BY <3>6, <3>7, <3>8, <3>9, <3>10
  <2> QED BY <2>1, <2>2
<1> HIDE DEF u
<1>2. ASSUME NEW vb \in Known(g), NEW e \in Matches(u, vb) PROVE e \in Matches(t, vb)
  <2>1. e \in 0 .. n - 1 /\ u.entrys[e] # NoEntry
    BY <1>1, <1>2 DEF Matches, Entries, NoEntry
  <2>2. u.entrys[e] = t.entrys[e] /\ t.num = n
    BY <1>1, <2>1 DEF Fine
  <2> QED BY <1>1, <1>2, <2>2 DEF Matches, Entries
<1>3. \A vb \in Known(g) : \A e, f \in Matches(u, vb) : e = f
  BY <1>2 DEF Fine
<1>4. ASSUME NEW e \in 0 .. n - 1, u.entrys[e] # NoEntry
      PROVE  \E vb \in Used(g), d \in Descs :
               /\ u.entrys[e] = Meaning(d, vb) /\ Meaning(d, vb) # NoEntry
               /\ PageOf(vb) = FreePage /\ ~stale => d = cur
               /\ PageOf(vb) = FreePage => PageOf(va) # FreePage
  <2>1. u.entrys[e] = t.entrys[e]
    BY <1>1, <1>4
  <2>2. PICK vb \in Used(g), d \in Descs :
               /\ t.entrys[e] = Meaning(d, vb) /\ Meaning(d, vb) # NoEntry
               /\ PageOf(vb) = FreePage /\ ~stale => d = cur
    BY <1>4, <2>1 DEF Fine
  <2>3. ASSUME PageOf(vb) = FreePage, PageOf(va) = FreePage PROVE FALSE
    <3>1. vb \in Known(g)
      BY DEF Known
    <3>2. /\ Meaning(d, vb).mapping # TLB_INVALID
          /\ Meaning(d, vb).virt = PageOf(vb) \div Span(Meaning(d, vb).mapping)
      BY <2>2, <3>1, MeaningFound
    <3>3. u.entrys[e] = Meaning(d, vb) /\ e \in Entries(u)
      BY <1>1, <2>1, <2>2 DEF Entries
    <3>4. e \in Matches(u, va)
      BY <2>3, <3>2, <3>3 DEF Matches
    <3> QED BY <1>1, <3>4
  <2> QED BY <2>1, <2>2, <2>3
<1>5. Fine(u, n, g, cur, stale)
  BY <1>1, <1>3, <1>4 DEF Fine
<1>6. PageOf(va) = FreePage => Fine(u, n, g, cur, FALSE)
  BY <1>1, <1>3, <1>4 DEF Fine
<1> QED BY <1>5, <1>6 DEF u

-----------------------------------------------------------------------------
(* Programs, maps and accesses *)

\* The parts of a program.
LEMMA ProgramParts ==
  ASSUME NEW g \in Programs
  PROVE  /\ g.store \subseteq Nat /\ g.load \subseteq Nat /\ g.code \subseteq VPages
         /\ g.descs \subseteq Descs /\ VPages \subseteq Nat
         /\ g.size["tlb"] \in Nat \ {0}
         /\ Sized(g.size["iway"], g.size["iset"]) /\ Sized(g.size["dway"], g.size["dset"])
         /\ \A bits \in g.controls : "M" \in bits /\ bits \subseteq {"M", "C", "S", "R"}
         /\ g.descs # {} => FreePage \notin g.code /\ PageOf(DescVa) \notin g.code
<1>1. /\ g.store \subseteq Nat /\ g.load \subseteq Nat /\ g.code \subseteq VPages
      /\ g.descs \subseteq Descs /\ VPages \subseteq Nat
      /\ g.controls \subseteq SUBSET {"M", "C", "S", "R"}
  BY GuestAssumption
<1>2. g.size \in [{"tlb", "iway", "iset", "dway", "dset"} -> Nat \ {0}]
  BY GuestAssumption
<1>3. /\ \A bits \in g.controls : "M" \in bits
      /\ g.descs # {} => g.code \cap {FreePage, PageOf(DescVa)} = {}
  BY GuestAssumption
<1>4. /\ g.size["tlb"] \in Nat \ {0}
      /\ Sized(g.size["iway"], g.size["iset"]) /\ Sized(g.size["dway"], g.size["dset"])
  BY <1>2 DEF Sized
<1> QED BY <1>1, <1>3, <1>4

\* The words a program uses.
LEMMA UsedWords ==
  ASSUME NEW g \in Programs, NEW va \in Used(g)
  PROVE  /\ va \in Nat /\ va \in Known(g)
         /\ PageOf(va) \in VPages /\ PageOf(va) \in Nat /\ PageOf(va) \in UsedPages(g)
<1>1. va \in Known(g)
  BY DEF Known
<1>2. va \in Nat /\ PageOf(va) \in Nat
  BY <1>1, KnownWords
<1>3. PageOf(va) \in VPages
  BY GuestAssumption
<1> QED BY <1>1, <1>2, <1>3 DEF UsedPages

\* The maps.
LEMMA MapParts ==
  ASSUME NEW d \in Descs
  PROVE  /\ \A p \in VPages : /\ MapOf[d][p].page \in Nat
                              /\ MapOf[d][p].read \subseteq BOOLEAN
                              /\ MapOf[d][p].write \subseteq BOOLEAN
         /\ DOMAIN MapOf[d] = VPages
<1>1. MapOf \in [Descs -> [VPages -> [page : Nat, read : SUBSET BOOLEAN, write : SUBSET BOOLEAN]]]
  BY GuestAssumption
<1>2. MapOf[d] \in [VPages -> [page : Nat, read : SUBSET BOOLEAN, write : SUBSET BOOLEAN]]
  BY <1>1
<1>3. \A p \in VPages : MapOf[d][p] \in [page : Nat, read : SUBSET BOOLEAN, write : SUBSET BOOLEAN]
  BY <1>2
<1>4. \A p \in VPages : /\ MapOf[d][p].page \in Nat
                        /\ MapOf[d][p].read \subseteq BOOLEAN
                        /\ MapOf[d][p].write \subseteq BOOLEAN
  BY <1>3
<1> QED BY <1>2, <1>4

\* While a page is being remapped the map is the same but for the rights.
LEMMA BusyParts ==
  ASSUME NEW d \in Descs
  PROVE  /\ \A p \in VPages : Busy(MapOf[d])[p].page = MapOf[d][p].page
         /\ \A p \in VPages \ {FreePage} : Busy(MapOf[d])[p] = MapOf[d][p]
<1> DEFINE m == MapOf[d]
           n == [m EXCEPT ![FreePage].read = {}]
<1>1. m \in [VPages -> [page : Nat, read : SUBSET BOOLEAN, write : SUBSET BOOLEAN]]
  BY GuestAssumption
<1>2. FreePage \in VPages
  BY GuestAssumption
<1> HIDE DEF m
<1>3. /\ n \in [VPages -> [page : Nat, read : SUBSET BOOLEAN, write : SUBSET BOOLEAN]]
      /\ \A p \in VPages : n[p].page = m[p].page
      /\ \A p \in VPages \ {FreePage} : n[p] = m[p]
  BY <1>1, <1>2
<1>4. Busy(m) = [n EXCEPT ![FreePage].write = {}]
  BY DEF Busy
<1> HIDE DEF n
<1>5. /\ \A p \in VPages : [n EXCEPT ![FreePage].write = {}][p].page = n[p].page
      /\ \A p \in VPages \ {FreePage} : [n EXCEPT ![FreePage].write = {}][p] = n[p]
  BY <1>2, <1>3
<1> QED BY <1>3, <1>4, <1>5 DEF m

\* The descriptors differ in the remapped page only.
LEMMA MapElsewhere ==
  ASSUME NEW d \in Descs, NEW e \in Descs, NEW p \in VPages, p # FreePage
  PROVE  MapOf[d][p] = MapOf[e][p]
BY MapAssumption

\* A map of the pages as some descriptor has them.
LikeMap(m) == \E d \in Descs : \A p \in VPages : m[p].page = MapOf[d][p].page

\* The pages of a program are in memory and apart, and no map moves one of them
\* but the remapped one.
LEMMA LikeMapped ==
  ASSUME NEW g \in Programs, NEW m, LikeMap(m)
  PROVE  /\ Mapped(UsedPages(g), m)
         /\ \A va \in Used(g) : /\ Apart(UsedPages(g) \cup g.code, m, va)
                                /\ m[PageOf(va)].page \in Nat
                                /\ Phys(m, va) \in DOMAIN Loaded /\ Phys(m, va) \in Nat
         /\ Phys(m, DescVa) = DescPa
         /\ \A p \in VPages : m[p].page \in Nat
         /\ \A p \in VPages \ {FreePage}, d \in Descs : m[p].page = MapOf[d][p].page
<1>1. PICK d \in Descs : \A p \in VPages : m[p].page = MapOf[d][p].page
  BY DEF LikeMap
<1>2. \A p \in VPages : m[p].page \in Nat
  BY <1>1, MapParts
<1>3. Mapped(UsedPages(g), m)
  <2> SUFFICES ASSUME NEW va \in Used(g)
               PROVE  /\ PageOf(va) \in Nat /\ m[PageOf(va)].page \in Nat
                      /\ \A i \in LineIndex : (m[PageOf(va)].page * PageWords) + i \in DOMAIN Loaded
    BY DEF Mapped, UsedPages
  <2>1. PageOf(va) \in VPages /\ PageOf(va) \in Nat
    BY UsedWords
  <2>2. Agrees(g, d, va)
    BY MapAssumption
  <2>3. \A i \in LineIndex : (m[PageOf(va)].page * PageWords) + i \in DOMAIN Loaded
    BY <1>1, <2>1, <2>2 DEF Agrees
  <2> QED BY <1>2, <2>1, <2>3
<1>4. ASSUME NEW va \in Used(g)
      PROVE  /\ Apart(UsedPages(g) \cup g.code, m, va)
             /\ m[PageOf(va)].page \in Nat
             /\ Phys(m, va) \in DOMAIN Loaded /\ Phys(m, va) \in Nat
  <2>1. PageOf(va) \in VPages /\ va \in Nat /\ PageOf(va) \in UsedPages(g)
    BY UsedWords
  <2>2. Phys(m, va) \in DOMAIN Loaded
    BY <1>3, <2>1, MappedWord
  <2>3. \A p, q \in {PageOf(vb) : vb \in Used(g)} \cup g.code :
          MapOf[d][p].page = MapOf[d][q].page => p = q
    BY MapAssumption
  <2>4. \A p \in UsedPages(g) \cup g.code : p \in VPages
    BY UsedWords, ProgramParts DEF UsedPages
  <2>5. Apart(UsedPages(g) \cup g.code, m, va)
    <3> SUFFICES ASSUME NEW p \in UsedPages(g) \cup g.code, m[p].page = m[PageOf(va)].page
                 PROVE  p = PageOf(va)
      BY DEF Apart
    <3>1. MapOf[d][p].page = MapOf[d][PageOf(va)].page
      BY <1>1, <2>1, <2>4
    <3>2. p \in {PageOf(vb) : vb \in Used(g)} \cup g.code
      BY DEF UsedPages
    <3>3. PageOf(va) \in {PageOf(vb) : vb \in Used(g)} \cup g.code
      OBVIOUS
    <3> QED BY <2>3, <3>1, <3>2, <3>3, Zenon
  <2> QED BY <1>2, <2>1, <2>2, <2>5, PhysParts
<1>5. Phys(m, DescVa) = DescPa
  <2>1. Phys(MapOf[d], DescVa) = DescPa
    BY MapAssumption
  <2>2. DescVa \in Used(g)
    BY DEF Used
  <2>3. PageOf(DescVa) \in VPages
    BY <2>2, UsedWords
  <2> QED BY <1>1, <2>1, <2>3 DEF Phys
<1>6. ASSUME NEW p \in VPages \ {FreePage}, NEW e \in Descs PROVE m[p].page = MapOf[e][p].page
  <2>1. MapOf[d][p] = MapOf[e][p]
    BY MapElsewhere
  <2> QED BY <1>1, <2>1
<1> QED BY <1>2, <1>3, <1>4, <1>5, <1>6

\* With the MMU off.
LEMMA IdentityMapped ==
  ASSUME NEW g \in Programs
  PROVE  /\ \A p \in VPages : Identity[p].page = p
         /\ Mapped({PageOf(va) : va \in g.store}, Identity)
         /\ \A va \in g.store \cup {DescPa} :
              /\ va \in Nat /\ Phys(Identity, va) = va /\ PageOf(va) \in VPages
              /\ Identity[PageOf(va)].page \in Nat /\ va \in DOMAIN Loaded
              /\ Apart({PageOf(vb) : vb \in g.store}, Identity, va)
              /\ Identity[PageOf(va)].write = BOOLEAN /\ Identity[PageOf(va)].read = BOOLEAN
<1>1. \A p \in VPages : /\ Identity[p].page = p
                        /\ Identity[p].write = BOOLEAN /\ Identity[p].read = BOOLEAN
  BY DEF Identity
<1>2. VPages \subseteq Nat /\ \A va \in g.store : PageOf(va) \in VPages
  BY ProgramParts, UsedWords DEF Used
<1>3. Mapped({PageOf(va) : va \in g.store}, Identity)
  <2> SUFFICES ASSUME NEW va \in g.store
               PROVE  /\ PageOf(va) \in Nat /\ Identity[PageOf(va)].page \in Nat
                      /\ \A i \in LineIndex :
                           (Identity[PageOf(va)].page * PageWords) + i \in DOMAIN Loaded
    BY DEF Mapped
  <2>2. \A i \in LineIndex : (PageOf(va) * PageWords) + i \in DOMAIN Loaded
    BY MapAssumption
  <2>3. PageOf(va) \in VPages /\ PageOf(va) \in Nat
    BY <1>2
  <2>4. Identity[PageOf(va)].page = PageOf(va)
    BY <1>1, <2>3
  <2> QED BY <2>2, <2>3, <2>4
<1>4. ASSUME NEW va \in g.store \cup {DescPa}
      PROVE  /\ va \in Nat /\ Phys(Identity, va) = va /\ PageOf(va) \in VPages
             /\ Identity[PageOf(va)].page \in Nat /\ va \in DOMAIN Loaded
             /\ Apart({PageOf(vb) : vb \in g.store}, Identity, va)
             /\ Identity[PageOf(va)].write = BOOLEAN /\ Identity[PageOf(va)].read = BOOLEAN
  <2>1. va \in Nat /\ PageOf(va) \in VPages
    BY <1>2, ProgramParts, TablesAssumption
  <2>2. Identity[PageOf(va)].page = PageOf(va) /\ PageOf(va) \in Nat
    BY <1>1, <1>2, <2>1
  <2>3. Phys(Identity, va) = va
    BY <2>1, <2>2, WordParts DEF Phys
  <2>4. va \in DOMAIN Loaded
    <3>1. CASE va \in g.store
      BY <1>3, <2>1, <2>3, <3>1, MappedWord
    <3>2. CASE va = DescPa
      BY <3>2, FreeFacts
    <3> QED BY <3>1, <3>2
  <2>5. Apart({PageOf(vb) : vb \in g.store}, Identity, va)
    BY <1>1, <1>2, <2>2 DEF Apart
  <2> QED BY <1>1, <2>1, <2>2, <2>3, <2>4, <2>5
<1> QED BY <1>1, <1>3, <1>4

\* The map in force while programs run, and after the last of them.
LEMMA OnMap ==
  ASSUME MmuInv, pc \in OnPcs
  PROVE  LikeMap(map)
<1>1. CASE pc \in Remapping
  <2>1. PICK d \in Descs : map = Busy(MapOf[d])
    BY <1>1 DEF MmuInv, Phased
  <2> QED BY <2>1, BusyParts DEF LikeMap
<1>2. CASE pc \notin Remapping
  <2>1. pc \in {"idle", "off1", "off2"} /\ next \in Descs
    BY <1>2 DEF MmuInv, Typed, OnPcs, Running
  <2>2. map = MapOf[next]
    BY <2>1 DEF MmuInv, Phased
  <2> QED BY <2>1, <2>2 DEF LikeMap
<1> QED BY <1>1, <1>2

\* The map has the accessible pages as the tables do.
LEMMA RunningMap ==
  ASSUME MmuInv, pc \in Running, NEW va \in Used(prog), Accessible(va)
  PROVE  /\ plain[DescPa] \in Descs
         /\ map[PageOf(va)] = MapOf[plain[DescPa]][PageOf(va)]
         /\ Phys(map, va) = Phys(MapOf[plain[DescPa]], va)
<1>1. plain[DescPa] \in Descs
  BY DEF MmuInv, Tables, DescAt
<1>2. prog \in Programs
  BY DEF MmuInv, Typed
<1>3. PageOf(va) \in VPages
  BY <1>2, UsedWords
<1>4. map[PageOf(va)] = MapOf[plain[DescPa]][PageOf(va)]
  <2>1. CASE pc \in Remapping
    <3>1. PageOf(va) # FreePage
      BY <2>1 DEF Accessible
    <3>2. PICK d \in Descs : map = Busy(MapOf[d])
      BY <2>1 DEF MmuInv, Phased
    <3>3. map[PageOf(va)] = MapOf[d][PageOf(va)]
      BY <1>3, <3>1, <3>2, BusyParts
    <3> QED BY <1>1, <1>3, <3>1, <3>3, MapElsewhere
  <2>2. CASE pc = "idle"
    <3>1. map = MapOf[next]
      BY <2>2 DEF MmuInv, Phased
    <3>2. plain[DescPa] = next
      BY <2>2 DEF MmuInv, Tables, DescAt
    <3> QED BY <3>1, <3>2
  <2> QED BY <2>1, <2>2 DEF Running
<1> QED BY <1>1, <1>4 DEF Phys

\* The access bits of the entries.
LEMMA MeaningBits ==
  ASSUME NEW g \in Programs, NEW d \in Descs, NEW va \in Used(g), Meaning(d, va) # NoEntry
  PROVE  /\ Meaning(d, va).c \in BOOLEAN /\ Meaning(d, va).b \in BOOLEAN
         /\ tlb_va_to_pa(Meaning(d, va), va) = Phys(MapOf[d], va)
<1>1. Agrees(g, d, va)
  BY MapAssumption
<1> QED BY <1>1 DEF Agrees

\* Who may access.
LEMMA MeaningRights ==
  ASSUME NEW g \in Programs, NEW d \in Descs, NEW va \in Used(g), NEW bits \in g.controls,
         NEW user \in BOOLEAN
  PROVE  /\ user \in MapOf[d][PageOf(va)].read
              <=> /\ Meaning(d, va) # NoEntry
                  /\ check_access(bits \cup {"W"}, Access, Meaning(d, va), user, TRUE)
         /\ user \in MapOf[d][PageOf(va)].write
              <=> /\ Meaning(d, va) # NoEntry
                  /\ check_access(bits \cup {"W"}, Access, Meaning(d, va), user, FALSE)
<1>1. Agrees(g, d, va)
  BY MapAssumption
<1> QED BY <1>1, Zenon DEF Agrees

\* A translation through a TLB: what it finds, that the TLB stays fine, whom the
\* access is refused and the physical word.
LEMMA Accessed ==
  ASSUME MmuInv, pc \in Running, NEW va \in Used(prog), Accessible(va),
         NEW t, NEW stale, Fine(t, prog.size["tlb"], prog, plain[DescPa], stale),
         pc = "idle" => ~stale, NEW user \in BOOLEAN
  PROVE  LET tr == Translation(t, va)
         IN /\ tr.entry = Meaning(plain[DescPa], va)
            /\ Fine(tr.tlb, prog.size["tlb"], prog, plain[DescPa], stale)
            /\ Faults(tr, user, TRUE) <=> ~P!Readable(va, user)
            /\ Faults(tr, user, FALSE) <=> ~P!Writable(va, user)
            /\ tr.entry # NoEntry => /\ PaOf(tr, va) = Phys(map, va)
                                     /\ tr.entry.c \in BOOLEAN /\ tr.entry.b \in BOOLEAN
<1> DEFINE tr == Translation(t, va)
           cur == plain[DescPa]
           e == Meaning(cur, va)
<1>1. prog \in Programs /\ prog.size["tlb"] \in Nat \ {0} /\ cur \in Descs
  BY ProgramParts DEF MmuInv, Typed, Tables, DescAt
<1>2. TablesIn(mem, prog)
  BY DEF MmuInv, Tables, DescAt
<1>3. PageOf(va) = FreePage => pc = "idle"
  BY DEF Accessible, Running
<1>4. pc = "idle" => mem[DescPa] = cur
  BY DEF MmuInv, Tables, DescAt
<1>5. ttb = Table /\ dacr = Access /\ \E bits \in prog.controls : control = bits \cup {"W"}
  <2>1. pc \in OnPcs /\ pc # "boot" /\ pc \notin {"boot", "boot2"}
    BY DEF Running, Remapping, OnPcs
  <2> QED BY <2>1 DEF MmuInv, Phased
<1> HIDE DEF cur
<1>6. tr.entry = e /\ Fine(tr.tlb, prog.size["tlb"], prog, cur, stale)
  <2>1. PageOf(va) = FreePage => ~stale /\ mem[DescPa] = cur
    BY <1>3, <1>4
  <2>2. tr = translate(t, mem, Table, va)
    BY <1>5 DEF Translation
  <2>3. Fine(t, prog.size["tlb"], prog, cur, stale)
    BY DEF cur
  <2> HIDE DEF tr, e
  <2> QED BY <1>1, <1>2, <2>1, <2>2, <2>3, Translate DEF e
<1> HIDE DEF tr
<1>7. map[PageOf(va)] = MapOf[cur][PageOf(va)] /\ Phys(map, va) = Phys(MapOf[cur], va)
  BY RunningMap DEF cur
<1>8. PICK bits \in prog.controls : control = bits \cup {"W"}
  BY <1>5
<1>9. ASSUME NEW rd \in BOOLEAN
      PROVE  Faults(tr, user, rd)
             <=> ~(e # NoEntry /\ check_access(bits \cup {"W"}, Access, e, user, rd))
  BY <1>5, <1>6, <1>8 DEF Faults
<1>10. P!Readable(va, user) <=> user \in MapOf[cur][PageOf(va)].read
  BY <1>7 DEF P!Readable, P!Mapping, PageOf
<1>11. P!Writable(va, user) <=> user \in MapOf[cur][PageOf(va)].write
  BY <1>7 DEF P!Writable, P!Mapping, PageOf
<1>12. /\ user \in MapOf[cur][PageOf(va)].read
              <=> e # NoEntry /\ check_access(bits \cup {"W"}, Access, e, user, TRUE)
       /\ user \in MapOf[cur][PageOf(va)].write
              <=> e # NoEntry /\ check_access(bits \cup {"W"}, Access, e, user, FALSE)
  BY <1>1, MeaningRights
<1>13. tr.entry # NoEntry => PaOf(tr, va) = Phys(map, va)
  <2> SUFFICES ASSUME tr.entry # NoEntry PROVE PaOf(tr, va) = Phys(map, va)
    OBVIOUS
  <2>1. PaOf(tr, va) = tlb_va_to_pa(e, va)
    BY <1>6 DEF PaOf
  <2> QED BY <1>1, <1>6, <1>7, <2>1, MeaningBits
<1>14. tr.entry # NoEntry => tr.entry.c \in BOOLEAN /\ tr.entry.b \in BOOLEAN
  BY <1>1, <1>6, MeaningBits
<1> HIDE DEF e
<1>15. /\ Faults(tr, user, TRUE) <=> ~P!Readable(va, user)
       /\ Faults(tr, user, FALSE) <=> ~P!Writable(va, user)
  BY <1>9, <1>10, <1>11, <1>12, Zenon
<1> QED BY <1>6, <1>13, <1>14, <1>15 DEF tr, e, cur

-----------------------------------------------------------------------------
(* Steps that store nothing *)

\* From cache c, buffer b and memory m to d, e and n words only move towards memory:
\* nothing is newly dirty or buffered, what leaves the buffer is in memory, and
\* what neither of the two holds is there as well.
Settled(c, b, m, d, e, n, pl) ==
  \A a \in DOMAIN Loaded :
    /\ n[a] = m[a] \/ n[a] = pl[a]
    /\ DirtyPlaces(d, a) # {} => DirtyPlaces(c, a) # {}
    /\ Buffered(e, a) => Buffered(b, a) /\ LastBuffered(e, a) = LastBuffered(b, a)
    /\ Buffered(b, a) /\ ~Buffered(e, a) => n[a] = pl[a]
    /\ DirtyPlaces(d, a) = {} /\ ~Buffered(e, a) => n[a] = pl[a]

\* An operation on the data cache settles.
LEMMA SettledCache ==
  ASSUME NEW c, NEW b, NEW m, NEW d, NEW n, NEW pl, Complete(c, b, m, pl), Purged(c, m, d, n, pl)
  PROVE  Settled(c, b, m, d, b, n, pl)
<1> SUFFICES ASSUME NEW a \in DOMAIN Loaded
             PROVE  /\ n[a] = m[a] \/ n[a] = pl[a]
                    /\ DirtyPlaces(d, a) # {} => DirtyPlaces(c, a) # {}
                    /\ DirtyPlaces(d, a) = {} /\ ~Buffered(b, a) => n[a] = pl[a]
  BY DEF Settled
<1>1. /\ n[a] = m[a] \/ n[a] = pl[a]
      /\ DirtyPlaces(d, a) # {} => DirtyPlaces(c, a) # {}
      /\ DirtyPlaces(c, a) # {} /\ DirtyPlaces(d, a) = {} => n[a] = pl[a]
  BY DEF Purged
<1>2. DirtyPlaces(c, a) = {} /\ ~Buffered(b, a) => m[a] = pl[a]
  BY DEF Complete
<1> QED BY <1>1, <1>2

\* So does an operation on the instruction cache, which writes words that memory
\* has or should have.
LEMMA SettledOther ==
  ASSUME NEW c, NEW b, NEW m, NEW n, NEW pl, Complete(c, b, m, pl), NEW i, NEW j,
         Purged(i, m, j, n, pl)
  PROVE  Settled(c, b, m, c, b, n, pl)
<1> SUFFICES ASSUME NEW a \in DOMAIN Loaded
             PROVE  /\ n[a] = m[a] \/ n[a] = pl[a]
                    /\ DirtyPlaces(c, a) = {} /\ ~Buffered(b, a) => n[a] = pl[a]
  BY DEF Settled
<1>1. n[a] = m[a] \/ n[a] = pl[a]
  BY DEF Purged
<1>2. DirtyPlaces(c, a) = {} /\ ~Buffered(b, a) => m[a] = pl[a]
  BY DEF Complete
<1> QED BY <1>1, <1>2

\* So does a step that leaves the three alone.
LEMMA SettledNone ==
  ASSUME NEW c, NEW b, NEW m, NEW pl, Complete(c, b, m, pl)
  PROVE  Settled(c, b, m, c, b, m, pl)
BY DEF Settled, Complete

\* So does a drain of the buffer, mmu_wb_drain_all.
LEMMA SettledDrain ==
  ASSUME NEW c, NEW b \in Seq(WbRec), NEW m \in Memory, NEW pl, Complete(c, b, m, pl)
  PROVE  /\ Settled(c, b, m, c, <<>>, mmu_wb_drain_all(b, m), pl)
         /\ mmu_wb_drain_all(b, m) \in Memory
<1>1. Delays(b, pl)
  BY DEF Delays, Complete
<1>2. /\ mmu_wb_drain_all(b, m) \in Memory
      /\ \A a \in DOMAIN Loaded :
           mmu_wb_drain_all(b, m)[a] = IF Buffered(b, a) THEN pl[a] ELSE m[a]
  BY <1>1, DrainedMemory
<1> DEFINE n == mmu_wb_drain_all(b, m)
<1>3. \A a \in DOMAIN Loaded : n[a] = IF Buffered(b, a) THEN pl[a] ELSE m[a]
  BY <1>2
<1> HIDE DEF n
<1>4. ASSUME NEW a \in DOMAIN Loaded
      PROVE  /\ n[a] = m[a] \/ n[a] = pl[a]
             /\ Buffered(b, a) => n[a] = pl[a]
             /\ DirtyPlaces(c, a) = {} => n[a] = pl[a]
  <2>1. n[a] = IF Buffered(b, a) THEN pl[a] ELSE m[a]
    BY <1>3
  <2>2. DirtyPlaces(c, a) = {} /\ ~Buffered(b, a) => m[a] = pl[a]
    BY DEF Complete
  <2> QED BY <2>1, <2>2
<1>5. \A a : ~Buffered(<<>>, a)
  BY EmptyBuffer
<1>6. Settled(c, b, m, c, <<>>, n, pl)
  BY <1>4, <1>5, Zenon DEF Settled
<1> QED BY <1>2, <1>6 DEF n

\* Two such steps make one.
LEMMA SettledTrans ==
  ASSUME NEW c, NEW b, NEW m, NEW d, NEW e, NEW n, NEW f, NEW h, NEW o, NEW pl,
         Settled(c, b, m, d, e, n, pl), Settled(d, e, n, f, h, o, pl)
  PROVE  Settled(c, b, m, f, h, o, pl)
<1> SUFFICES ASSUME NEW a \in DOMAIN Loaded
             PROVE  /\ o[a] = m[a] \/ o[a] = pl[a]
                    /\ DirtyPlaces(f, a) # {} => DirtyPlaces(c, a) # {}
                    /\ Buffered(h, a) => Buffered(b, a) /\ LastBuffered(h, a) = LastBuffered(b, a)
                    /\ Buffered(b, a) /\ ~Buffered(h, a) => o[a] = pl[a]
                    /\ DirtyPlaces(f, a) = {} /\ ~Buffered(h, a) => o[a] = pl[a]
  BY DEF Settled
<1>1. /\ n[a] = m[a] \/ n[a] = pl[a]
      /\ DirtyPlaces(d, a) # {} => DirtyPlaces(c, a) # {}
      /\ Buffered(e, a) => Buffered(b, a) /\ LastBuffered(e, a) = LastBuffered(b, a)
      /\ Buffered(b, a) /\ ~Buffered(e, a) => n[a] = pl[a]
  BY DEF Settled
<1>2. /\ o[a] = n[a] \/ o[a] = pl[a]
      /\ DirtyPlaces(f, a) # {} => DirtyPlaces(d, a) # {}
      /\ Buffered(h, a) => Buffered(e, a) /\ LastBuffered(h, a) = LastBuffered(e, a)
      /\ Buffered(e, a) /\ ~Buffered(h, a) => o[a] = pl[a]
      /\ DirtyPlaces(f, a) = {} /\ ~Buffered(h, a) => o[a] = pl[a]
  BY DEF Settled
<1> QED BY <1>1, <1>2

\* What such a step leaves true of the three.
LEMMA SettledKeeps ==
  ASSUME NEW c, NEW b, NEW m, NEW d, NEW e, NEW n, NEW pl, Settled(c, b, m, d, e, n, pl),
         Complete(c, b, m, pl)
  PROVE  /\ Complete(d, e, n, pl)
         /\ \A C, fr, mp : InMemory(c, b, C, fr, mp) => InMemory(d, e, C, fr, mp)
         /\ \A g \in Programs : TablesIn(m, g) /\ TablesIn(pl, g) => TablesIn(n, g)
         /\ \A g \in Programs : \A q, nx : DescAt(q, nx, b, m, pl) => DescAt(q, nx, e, n, pl)
<1>1. ASSUME NEW a \in DOMAIN Loaded
      PROVE  /\ n[a] = m[a] \/ n[a] = pl[a]
             /\ DirtyPlaces(d, a) # {} => DirtyPlaces(c, a) # {}
             /\ Buffered(e, a) => Buffered(b, a) /\ LastBuffered(e, a) = LastBuffered(b, a)
             /\ Buffered(b, a) /\ ~Buffered(e, a) => n[a] = pl[a]
             /\ DirtyPlaces(d, a) = {} /\ ~Buffered(e, a) => n[a] = pl[a]
  BY DEF Settled
<1>2. Complete(d, e, n, pl)
  BY <1>1 DEF Complete
<1>3. ASSUME NEW C, NEW fr, NEW mp, InMemory(c, b, C, fr, mp)
      PROVE  InMemory(d, e, C, fr, mp)
  BY <1>1, <1>3 DEF InMemory
<1>4. ASSUME NEW g \in Programs, TablesIn(m, g), TablesIn(pl, g)
      PROVE  TablesIn(n, g)
  <2>1. TableWords(g) \subseteq DOMAIN Loaded
    BY TablesAssumption
  <2> QED BY <1>1, <1>4, <2>1 DEF TablesIn
<1>5. ASSUME NEW g \in Programs, NEW q, NEW nx, DescAt(q, nx, b, m, pl)
      PROVE  DescAt(q, nx, e, n, pl)
  <2>1. DescPa \in DOMAIN Loaded
    BY FreeFacts
  <2> QED BY <1>1, <1>5, <2>1 DEF DescAt
<1> QED BY <1>2, <1>3, <1>4, <1>5

\* Without new lines the buffer and the cache stay apart.
LEMMA SeparateFewer ==
  ASSUME NEW c, NEW d, NEW b, Separate(c, b), Fewer(c, d)
  PROVE  Separate(d, b)
BY DEF Separate, Fewer

\* So they do when the one new line is of a page the buffer has no word of.
LEMMA SeparateBut ==
  ASSUME NEW c, NEW d, NEW b, NEW base, Separate(c, b), FewerBut(c, d, base),
         \A k \in DOMAIN b : va_cache_align(b[k].pa) # base
  PROVE  Separate(d, b)
BY DEF Separate, FewerBut

\* An empty buffer is apart from any cache and holds words of any set.
LEMMA SeparateNone ==
  ASSUME NEW c, NEW S, NEW m
  PROVE  Separate(c, <<>>) /\ Delayed(<<>>, S, m)
BY EmptyBuffer DEF Separate, Delayed

\* The state of the caches, the buffer, memory and the TLBs at q, with map m and
\* freshness fr, whatever the registers are.
Sound(q, m, fr, ic, dc, b, M, it, dt) ==
  /\ fr \in [CodePages -> 0 .. 2]
  /\ M \in Memory
  /\ ic \in CacheRec(prog.size["iway"], prog.size["iset"])
  /\ dc \in CacheRec(prog.size["dway"], prog.size["dset"])
  /\ b = wb \/ b = <<>>
  /\ Coherent(ic, IPages(q, prog), m, plain)
  /\ Coherent(dc, DPages(q, prog), m, plain)
  /\ Delayed(b, Delayable(q, prog, plain[DescPa]), m)
  /\ Separate(dc, b)
  /\ Settled(d_cache, wb, mem, dc, b, M, plain)
  /\ InMemory(dc, b, CodePages, fr, m)
  /\ Fine(it, prog.size["tlb"], prog, plain[DescPa], StaleI(q))
  /\ Fine(dt, prog.size["tlb"], prog, plain[DescPa], StaleD(q))

\* A step that stores nothing and leaves the memory system sound keeps the invariant.
LEMMA Moved ==
  ASSUME MmuInv, plain' = plain, prog' = prog, next' \in Descs, pc' \in OffPcs \cup OnPcs,
         Phased', DescAt(pc', next', wb', mem', plain),
         Sound(pc', map', fresh', i_cache', d_cache', wb', mem', i_tlb', d_tlb')
  PROVE  MmuInv'
<1>1. /\ fresh' \in [CodePages -> 0 .. 2] /\ mem' \in Memory
      /\ i_cache' \in CacheRec(prog.size["iway"], prog.size["iset"])
      /\ d_cache' \in CacheRec(prog.size["dway"], prog.size["dset"])
      /\ wb' = wb \/ wb' = <<>>
      /\ Coherent(i_cache', IPages(pc', prog), map', plain)
      /\ Coherent(d_cache', DPages(pc', prog), map', plain)
      /\ Delayed(wb', Delayable(pc', prog, plain[DescPa]), map')
      /\ Separate(d_cache', wb')
      /\ Settled(d_cache, wb, mem, d_cache', wb', mem', plain)
      /\ InMemory(d_cache', wb', CodePages, fresh', map')
      /\ Fine(i_tlb', prog.size["tlb"], prog, plain[DescPa], StaleI(pc'))
      /\ Fine(d_tlb', prog.size["tlb"], prog, plain[DescPa], StaleD(pc'))
  BY DEF Sound
<1>2. CodePages' = CodePages
  BY DEF CodePages
<1>3. Typed'
  <2>1. /\ prog \in Programs /\ plain \in Memory /\ wb \in Seq(WbRec) /\ Len(wb) <= WbNum
    BY DEF MmuInv, Typed
  <2>2. <<>> \in Seq(WbRec) /\ Len(<<>>) <= WbNum
    BY Sizes, EmptyBuffer
  <2>3. wb' = wb \/ wb' = <<>>
    BY <1>1
  <2>4. wb' \in Seq(WbRec) /\ Len(wb') <= WbNum
    BY <2>1, <2>2, <2>3
  <2> QED BY <1>1, <1>2, <2>1, <2>4, Zenon DEF Typed
<1>4. Complete(d_cache, wb, mem, plain) /\ TablesIn(mem, prog) /\ TablesIn(plain, prog)
      /\ prog \in Programs
  BY DEF MmuInv, Coherence, Tables, Typed
<1>5. Complete(d_cache', wb', mem', plain) /\ TablesIn(mem', prog)
  BY <1>1, <1>4, SettledKeeps
<1>6. Coherence'
  BY <1>1, <1>5, Zenon DEF Coherence
<1>7. Freshness'
  BY <1>1, <1>2, Zenon DEF Freshness
<1>8. Tables'
  BY <1>4, <1>5, Zenon DEF Tables
<1>9. Translated'
  BY <1>1, Zenon DEF Translated
<1> QED BY <1>3, <1>6, <1>7, <1>8, <1>9 DEF MmuInv

\* What the invariant says of the memory system before a step.
LEMMA SoundNow ==
  ASSUME MmuInv
  PROVE  Sound(pc, map, fresh, i_cache, d_cache, wb, mem, i_tlb, d_tlb)
<1>1. Complete(d_cache, wb, mem, plain)
  BY DEF MmuInv, Coherence
<1>2. Settled(d_cache, wb, mem, d_cache, wb, mem, plain)
  BY <1>1, SettledNone
<1> QED BY <1>2 DEF MmuInv, Typed, Coherence, Freshness, Translated, Sound

\* A step of the memory system while the system stays where it is.
LEMMA Quiet ==
  ASSUME MmuInv, UNCHANGED <<plain, prog, next, pc, map, ttb, dacr>>,
         control' = control \/ (pc = "idle" /\ \E bits \in prog.controls : control' = bits \cup {"W"}),
         Sound(pc, map, fresh', i_cache', d_cache', wb', mem', i_tlb', d_tlb')
  PROVE  MmuInv'
<1>1. next' \in Descs /\ pc' \in OffPcs \cup OnPcs /\ prog \in Programs
  BY DEF MmuInv, Typed
<1>2. Phased'
  <2>1. Phased
    BY DEF MmuInv
  <2>2. pc = "idle" => pc \in OnPcs /\ pc \notin OffPcs
    BY DEF OnPcs, OffPcs, Running, Remapping
  <2> QED BY <2>1, <2>2 DEF Phased
<1>3. DescAt(pc', next', wb', mem', plain)
  <2>1. DescAt(pc, next, wb, mem, plain) /\ Complete(d_cache, wb, mem, plain)
    BY DEF MmuInv, Tables, Coherence
  <2>2. Settled(d_cache, wb, mem, d_cache', wb', mem', plain)
    BY DEF Sound
  <2>3. DescAt(pc, next, wb', mem', plain)
    BY <1>1, <2>1, <2>2, SettledKeeps
  <2> QED BY <2>3
<1>4. Sound(pc', map', fresh', i_cache', d_cache', wb', mem', i_tlb', d_tlb')
  OBVIOUS
<1> QED BY <1>1, <1>2, <1>3, <1>4, Moved

\* The memory system is sound after ...
\* ... a step of the data cache,
LEMMA SoundDcache ==
  ASSUME MmuInv, NEW r,
         Maintained(d_cache, mem, r, prog.size["dway"], prog.size["dset"], DPages(pc, prog),
                    map, plain)
  PROVE  Sound(pc, map, fresh, i_cache, r.cache, wb, r.mem, i_tlb, d_tlb)
<1>1. /\ Complete(d_cache, wb, mem, plain) /\ Separate(d_cache, wb)
      /\ InMemory(d_cache, wb, CodePages, fresh, map)
  BY DEF MmuInv, Coherence, Freshness
<1>2. /\ r.cache \in CacheRec(prog.size["dway"], prog.size["dset"]) /\ r.mem \in Memory
      /\ Coherent(r.cache, DPages(pc, prog), map, plain)
      /\ Purged(d_cache, mem, r.cache, r.mem, plain)
      /\ Fewer(d_cache, r.cache)
  BY DEF Maintained
<1>3. Settled(d_cache, wb, mem, r.cache, wb, r.mem, plain)
  BY <1>1, <1>2, SettledCache
<1>4. Separate(r.cache, wb) /\ InMemory(r.cache, wb, CodePages, fresh, map)
  BY <1>1, <1>2, <1>3, SeparateFewer, SettledKeeps
<1>5. Sound(pc, map, fresh, i_cache, d_cache, wb, mem, i_tlb, d_tlb)
  BY SoundNow
<1> QED BY <1>2, <1>3, <1>4, <1>5, Zenon DEF Sound

\* ... a step of the instruction cache,
LEMMA SoundIcache ==
  ASSUME MmuInv, NEW ic, NEW M, ic \in CacheRec(prog.size["iway"], prog.size["iset"]), M \in Memory,
         Coherent(ic, IPages(pc, prog), map, plain), Purged(i_cache, mem, ic, M, plain)
  PROVE  Sound(pc, map, fresh, ic, d_cache, wb, M, i_tlb, d_tlb)
<1>1. Complete(d_cache, wb, mem, plain)
  BY DEF MmuInv, Coherence
<1>2. Settled(d_cache, wb, mem, d_cache, wb, M, plain)
  BY <1>1, SettledOther
<1>3. Sound(pc, map, fresh, i_cache, d_cache, wb, mem, i_tlb, d_tlb)
  BY SoundNow
<1> QED BY <1>2, <1>3, Zenon DEF Sound

\* ... a drain of the buffer,
LEMMA SoundDrain ==
  ASSUME MmuInv
  PROVE  Sound(pc, map, fresh, i_cache, d_cache, <<>>, mmu_wb_drain_all(wb, mem), i_tlb, d_tlb)
<1>1. /\ Complete(d_cache, wb, mem, plain) /\ wb \in Seq(WbRec) /\ mem \in Memory
      /\ InMemory(d_cache, wb, CodePages, fresh, map)
  BY DEF MmuInv, Coherence, Typed, Freshness
<1>2. /\ Settled(d_cache, wb, mem, d_cache, <<>>, mmu_wb_drain_all(wb, mem), plain)
      /\ mmu_wb_drain_all(wb, mem) \in Memory
  BY <1>1, SettledDrain
<1>3. InMemory(d_cache, <<>>, CodePages, fresh, map)
  BY <1>1, <1>2, SettledKeeps
<1>4. Sound(pc, map, fresh, i_cache, d_cache, wb, mem, i_tlb, d_tlb)
  BY SoundNow
<1>5. Separate(d_cache, <<>>) /\ Delayed(<<>>, Delayable(pc, prog, plain[DescPa]), map)
  BY SeparateNone
<1> QED BY <1>2, <1>3, <1>4, <1>5, Zenon DEF Sound

\* ... and a change of the TLBs.
LEMMA SoundTlbs ==
  ASSUME NEW q, NEW m, NEW fr, NEW ic, NEW dc, NEW b, NEW M, NEW it, NEW dt, NEW jt, NEW et,
         Sound(q, m, fr, ic, dc, b, M, it, dt),
         Fine(jt, prog.size["tlb"], prog, plain[DescPa], StaleI(q)),
         Fine(et, prog.size["tlb"], prog, plain[DescPa], StaleD(q))
  PROVE  Sound(q, m, fr, ic, dc, b, M, jt, et)
BY Zenon DEF Sound

\* What the invariant says of the two caches.
LEMMA CacheFacts ==
  ASSUME MmuInv
  PROVE  /\ prog \in Programs /\ mem \in Memory /\ plain \in Memory
         /\ Sized(prog.size["iway"], prog.size["iset"]) /\ Sized(prog.size["dway"], prog.size["dset"])
         /\ i_cache \in CacheRec(prog.size["iway"], prog.size["iset"])
         /\ d_cache \in CacheRec(prog.size["dway"], prog.size["dset"])
         /\ Coherent(i_cache, IPages(pc, prog), map, plain)
         /\ Coherent(d_cache, DPages(pc, prog), map, plain)
BY ProgramParts DEF MmuInv, Typed, Coherence

\* A clean followed by an invalidation, by virtual address and by place.
LEMMA MaintainedBoth ==
  ASSUME NEW w, NEW s, Sized(w, s), NEW c \in CacheRec(w, s), NEW V, NEW m, NEW pl,
         Coherent(c, V, m, pl), NEW old \in Memory, NEW va \in Nat
  PROVE  LET k == mmu_cache_clean(c, old, va)
             r == mmu_cache_invalidate(k.cache, k.mem, va)
         IN /\ Maintained(c, old, r, w, s, V, m, pl)
            /\ \A p \in Places(r.cache) : r.cache.lines[p].valid
                                          => r.cache.lines[p].tag # va_cache_align(va)
<1> DEFINE k == mmu_cache_clean(c, old, va)
<1>1. Maintained(c, old, k, w, s, V, m, pl)
  BY MaintainedClean, Zenon
<1> HIDE DEF k
<1>2. k.cache \in CacheRec(w, s) /\ k.mem \in Memory /\ Coherent(k.cache, V, m, pl)
  BY <1>1 DEF Maintained
<1> DEFINE r == mmu_cache_invalidate(k.cache, k.mem, va)
<1>3. /\ Maintained(k.cache, k.mem, r, w, s, V, m, pl)
      /\ \A p \in Places(k.cache) : r.cache.lines[p].valid
                                    => r.cache.lines[p].tag # va_cache_align(va)
  BY <1>2, MaintainedInvalidate, Zenon
<1> HIDE DEF r
<1>4. Maintained(c, old, r, w, s, V, m, pl)
  BY <1>1, <1>3, MaintainedTrans
<1>5. Places(k.cache) = Grid(w, s)
  BY <1>2, CacheParts
<1>6. Places(r.cache) = Grid(w, s)
  <2>1. r.cache \in CacheRec(w, s)
    BY <1>4 DEF Maintained
  <2> QED BY <2>1, CacheParts
<1>7. \A p \in Places(r.cache) : r.cache.lines[p].valid
                                  => r.cache.lines[p].tag # va_cache_align(va)
  BY <1>3, <1>5, <1>6
<1> QED BY <1>4, <1>7 DEF r, k

\* By place.
LEMMA MaintainedPlace ==
  ASSUME NEW w, NEW s, Sized(w, s), NEW c \in CacheRec(w, s), NEW V, NEW m, NEW pl,
         Coherent(c, V, m, pl), NEW old \in Memory, NEW p \in Places(c)
  PROVE  LET k == CleanPlace(c, old, p)
         IN /\ Maintained(c, old, k, w, s, V, m, pl)
            /\ Maintained(c, old, InvalidatePlace(k.cache, k.mem, p), w, s, V, m, pl)
<1> DEFINE k == Replace(c, old, p, Cleaned(c.lines[p]))
<1>1. Maintained(c, old, k, w, s, V, m, pl)
  BY MaintainedReplace, Zenon
<1> HIDE DEF k
<1>2. k.cache \in CacheRec(w, s) /\ k.mem \in Memory /\ Coherent(k.cache, V, m, pl)
  BY <1>1 DEF Maintained
<1>3. p \in Places(k.cache)
  BY <1>2, CacheParts
<1>4. Maintained(k.cache, k.mem, Replace(k.cache, k.mem, p, NoLine), w, s, V, m, pl)
  BY <1>2, <1>3, MaintainedReplace, Zenon
<1>5. Maintained(c, old, Replace(k.cache, k.mem, p, NoLine), w, s, V, m, pl)
  BY <1>1, <1>4, MaintainedTrans, Zenon
<1> QED BY <1>1, <1>5, Zenon DEF k, CleanPlace, InvalidatePlace

\* Page u shares its words with no page of V, and its lines are clean.
OnlyPage(V, m, u) ==
  \A v \in V : v \in Nat /\ m[v].page \in Nat /\ (m[v].page = m[u].page => v = u)
CleanLines(c, u) ==
  \A p \in Places(c) : /\ c.lines[p].valid
                       /\ c.lines[p].tag = u * PageWords
                       => c.lines[p].dirty = {}

\* Such a page has no dirty word.
LEMMA CleanPage ==
  ASSUME NEW c, NEW V, NEW m, NEW pl, Coherent(c, V, m, pl), NEW u \in Nat, m[u].page \in Nat,
         OnlyPage(V, m, u), CleanLines(c, u), NEW a \in DOMAIN Loaded, PageOf(a) = m[u].page
  PROVE  DirtyPlaces(c, a) = {}
<1> SUFFICES ASSUME NEW p \in DirtyPlaces(c, a)
             PROVE  FALSE
  OBVIOUS
<1>1. /\ p \in Places(c) /\ c.lines[p].valid /\ c.lines[p].pa = va_cache_align(a)
      /\ c.lines[p].dirty # {}
  BY DEF DirtyPlaces
<1>2. Holds(c.lines[p], V, m, pl)
  BY <1>1 DEF Coherent
<1>3. PICK v \in V : c.lines[p].tag = v * PageWords /\ c.lines[p].pa = m[v].page * PageWords
  BY <1>2 DEF Holds
<1>4. a \in Nat
  BY GuestAssumption
<1>5. va_cache_align(a) = m[u].page * PageWords
  BY <1>4, WordParts
<1>6. m[v].page \in Nat /\ (m[v].page = m[u].page => v = u)
  BY DEF OnlyPage
<1>7. m[v].page * PageWords = m[u].page * PageWords
  BY <1>1, <1>3, <1>5
<1>8. v = u
  BY <1>6, <1>7, PageStart, Zenon
<1> QED BY <1>1, <1>3, <1>8 DEF CleanLines

\* A maintenance operation on the instruction cache keeps the invariant,
LEMMA QuietIcache ==
  ASSUME MmuInv, NEW r,
         Maintained(i_cache, mem, r, prog.size["iway"], prog.size["iset"], IPages(pc, prog),
                    map, plain),
         OnIcache(r), UNCHANGED <<guest, plain, map>>
  PROVE  MmuInv'
<1>1. /\ r.cache \in CacheRec(prog.size["iway"], prog.size["iset"]) /\ r.mem \in Memory
      /\ Coherent(r.cache, IPages(pc, prog), map, plain)
      /\ Purged(i_cache, mem, r.cache, r.mem, plain)
  BY DEF Maintained
<1>2. Sound(pc, map, fresh, r.cache, d_cache, wb, r.mem, i_tlb, d_tlb)
  BY <1>1, SoundIcache
<1>3. /\ i_cache' = r.cache /\ mem' = r.mem
      /\ UNCHANGED <<control, ttb, dacr, i_tlb, d_tlb, d_cache, wb, prog, pc, next, fresh, plain, map>>
  BY DEF OnIcache, regs, guest
<1>4. Sound(pc, map, fresh', i_cache', d_cache', wb', mem', i_tlb', d_tlb')
  BY <1>2, <1>3
<1> QED BY <1>3, <1>4, Quiet

\* so does one on the data cache,
LEMMA QuietDcache ==
  ASSUME MmuInv, NEW r,
         Maintained(d_cache, mem, r, prog.size["dway"], prog.size["dset"], DPages(pc, prog),
                    map, plain),
         OnDcache(r), UNCHANGED <<guest, plain, map>>
  PROVE  MmuInv'
<1>1. Sound(pc, map, fresh, i_cache, r.cache, wb, r.mem, i_tlb, d_tlb)
  BY SoundDcache
<1>2. /\ d_cache' = r.cache /\ mem' = r.mem
      /\ UNCHANGED <<control, ttb, dacr, i_tlb, d_tlb, i_cache, wb, prog, pc, next, fresh, plain, map>>
  BY DEF OnDcache, regs, guest
<1>3. Sound(pc, map, fresh', i_cache', d_cache', wb', mem', i_tlb', d_tlb')
  BY <1>1, <1>2
<1> QED BY <1>2, <1>3, Quiet

\* and one on the TLBs.
LEMMA QuietTlbs ==
  ASSUME MmuInv, NEW it, NEW dt,
         Fine(it, prog.size["tlb"], prog, plain[DescPa], StaleI(pc)),
         Fine(dt, prog.size["tlb"], prog, plain[DescPa], StaleD(pc)),
         OnTlbs(it, dt), UNCHANGED <<guest, plain, map>>
  PROVE  MmuInv'
<1>1. Sound(pc, map, fresh, i_cache, d_cache, wb, mem, i_tlb, d_tlb)
  BY SoundNow
<1>2. Sound(pc, map, fresh, i_cache, d_cache, wb, mem, it, dt)
  BY <1>1, SoundTlbs
<1>3. /\ i_tlb' = it /\ d_tlb' = dt
      /\ UNCHANGED <<control, ttb, dacr, mem, d_cache, i_cache, wb, prog, pc, next, fresh, plain, map>>
  BY DEF OnTlbs, regs, guest
<1>4. Sound(pc, map, fresh', i_cache', d_cache', wb', mem', i_tlb', d_tlb')
  BY <1>2, <1>3
<1> QED BY <1>3, <1>4, Quiet

\* The invalidation of both caches leaves them empty and the memory system sound.
LEMMA SoundCaches ==
  ASSUME MmuInv
  PROVE  LET i == mmu_cache_invalidate_all(i_cache, mem)
             d == mmu_cache_invalidate_all(d_cache, i.mem)
         IN /\ Sound(pc, map, fresh, i.cache, d.cache, wb, d.mem, i_tlb, d_tlb)
            /\ \A p \in Places(i.cache) : ~i.cache.lines[p].valid
            /\ \A p \in Places(d.cache) : ~d.cache.lines[p].valid
            /\ \A a : DirtyPlaces(d.cache, a) = {}
<1> DEFINE i == mmu_cache_invalidate_all(i_cache, mem)
<1>1. /\ Maintained(i_cache, mem, i, prog.size["iway"], prog.size["iset"], IPages(pc, prog), map, plain)
      /\ \A p \in Places(i.cache) : ~i.cache.lines[p].valid
  BY CacheFacts, MaintainedEmpty, Zenon
<1> HIDE DEF i
<1>2. /\ i.cache \in CacheRec(prog.size["iway"], prog.size["iset"]) /\ i.mem \in Memory
      /\ Coherent(i.cache, IPages(pc, prog), map, plain)
      /\ Purged(i_cache, mem, i.cache, i.mem, plain)
  BY <1>1 DEF Maintained
<1>3. /\ Complete(d_cache, wb, mem, plain) /\ Separate(d_cache, wb)
      /\ InMemory(d_cache, wb, CodePages, fresh, map)
  BY DEF MmuInv, Coherence, Freshness
<1>4. Settled(d_cache, wb, mem, d_cache, wb, i.mem, plain)
  BY <1>2, <1>3, SettledOther
<1>5. Complete(d_cache, wb, i.mem, plain)
  BY <1>3, <1>4, SettledKeeps
<1> DEFINE d == mmu_cache_invalidate_all(d_cache, i.mem)
<1>6. /\ Maintained(d_cache, i.mem, d, prog.size["dway"], prog.size["dset"], DPages(pc, prog), map, plain)
      /\ \A p \in Places(d.cache) : ~d.cache.lines[p].valid
      /\ \A a : DirtyPlaces(d.cache, a) = {}
  BY <1>2, CacheFacts, MaintainedEmpty, Zenon
<1> HIDE DEF d
<1>7. /\ d.cache \in CacheRec(prog.size["dway"], prog.size["dset"]) /\ d.mem \in Memory
      /\ Coherent(d.cache, DPages(pc, prog), map, plain)
      /\ Purged(d_cache, i.mem, d.cache, d.mem, plain)
      /\ Fewer(d_cache, d.cache)
  BY <1>6 DEF Maintained
<1>8. Settled(d_cache, wb, i.mem, d.cache, wb, d.mem, plain)
  BY <1>5, <1>7, SettledCache
<1>9. Settled(d_cache, wb, mem, d.cache, wb, d.mem, plain)
  BY <1>4, <1>8, SettledTrans
<1>10. Separate(d.cache, wb) /\ InMemory(d.cache, wb, CodePages, fresh, map)
  BY <1>3, <1>7, <1>9, SeparateFewer, SettledKeeps
<1>11. Sound(pc, map, fresh, i_cache, d_cache, wb, mem, i_tlb, d_tlb)
  BY SoundNow
<1>12. Sound(pc, map, fresh, i.cache, d.cache, wb, d.mem, i_tlb, d_tlb)
  BY <1>2, <1>7, <1>9, <1>10, <1>11, Zenon DEF Sound
<1> QED BY <1>1, <1>6, <1>12, Zenon DEF i, d

\* TLBs after an invalidation.
LEMMA TlbsFine ==
  ASSUME MmuInv
  PROVE  /\ Fine(i_tlb, prog.size["tlb"], prog, plain[DescPa], StaleI(pc))
         /\ Fine(d_tlb, prog.size["tlb"], prog, plain[DescPa], StaleD(pc))
         /\ \A stale : /\ Fine(mmu_tlb_invalidate_all(i_tlb), prog.size["tlb"], prog, plain[DescPa], stale)
                       /\ Fine(mmu_tlb_invalidate_all(d_tlb), prog.size["tlb"], prog, plain[DescPa], stale)
         /\ prog \in Programs /\ prog.size["tlb"] \in Nat \ {0}
<1>1. prog \in Programs
  BY DEF MmuInv, Typed
<1>2. prog.size["tlb"] \in Nat \ {0}
  BY <1>1, ProgramParts
<1>3. /\ Fine(i_tlb, prog.size["tlb"], prog, plain[DescPa], StaleI(pc))
      /\ Fine(d_tlb, prog.size["tlb"], prog, plain[DescPa], StaleD(pc))
  BY DEF MmuInv, Translated
<1>4. i_tlb.num = prog.size["tlb"] /\ d_tlb.num = prog.size["tlb"]
  BY <1>3 DEF Fine
<1>5. ASSUME NEW stale
      PROVE  Fine(mmu_tlb_init(prog.size["tlb"]), prog.size["tlb"], prog, plain[DescPa], stale)
  BY <1>1, <1>2, TlbEmpty
<1> QED BY <1>1, <1>2, <1>3, <1>4, <1>5 DEF mmu_tlb_invalidate_all

\* The pages the caches may hold lines of.
LEMMA PagesAt ==
  ASSUME NEW q, NEW g
  PROVE  /\ q = "idle" => DPages(q, g) = UsedPages(g)
         /\ q \in Remapping => DPages(q, g) = UsedPages(g) \ {FreePage}
         /\ q \notin Running => DPages(q, g) = {}
         /\ q \in Running => IPages(q, g) = UsedPages(g) \cap g.code
         /\ q \in {"boot", "boot2", "off"} => IPages(q, g) = {PageOf(va) : va \in g.store}
         /\ q \in {"on1", "on2", "off1", "off2"} => IPages(q, g) = {}
<1>1. /\ "idle" \notin Remapping
      /\ \A x \in {"boot", "boot2", "off"} : x \notin Running
      /\ \A x \in {"on1", "on2", "off1", "off2"} : x \notin Running /\ x \notin {"boot", "boot2", "off"}
  BY DEF Running, Remapping
<1>2. q \in Running <=> q = "idle" \/ q \in Remapping
  BY DEF Running
<1>3. /\ q = "idle" => DPages(q, g) = UsedPages(g)
      /\ q \in Remapping => DPages(q, g) = UsedPages(g) \ {FreePage}
      /\ q \notin Running => DPages(q, g) = {}
  BY <1>1, <1>2, Zenon DEF DPages
<1>4. /\ q \in Running => IPages(q, g) = UsedPages(g) \cap g.code
      /\ q \in {"boot", "boot2", "off"} => IPages(q, g) = {PageOf(va) : va \in g.store}
      /\ q \in {"on1", "on2", "off1", "off2"} => IPages(q, g) = {}
  BY <1>1, Zenon DEF IPages
<1> QED BY <1>3, <1>4, Zenon

\* Where pc is idle every access is to the map the system means.
LEMMA IdleFacts ==
  ASSUME MmuInv, pc = "idle"
  PROVE  /\ LikeMap(map) /\ DPages(pc, prog) = UsedPages(prog)
         /\ IPages(pc, prog) = UsedPages(prog) \cap prog.code
<1>1. LikeMap(map)
  BY OnMap DEF OnPcs, Running
<1> QED BY <1>1, PagesAt, Zenon DEF Running

\* A clean of a code page makes it clean.
LEMMA CleanCodePage ==
  ASSUME MmuInv, pc = "idle", NEW p \in CodePages, CleanDcacheEntry(p * PageWords),
         fresh' = Cleaned1(p), UNCHANGED <<prog, pc, next, plain, map>>
  PROVE  MmuInv'
<1> DEFINE r == mmu_cache_clean(d_cache, mem, p * PageWords)
<1>1. /\ prog \in Programs /\ p \in Nat /\ p \in VPages /\ p \in prog.code
      /\ DPages(pc, prog) = UsedPages(prog) /\ LikeMap(map)
      /\ p * PageWords \in Nat /\ va_cache_align(p * PageWords) = p * PageWords
  BY CacheFacts, ProgramParts, IdleFacts, PageStart DEF CodePages
<1>2. /\ Maintained(d_cache, mem, r, prog.size["dway"], prog.size["dset"], DPages(pc, prog), map, plain)
      /\ \A q \in Places(d_cache) : /\ r.cache.lines[q].valid
                                    /\ r.cache.lines[q].tag = va_cache_align(p * PageWords)
                                    => r.cache.lines[q].dirty = {}
  BY <1>1, CacheFacts, MaintainedClean, Zenon
<1>3. d_cache' = r.cache /\ mem' = r.mem
      /\ UNCHANGED <<control, ttb, dacr, i_tlb, d_tlb, i_cache, wb>>
  BY DEF CleanDcacheEntry, OnDcache, regs
<1> HIDE DEF r
<1>4. Sound(pc, map, fresh, i_cache, r.cache, wb, r.mem, i_tlb, d_tlb)
  BY <1>2, SoundDcache
<1>5. /\ fresh \in [CodePages -> 0 .. 2] /\ InMemory(r.cache, wb, CodePages, fresh, map)
      /\ r.cache \in CacheRec(prog.size["dway"], prog.size["dset"])
      /\ Coherent(r.cache, UsedPages(prog), map, plain)
  BY <1>1, <1>4 DEF Sound
<1>6. Places(r.cache) = Places(d_cache)
  BY <1>5, CacheFacts, CacheParts
<1>7. ASSUME NEW a \in DOMAIN Loaded, PageOf(a) = map[p].page
      PROVE  DirtyPlaces(r.cache, a) = {}
  <2>1. map[p].page \in Nat
    BY <1>1, LikeMapped
  <2>2. OnlyPage(UsedPages(prog), map, p)
    <3> SUFFICES ASSUME NEW v \in UsedPages(prog)
                 PROVE  v \in Nat /\ map[v].page \in Nat /\ (map[v].page = map[p].page => v = p)
      BY DEF OnlyPage
    <3>1. PICK va \in Used(prog) : v = PageOf(va)
      BY DEF UsedPages
    <3>2. Apart(UsedPages(prog) \cup prog.code, map, va) /\ map[PageOf(va)].page \in Nat
      BY <1>1, LikeMapped
    <3>3. PageOf(va) \in Nat
      BY <1>1, UsedWords
    <3> QED BY <1>1, <3>1, <3>2, <3>3 DEF Apart
  <2>3. CleanLines(r.cache, p)
    BY <1>1, <1>2, <1>6 DEF CleanLines
  <2> QED BY <1>1, <1>5, <1>7, <2>1, <2>2, <2>3, CleanPage, Zenon
<1>8. fresh' \in [CodePages -> 0 .. 2]
  BY <1>5 DEF Cleaned1
<1>9. InMemory(r.cache, wb, CodePages, fresh', map)
  <2> SUFFICES ASSUME NEW q \in CodePages, NEW a \in DOMAIN Loaded, PageOf(a) = map[q].page
               PROVE  /\ fresh'[q] # 0 => DirtyPlaces(r.cache, a) = {}
                      /\ fresh'[q] = 2 => ~Buffered(wb, a)
    BY DEF InMemory
  <2>1. /\ fresh[q] # 0 => DirtyPlaces(r.cache, a) = {}
        /\ fresh[q] = 2 => ~Buffered(wb, a)
    BY <1>5 DEF InMemory
  <2>2. fresh'[q] = IF q = p /\ fresh[q] = 0 THEN 1 ELSE fresh[q]
    BY DEF Cleaned1
  <2> QED BY <1>7, <2>1, <2>2
<1>10. Sound(pc, map, fresh', i_cache, r.cache, wb, r.mem, i_tlb, d_tlb)
  BY <1>4, <1>8, <1>9, Zenon DEF Sound
<1>11. Sound(pc, map, fresh', i_cache', d_cache', wb', mem', i_tlb', d_tlb')
  BY <1>3, <1>10
<1> QED BY <1>3, <1>11, Quiet

\* A drain makes the pages that were cleaned drained.
LEMMA DrainedPages ==
  ASSUME NEW c, NEW b, NEW mp, fresh \in [CodePages -> 0 .. 2], InMemory(c, b, CodePages, fresh, mp)
  PROVE  Drained \in [CodePages -> 0 .. 2] /\ InMemory(c, <<>>, CodePages, Drained, mp)
<1>1. Drained \in [CodePages -> 0 .. 2]
  BY DEF Drained
<1>2. ASSUME NEW q \in CodePages, NEW a \in DOMAIN Loaded, PageOf(a) = mp[q].page, Drained[q] # 0
      PROVE  DirtyPlaces(c, a) = {}
  <2>1. fresh[q] # 0 => DirtyPlaces(c, a) = {}
    BY <1>2 DEF InMemory
  <2>2. Drained[q] = IF fresh[q] = 1 THEN 2 ELSE fresh[q]
    BY DEF Drained
  <2> QED BY <1>2, <2>1, <2>2
<1>3. \A a : ~Buffered(<<>>, a)
  BY EmptyBuffer
<1>4. InMemory(c, <<>>, CodePages, Drained, mp)
  BY <1>2, <1>3, Zenon DEF InMemory
<1> QED BY <1>1, <1>4

\* The memory system is sound after a drain that the code pages know of.
LEMMA SoundDrained ==
  ASSUME MmuInv
  PROVE  Sound(pc, map, Drained, i_cache, d_cache, <<>>, mmu_wb_drain_all(wb, mem), i_tlb, d_tlb)
<1>1. Sound(pc, map, fresh, i_cache, d_cache, <<>>, mmu_wb_drain_all(wb, mem), i_tlb, d_tlb)
  BY SoundDrain
<1>2. fresh \in [CodePages -> 0 .. 2] /\ InMemory(d_cache, wb, CodePages, fresh, map)
  BY DEF MmuInv, Typed, Freshness
<1>3. Drained \in [CodePages -> 0 .. 2] /\ InMemory(d_cache, <<>>, CodePages, Drained, map)
  BY <1>2, DrainedPages
<1> QED BY <1>1, <1>3, Zenon DEF Sound

\* Maintenance outside the system's sequences keeps the invariant.
LEMMA MaintainStep ==
  ASSUME MmuInv, Maintain
  PROVE  MmuInv'
<1>1. pc = "idle" /\ UNCHANGED <<prog, pc, next, plain, map>>
  BY DEF Maintain
<1>2. ASSUME UNCHANGED fresh PROVE UNCHANGED <<guest, plain, map>>
  BY <1>1, <1>2 DEF guest
<1>3. CASE InvalidateIcache /\ UNCHANGED fresh
  <2>1. Maintained(i_cache, mem, mmu_cache_invalidate_all(i_cache, mem), prog.size["iway"],
                   prog.size["iset"], IPages(pc, prog), map, plain)
    BY CacheFacts, MaintainedEmpty, Zenon
  <2> QED BY <1>2, <1>3, <2>1, QuietIcache, Zenon DEF InvalidateIcache
<1>4. CASE InvalidateDcache /\ UNCHANGED fresh
  <2>1. Maintained(d_cache, mem, mmu_cache_invalidate_all(d_cache, mem), prog.size["dway"],
                   prog.size["dset"], DPages(pc, prog), map, plain)
    BY CacheFacts, MaintainedEmpty, Zenon
  <2> QED BY <1>2, <1>4, <2>1, QuietDcache, Zenon DEF InvalidateDcache
<1>5. CASE InvalidateCaches /\ UNCHANGED fresh
  <2> DEFINE i == mmu_cache_invalidate_all(i_cache, mem)
             d == mmu_cache_invalidate_all(d_cache, i.mem)
  <2>1. Sound(pc, map, fresh, i.cache, d.cache, wb, d.mem, i_tlb, d_tlb)
    BY SoundCaches, Zenon
  <2>2. /\ i_cache' = i.cache /\ d_cache' = d.cache /\ mem' = d.mem
        /\ UNCHANGED <<control, ttb, dacr, i_tlb, d_tlb, wb>>
    BY <1>5 DEF InvalidateCaches, regs
  <2> HIDE DEF i, d
  <2>3. Sound(pc, map, fresh', i_cache', d_cache', wb', mem', i_tlb', d_tlb')
    BY <1>5, <2>1, <2>2
  <2> QED BY <1>1, <2>2, <2>3, Quiet
<1>6. CASE InvalidateTlbs /\ UNCHANGED fresh
  <2>1. OnTlbs(mmu_tlb_invalidate_all(i_tlb), mmu_tlb_invalidate_all(d_tlb))
    BY <1>6 DEF InvalidateTlbs
  <2> QED BY <1>2, <1>6, <2>1, TlbsFine, QuietTlbs, Zenon
<1>7. CASE InvalidateItlb /\ UNCHANGED fresh
  <2>1. OnTlbs(mmu_tlb_invalidate_all(i_tlb), d_tlb)
    BY <1>7 DEF InvalidateItlb
  <2> QED BY <1>2, <1>7, <2>1, TlbsFine, QuietTlbs, Zenon
<1>8. CASE InvalidateDtlb /\ UNCHANGED fresh
  <2>1. OnTlbs(i_tlb, mmu_tlb_invalidate_all(d_tlb))
    BY <1>8 DEF InvalidateDtlb
  <2> QED BY <1>2, <1>8, <2>1, TlbsFine, QuietTlbs, Zenon
<1>9. ASSUME NEW va \in prog.store, UNCHANGED fresh,
             \/ InvalidateIcacheEntry(va) \/ InvalidateItlbEntry(va)
             \/ InvalidateDcacheEntry(va) \/ CleanInvalidateDcacheEntry(va)
      PROVE  MmuInv'
  <2>1. va \in Nat /\ va \in Known(prog)
    BY CacheFacts, UsedWords DEF Used
  <2>2. CASE InvalidateIcacheEntry(va)
    <3>1. Maintained(i_cache, mem, mmu_cache_invalidate(i_cache, mem, va), prog.size["iway"],
                     prog.size["iset"], IPages(pc, prog), map, plain)
      BY <2>1, CacheFacts, MaintainedInvalidate, Zenon
    <3> QED BY <1>2, <1>9, <2>2, <3>1, QuietIcache, Zenon DEF InvalidateIcacheEntry
  <2>3. CASE InvalidateItlbEntry(va)
    <3>1. Fine(mmu_tlb_invalidate_entry(i_tlb, va), prog.size["tlb"], prog, plain[DescPa], StaleI(pc))
      <4>1. prog.size["tlb"] \in Nat
        BY TlbsFine
      <4> QED BY <2>1, <4>1, TlbsFine, TlbInvalidated, Zenon
    <3>2. OnTlbs(mmu_tlb_invalidate_entry(i_tlb, va), d_tlb)
      BY <2>3 DEF InvalidateItlbEntry
    <3> QED BY <1>2, <1>9, <3>1, <3>2, TlbsFine, QuietTlbs, Zenon
  <2>4. CASE InvalidateDcacheEntry(va)
    <3>1. Maintained(d_cache, mem, mmu_cache_invalidate(d_cache, mem, va), prog.size["dway"],
                     prog.size["dset"], DPages(pc, prog), map, plain)
      BY <2>1, CacheFacts, MaintainedInvalidate, Zenon
    <3> QED BY <1>2, <1>9, <2>4, <3>1, QuietDcache, Zenon DEF InvalidateDcacheEntry
  <2>5. CASE CleanInvalidateDcacheEntry(va)
    <3> DEFINE k == mmu_cache_clean(d_cache, mem, va)
               r == mmu_cache_invalidate(k.cache, k.mem, va)
    <3>1. Maintained(d_cache, mem, r, prog.size["dway"], prog.size["dset"], DPages(pc, prog), map, plain)
      BY <2>1, CacheFacts, MaintainedBoth, Zenon
    <3>2. OnDcache(r)
      BY <2>5, Zenon DEF CleanInvalidateDcacheEntry
    <3> QED BY <1>2, <1>9, <3>1, <3>2, QuietDcache, Zenon
  <2> QED BY <1>9, <2>2, <2>3, <2>4, <2>5
<1>10. ASSUME NEW p \in Places(d_cache), UNCHANGED fresh,
              CleanDcacheIndex(p) \/ CleanInvalidateDcacheIndex(p)
       PROVE  MmuInv'
  <2> DEFINE k == CleanPlace(d_cache, mem, p)
  <2>1. /\ Maintained(d_cache, mem, k, prog.size["dway"], prog.size["dset"], DPages(pc, prog), map, plain)
        /\ Maintained(d_cache, mem, InvalidatePlace(k.cache, k.mem, p), prog.size["dway"],
                      prog.size["dset"], DPages(pc, prog), map, plain)
    BY CacheFacts, MaintainedPlace, Zenon
  <2>2. OnDcache(k) \/ OnDcache(InvalidatePlace(k.cache, k.mem, p))
    BY <1>10, Zenon DEF CleanDcacheIndex, CleanInvalidateDcacheIndex
  <2> HIDE DEF k
  <2>3. UNCHANGED <<guest, plain, map>>
    BY <1>2, <1>10
  <2>4. CASE OnDcache(k)
    BY <2>1, <2>3, <2>4, QuietDcache, Zenon
  <2>5. CASE OnDcache(InvalidatePlace(k.cache, k.mem, p))
    BY <2>1, <2>3, <2>5, QuietDcache, Zenon
  <2> QED BY <2>2, <2>4, <2>5
<1>11. ASSUME NEW bits \in prog.controls, WriteControl(bits), UNCHANGED fresh
       PROVE  MmuInv'
  <2>1. /\ control' = bits \cup {"W"}
        /\ UNCHANGED <<mem, ttb, dacr, i_tlb, d_tlb, i_cache, d_cache, wb, fresh>>
    BY <1>11 DEF WriteControl
  <2>2. Sound(pc, map, fresh', i_cache', d_cache', wb', mem', i_tlb', d_tlb')
    BY <2>1, SoundNow
  <2> QED BY <1>1, <2>1, <2>2, Quiet
<1>12. ASSUME NEW p \in CodePages, CleanDcacheEntry(p * PageWords), fresh' = Cleaned1(p)
       PROVE  MmuInv'
  BY <1>1, <1>12, CleanCodePage
<1>13. CASE DrainWriteBuffer /\ fresh' = Drained
  <2>1. /\ mem' = mmu_wb_drain_all(wb, mem) /\ wb' = <<>>
        /\ UNCHANGED <<control, ttb, dacr, i_tlb, d_tlb, i_cache, d_cache>>
    BY <1>13 DEF DrainWriteBuffer, regs
  <2>2. Sound(pc, map, fresh', i_cache', d_cache', wb', mem', i_tlb', d_tlb')
    BY <1>13, <2>1, SoundDrained
  <2> QED BY <1>1, <2>1, <2>2, Quiet
<1> QED BY <1>3, <1>4, <1>5, <1>6, <1>7, <1>8, <1>9, <1>10, <1>11, <1>12, <1>13 DEF Maintain

-----------------------------------------------------------------------------
(* Reads and fetches *)

\* With the MMU on programs use pages that the data cache may hold.
LEMMA DataPage ==
  ASSUME MmuInv, pc \in Running, NEW va \in Used(prog), Accessible(va)
  PROVE  /\ prog \in Programs /\ va \in Nat /\ LikeMap(map)
         /\ PageOf(va) \in DPages(pc, prog) /\ DPages(pc, prog) \subseteq UsedPages(prog)
         /\ Mapped(DPages(pc, prog), map) /\ Apart(UsedPages(prog) \cup prog.code, map, va)
         /\ map[PageOf(va)].page \in Nat /\ Phys(map, va) \in DOMAIN Loaded /\ Phys(map, va) \in Nat
         /\ OnlyPage(DPages(pc, prog), map, PageOf(va))
<1>1. prog \in Programs /\ LikeMap(map)
  BY CacheFacts, OnMap DEF OnPcs
<1>2. va \in Nat /\ PageOf(va) \in UsedPages(prog)
  BY <1>1, UsedWords
<1>3. /\ Mapped(UsedPages(prog), map) /\ Apart(UsedPages(prog) \cup prog.code, map, va)
      /\ map[PageOf(va)].page \in Nat /\ Phys(map, va) \in DOMAIN Loaded /\ Phys(map, va) \in Nat
  BY <1>1, LikeMapped
<1>4. \/ pc = "idle" /\ DPages(pc, prog) = UsedPages(prog)
      \/ pc \in Remapping /\ DPages(pc, prog) = UsedPages(prog) \ {FreePage}
  BY PagesAt DEF Running
<1>5. PageOf(va) \in DPages(pc, prog) /\ DPages(pc, prog) \subseteq UsedPages(prog)
  BY <1>2, <1>4 DEF Accessible
<1>6. Mapped(DPages(pc, prog), map)
  BY <1>3, <1>5 DEF Mapped
<1>7. OnlyPage(DPages(pc, prog), map, PageOf(va))
  BY <1>3, <1>5, <1>6 DEF OnlyPage, Mapped, Apart
<1> QED BY <1>1, <1>2, <1>3, <1>5, <1>6, <1>7

\* The buffer holds no word of a page that is not buffered.
LEMMA NoDelay ==
  ASSUME MmuInv, pc \in Running, NEW va \in Used(prog), Accessible(va),
         Meaning(plain[DescPa], va) # NoEntry, ~Meaning(plain[DescPa], va).b,
         NEW n \in DOMAIN wb
  PROVE  PageOf(wb[n].pa) # map[PageOf(va)].page
<1> SUFFICES ASSUME PageOf(wb[n].pa) = map[PageOf(va)].page
             PROVE  FALSE
  OBVIOUS
<1>1. /\ prog \in Programs /\ LikeMap(map)
      /\ Apart(UsedPages(prog) \cup prog.code, map, va)
  BY DataPage
<1>2. Delayed(wb, Delayable(pc, prog, plain[DescPa]), map)
  BY DEF MmuInv, Coherence
<1>3. PICK vb \in Delayable(pc, prog, plain[DescPa]) : wb[n].pa = Phys(map, vb)
  BY <1>2 DEF Delayed
<1>4. /\ vb \in Used(prog)
      /\ \/ PageOf(vb) = FreePage /\ pc \in Remapping
         \/ Meaning(plain[DescPa], vb) # NoEntry /\ Meaning(plain[DescPa], vb).b
  BY DEF Delayable, Used
<1>5. vb \in Nat /\ va \in Nat /\ PageOf(vb) \in UsedPages(prog) /\ vb \in Known(prog) /\ va \in Known(prog)
  BY <1>1, <1>4, UsedWords
<1>6. PageOf(vb) = PageOf(va)
  <2>1. map[PageOf(vb)].page \in Nat
    BY <1>1, <1>4, LikeMapped
  <2>2. PageOf(Phys(map, vb)) = map[PageOf(vb)].page
    BY <1>5, <2>1, PhysParts
  <2> QED BY <1>1, <1>3, <1>5, <2>2 DEF Apart
<1>7. Meaning(plain[DescPa], vb) # NoEntry /\ Meaning(plain[DescPa], vb).b
  BY <1>4, <1>6 DEF Accessible
<1>8. Meaning(plain[DescPa], vb).virt = PageOf(vb) \div Span(Meaning(plain[DescPa], vb).mapping)
  BY <1>1, <1>5, <1>7, MeaningFound, Zenon
<1>9. Meaning(plain[DescPa], vb).virt = PageOf(va) \div Span(Meaning(plain[DescPa], vb).mapping)
  BY <1>6, <1>8
<1>10. Meaning(plain[DescPa], va) = Meaning(plain[DescPa], vb)
  BY <1>5, <1>7, <1>9, MeaningSame, Zenon
<1> QED BY <1>7, <1>10

\* What a read that misses the data cache finds: memory M, after a drain if the page
\* is buffered, has the page, and what is left in the buffer b is of other pages.
LEMMA Source ==
  ASSUME MmuInv, pc \in Running, NEW va \in Used(prog), Accessible(va),
         Meaning(plain[DescPa], va) # NoEntry, ~CacheHit(d_cache, va), NEW b, NEW M,
         Sound(pc, map, fresh, i_cache, d_cache, b, M, i_tlb, d_tlb),
         b = <<>> \/ (~Meaning(plain[DescPa], va).b /\ b = wb)
  PROVE  /\ \A n \in DOMAIN b : va_cache_align(b[n].pa) # Base(map, PageOf(va))
         /\ \A a \in DOMAIN Loaded : PageOf(a) = map[PageOf(va)].page => M[a] = plain[a]
<1>1. /\ prog \in Programs /\ va \in Nat /\ map[PageOf(va)].page \in Nat /\ PageOf(va) \in Nat
      /\ OnlyPage(DPages(pc, prog), map, PageOf(va))
  BY DataPage, UsedWords
<1>2. \A n \in DOMAIN b : PageOf(b[n].pa) # map[PageOf(va)].page
  <2>1. CASE b = <<>>
    BY <2>1, EmptyBuffer
  <2>2. CASE ~Meaning(plain[DescPa], va).b /\ b = wb
    BY <2>2, NoDelay
  <2> QED BY <2>1, <2>2
<1>3. wb \in Seq(WbRec)
  BY DEF MmuInv, Typed
<1>4. \A n \in DOMAIN b : b[n].pa \in Nat
  <2>1. CASE b = <<>>
    BY <2>1, EmptyBuffer
  <2>2. CASE b = wb
    <3>1. \A n \in DOMAIN wb : wb[n] \in WbRec
      BY <1>3
    <3> QED BY <2>2, <3>1 DEF WbRec
  <2> QED BY <2>1, <2>2
<1>5. ASSUME NEW n \in DOMAIN b
      PROVE  va_cache_align(b[n].pa) # Base(map, PageOf(va))
  <2>1. PageOf(b[n].pa) \in Nat /\ va_cache_align(b[n].pa) = PageOf(b[n].pa) * PageWords
    BY <1>4, WordParts
  <2>2. PageOf(b[n].pa) * PageWords = map[PageOf(va)].page * PageWords
          => PageOf(b[n].pa) = map[PageOf(va)].page
    BY <1>1, <2>1, PageStart, Zenon
  <2> QED BY <1>2, <2>1, <2>2 DEF Base
<1>6. ASSUME NEW a \in DOMAIN Loaded, PageOf(a) = map[PageOf(va)].page
      PROVE  M[a] = plain[a]
  <2>1. ~Buffered(b, a)
    BY <1>2, <1>6 DEF Buffered
  <2>2. CleanLines(d_cache, PageOf(va))
    <3>1. ASSUME NEW p \in Places(d_cache), d_cache.lines[p].valid
          PROVE  d_cache.lines[p].tag # va_cache_align(va)
      BY <1>1, <3>1, CacheFacts, Miss, Zenon
    <3>2. va_cache_align(va) = PageOf(va) * PageWords
      BY <1>1, WordParts
    <3> QED BY <3>1, <3>2 DEF CleanLines
  <2>3. Coherent(d_cache, DPages(pc, prog), map, plain)
    BY CacheFacts
  <2>4. DirtyPlaces(d_cache, a) = {}
    BY <1>1, <1>6, <2>2, <2>3, CleanPage, Zenon
  <2>5. Settled(d_cache, wb, mem, d_cache, b, M, plain)
    BY DEF Sound
  <2> QED BY <2>1, <2>4, <2>5 DEF Settled
<1> QED BY <1>5, <1>6

\* Memory M has page u of map m.
PageIn(u, m, M, pl) == \A a \in DOMAIN Loaded : PageOf(a) = m[u].page => M[a] = pl[a]

\* The allocation of a line from a memory that has the page.
LEMMA PageAllocated ==
  ASSUME NEW w, NEW s, Sized(w, s), NEW c \in CacheRec(w, s), NEW va \in Nat,
         NEW V, NEW m, NEW pl, Coherent(c, V, m, pl), Mapped(V, m), PageOf(va) \in V,
         NEW old \in Memory, ~CacheHit(c, va), PageIn(PageOf(va), m, old, pl),
         NEW r, r = mmu_cache_alloc(c, old, va, Phys(m, va))
  PROVE  /\ r.cache \in CacheRec(w, s) /\ r.mem \in Memory
         /\ Coherent(r.cache, V, m, pl)
         /\ Purged(c, old, r.cache, r.mem, pl)
         /\ FewerBut(c, r.cache, Base(m, PageOf(va)))
         /\ CachedWord(r.cache, va) = pl[Phys(m, va)]
<1>1. ASSUME NEW i \in LineIndex
      PROVE  old[(m[PageOf(va)].page * PageWords) + i] = pl[(m[PageOf(va)].page * PageWords) + i]
  <2>1. m[PageOf(va)].page \in Nat /\ (m[PageOf(va)].page * PageWords) + i \in DOMAIN Loaded
    BY DEF Mapped
  <2>2. PageOf((m[PageOf(va)].page * PageWords) + i) = m[PageOf(va)].page
    BY <2>1, PartsWord
  <2> QED BY <2>1, <2>2 DEF PageIn
<1>2. \A i \in LineIndex : old[(m[PageOf(va)].page * PageWords) + i]
                           = pl[(m[PageOf(va)].page * PageWords) + i]
  BY <1>1
<1> DEFINE k == mmu_cache_alloc(c, old, va, Phys(m, va))
<1>3. /\ k.cache \in CacheRec(w, s) /\ k.mem \in Memory
      /\ Coherent(k.cache, V, m, pl)
      /\ Purged(c, old, k.cache, k.mem, pl)
      /\ FewerBut(c, k.cache, m[PageOf(va)].page * PageWords)
      /\ CachedWord(k.cache, va) = pl[Phys(m, va)]
  BY <1>2, Allocated
<1> QED BY <1>3 DEF Base

\* A read that allocates a line: the memory system stays sound and the word read is
\* the one plain memory has.
LEMMA DataAlloc ==
  ASSUME MmuInv, pc \in Running, NEW va \in Used(prog), Accessible(va),
         Meaning(plain[DescPa], va) # NoEntry, ~CacheHit(d_cache, va), NEW b, NEW M,
         Sound(pc, map, fresh, i_cache, d_cache, b, M, i_tlb, d_tlb),
         b = <<>> \/ (~Meaning(plain[DescPa], va).b /\ b = wb)
  PROVE  LET r == mmu_cache_alloc(d_cache, M, va, Phys(map, va))
         IN /\ Sound(pc, map, fresh, i_cache, r.cache, b, r.mem, i_tlb, d_tlb)
            /\ CachedWord(r.cache, va) = plain[Phys(map, va)]
<1>1. /\ \A n \in DOMAIN b : va_cache_align(b[n].pa) # Base(map, PageOf(va))
      /\ \A a \in DOMAIN Loaded : PageOf(a) = map[PageOf(va)].page => M[a] = plain[a]
  BY Source, Zenon
<1>2. /\ va \in Nat /\ PageOf(va) \in DPages(pc, prog) /\ Mapped(DPages(pc, prog), map)
      /\ PageOf(va) \in Nat
  BY DataPage, UsedWords
<1>3. PageIn(PageOf(va), map, M, plain)
  BY <1>1 DEF PageIn
<1>4. M \in Memory /\ Separate(d_cache, b) /\ Settled(d_cache, wb, mem, d_cache, b, M, plain)
      /\ InMemory(d_cache, b, CodePages, fresh, map)
  BY DEF Sound
<1>5. Complete(d_cache, b, M, plain)
  <2>1. Complete(d_cache, wb, mem, plain)
    BY DEF MmuInv, Coherence
  <2> QED BY <1>4, <2>1, SettledKeeps
<1> DEFINE r == mmu_cache_alloc(d_cache, M, va, Phys(map, va))
<1>0. r = mmu_cache_alloc(d_cache, M, va, Phys(map, va))
  OBVIOUS
<1> HIDE DEF r
<1>6. /\ r.cache \in CacheRec(prog.size["dway"], prog.size["dset"]) /\ r.mem \in Memory
      /\ Coherent(r.cache, DPages(pc, prog), map, plain)
      /\ Purged(d_cache, M, r.cache, r.mem, plain)
      /\ FewerBut(d_cache, r.cache, Base(map, PageOf(va)))
      /\ CachedWord(r.cache, va) = plain[Phys(map, va)]
  <2>1. /\ Sized(prog.size["dway"], prog.size["dset"])
        /\ d_cache \in CacheRec(prog.size["dway"], prog.size["dset"])
        /\ Coherent(d_cache, DPages(pc, prog), map, plain)
    BY CacheFacts
  <2> QED BY <1>0, <1>2, <1>3, <1>4, <2>1, PageAllocated
<1>7. Settled(d_cache, b, M, r.cache, b, r.mem, plain)
  BY <1>5, <1>6, SettledCache
<1>8. Settled(d_cache, wb, mem, r.cache, b, r.mem, plain)
  BY <1>4, <1>7, SettledTrans
<1>9. InMemory(r.cache, b, CodePages, fresh, map)
  BY <1>4, <1>5, <1>7, SettledKeeps
<1>10. Separate(r.cache, b)
  BY <1>1, <1>4, <1>6, SeparateBut, Zenon
<1>11. Sound(pc, map, fresh, i_cache, r.cache, b, r.mem, i_tlb, d_tlb)
  BY <1>6, <1>8, <1>9, <1>10, Zenon DEF Sound
<1> QED BY <1>6, <1>11, Zenon DEF r

\* A fetch that allocates a line.
LEMMA InstrAlloc ==
  ASSUME MmuInv, NEW va \in Nat, PageOf(va) \in IPages(pc, prog), Mapped(IPages(pc, prog), map),
         ~CacheHit(i_cache, va), PageOf(va) \in Nat,
         \A a \in DOMAIN Loaded : PageOf(a) = map[PageOf(va)].page => mem[a] = plain[a]
  PROVE  LET r == mmu_cache_alloc(i_cache, mem, va, Phys(map, va))
         IN /\ Sound(pc, map, fresh, r.cache, d_cache, wb, r.mem, i_tlb, d_tlb)
            /\ CachedWord(r.cache, va) = plain[Phys(map, va)]
<1>1. PageIn(PageOf(va), map, mem, plain)
  BY DEF PageIn
<1> DEFINE r == mmu_cache_alloc(i_cache, mem, va, Phys(map, va))
<1>0. r = mmu_cache_alloc(i_cache, mem, va, Phys(map, va))
  OBVIOUS
<1> HIDE DEF r
<1>2. /\ r.cache \in CacheRec(prog.size["iway"], prog.size["iset"]) /\ r.mem \in Memory
      /\ Coherent(r.cache, IPages(pc, prog), map, plain)
      /\ Purged(i_cache, mem, r.cache, r.mem, plain)
      /\ CachedWord(r.cache, va) = plain[Phys(map, va)]
  <2>1. /\ Sized(prog.size["iway"], prog.size["iset"]) /\ mem \in Memory
        /\ i_cache \in CacheRec(prog.size["iway"], prog.size["iset"])
        /\ Coherent(i_cache, IPages(pc, prog), map, plain)
    BY CacheFacts
  <2> QED BY <1>0, <1>1, <2>1, PageAllocated
<1>3. Sound(pc, map, fresh, r.cache, d_cache, wb, r.mem, i_tlb, d_tlb)
  BY <1>2, SoundIcache
<1> QED BY <1>2, <1>3, Zenon DEF r

\* The registers when the MMU is on and off.
LEMMA OnOff ==
  ASSUME MmuInv
  PROVE  /\ pc \in OnPcs => MMU_Enabled /\ MMU_WBEnabled
         /\ pc \in OffPcs => ~MMU_Enabled
         /\ control \subseteq {"M", "C", "W", "S", "R"} /\ (MMU_Enabled => MMU_WBEnabled)
<1>1. prog \in Programs /\ pc \in OffPcs \cup OnPcs
  BY DEF MmuInv, Typed
<1>2. CASE pc \in OnPcs
  <2>1. PICK bits \in prog.controls : control = bits \cup {"W"}
    BY <1>2 DEF MmuInv, Phased
  <2>2. "M" \in bits /\ bits \subseteq {"M", "C", "S", "R"}
    BY <1>1, ProgramParts
  <2>3. pc \notin OffPcs
    BY <1>2 DEF OnPcs, OffPcs, Running, Remapping
  <2> QED BY <2>1, <2>2, <2>3 DEF MMU_Enabled, MMU_WBEnabled
<1>3. CASE pc \in OffPcs
  <2>1. control = {} \/ control = {"W"}
    BY <1>3 DEF MmuInv, Phased
  <2>2. pc \notin OnPcs
    BY <1>3 DEF OnPcs, OffPcs, Running, Remapping
  <2> QED BY <1>3, <2>1, <2>2 DEF MMU_Enabled, MMU_WBEnabled
<1> QED BY <1>1, <1>2, <1>3

\* A translation by the data TLB,
LEMMA DataAccess ==
  ASSUME MmuInv, pc \in Running, NEW va \in Used(prog), Accessible(va), NEW user \in BOOLEAN,
         NEW tr, tr = Translation(d_tlb, va)
  PROVE  /\ tr.entry = Meaning(plain[DescPa], va)
         /\ Fine(tr.tlb, prog.size["tlb"], prog, plain[DescPa], StaleD(pc))
         /\ Faults(tr, user, TRUE) <=> ~P!Readable(va, user)
         /\ Faults(tr, user, FALSE) <=> ~P!Writable(va, user)
         /\ tr.entry # NoEntry => /\ PaOf(tr, va) = Phys(map, va)
                                  /\ tr.entry.c \in BOOLEAN /\ tr.entry.b \in BOOLEAN
<1>1. PICK stale \in BOOLEAN : stale = StaleD(pc)
  BY DEF StaleD, StaleI
<1>2. pc = "idle" => ~stale
  BY <1>1 DEF StaleD, StaleI
<1>3. Fine(d_tlb, prog.size["tlb"], prog, plain[DescPa], stale)
  BY <1>1, TlbsFine, Zenon
<1>4. /\ tr.entry = Meaning(plain[DescPa], va)
      /\ Fine(tr.tlb, prog.size["tlb"], prog, plain[DescPa], stale)
      /\ Faults(tr, user, TRUE) <=> ~P!Readable(va, user)
      /\ Faults(tr, user, FALSE) <=> ~P!Writable(va, user)
      /\ tr.entry # NoEntry => /\ PaOf(tr, va) = Phys(map, va)
                               /\ tr.entry.c \in BOOLEAN /\ tr.entry.b \in BOOLEAN
  BY <1>2, <1>3, Accessed
<1>5. Fine(tr.tlb, prog.size["tlb"], prog, plain[DescPa], StaleD(pc))
  BY <1>1, <1>4, Zenon
<1> QED BY <1>4, <1>5, Zenon

\* and by the instruction TLB.
LEMMA InstrAccess ==
  ASSUME MmuInv, pc \in Running, NEW va \in Used(prog), Accessible(va), NEW user \in BOOLEAN,
         NEW tr, tr = Translation(i_tlb, va)
  PROVE  /\ tr.entry = Meaning(plain[DescPa], va)
         /\ Fine(tr.tlb, prog.size["tlb"], prog, plain[DescPa], StaleI(pc))
         /\ Faults(tr, user, TRUE) <=> ~P!Readable(va, user)
         /\ Faults(tr, user, FALSE) <=> ~P!Writable(va, user)
         /\ tr.entry # NoEntry => /\ PaOf(tr, va) = Phys(map, va)
                                  /\ tr.entry.c \in BOOLEAN /\ tr.entry.b \in BOOLEAN
<1>0. StaleI(pc) \in BOOLEAN
  BY DEF StaleI
<1>1. PICK stale \in BOOLEAN : stale = StaleI(pc)
  BY <1>0, Zenon
<1>2. pc = "idle" => ~stale
  BY <1>1 DEF StaleD, StaleI
<1>3. Fine(i_tlb, prog.size["tlb"], prog, plain[DescPa], stale)
  BY <1>1, TlbsFine, Zenon
<1>4. /\ tr.entry = Meaning(plain[DescPa], va)
      /\ Fine(tr.tlb, prog.size["tlb"], prog, plain[DescPa], stale)
      /\ Faults(tr, user, TRUE) <=> ~P!Readable(va, user)
      /\ Faults(tr, user, FALSE) <=> ~P!Writable(va, user)
      /\ tr.entry # NoEntry => /\ PaOf(tr, va) = Phys(map, va)
                               /\ tr.entry.c \in BOOLEAN /\ tr.entry.b \in BOOLEAN
  BY <1>2, <1>3, Accessed
<1>5. Fine(tr.tlb, prog.size["tlb"], prog, plain[DescPa], StaleI(pc))
  BY <1>1, <1>4, Zenon
<1> QED BY <1>4, <1>5, Zenon

\* How a read ends.
LEMMA ReadCases ==
  ASSUME NEW tr, NEW va, NEW user
  PROVE  /\ Faults(tr, user, TRUE) => ReadKind(tr, va, user) = "fault"
         /\ ~Faults(tr, user, TRUE) /\ CacheHit(d_cache, va) => ReadKind(tr, va, user) = "hit"
         /\ ~Faults(tr, user, TRUE) /\ ~CacheHit(d_cache, va) =>
              ReadKind(tr, va, user) = IF PaOf(tr, va) \in FlushWords THEN "flush"
                                       ELSE IF tr.entry.c /\ MMU_DCacheEnabled THEN "alloc"
                                       ELSE "memory"
BY Zenon DEF ReadKind

\* Memory and the buffer as a read that misses finds them.
LEMMA SoundSource ==
  ASSUME MmuInv, NEW tr, tr.entry.b \in BOOLEAN, NEW b, b = IF tr.entry.b THEN <<>> ELSE wb
  PROVE  Sound(pc, map, fresh, i_cache, d_cache, b, ReadSource(tr), i_tlb, d_tlb)
<1>1. CASE tr.entry.b
  BY <1>1, SoundDrain, Zenon DEF ReadSource
<1>2. CASE ~tr.entry.b
  BY <1>2, SoundNow, Zenon DEF ReadSource
<1> QED BY <1>1, <1>2

\* A load keeps the invariant.
LEMMA LoadStep ==
  ASSUME MmuInv, Load
  PROVE  MmuInv'
<1>1. PICK va \in prog.store \cup prog.load, user \in BOOLEAN :
        /\ pc \in Running /\ Accessible(va) /\ read(va, user) /\ UNCHANGED <<guest, plain, map>>
  BY DEF Load
<1> DEFINE tr == Translation(d_tlb, va)
           e == Meaning(plain[DescPa], va)
           b == IF tr.entry.b THEN <<>> ELSE wb
           fill == mmu_cache_alloc(d_cache, ReadSource(tr), va, PaOf(tr, va))
           flush == mmu_cache_soft_flush(d_cache, mem, PaOf(tr, va))
           kind == ReadKind(tr, va, user)
<1>2. va \in Used(prog)
  BY <1>1 DEF Used
<1>3. MMU_Enabled
  BY <1>1, OnOff DEF OnPcs
<1>4. /\ d_tlb' = tr.tlb
      /\ \/ kind \in {"off", "fault", "hit"} /\ UNCHANGED <<mem, d_cache, wb>>
         \/ /\ kind = "flush" /\ UNCHANGED wb
            /\ \/ d_cache' = flush.cache /\ mem' = flush.mem
               \/ UNCHANGED <<d_cache, mem>>
         \/ kind = "alloc" /\ wb' = b /\ d_cache' = fill.cache /\ mem' = fill.mem
         \/ kind = "memory" /\ wb' = b /\ mem' = ReadSource(tr) /\ UNCHANGED d_cache
      /\ UNCHANGED <<control, ttb, dacr, i_tlb, i_cache>>
  BY <1>1, <1>3 DEF read, regs
<1>5. UNCHANGED <<prog, pc, next, fresh, plain, map>>
  BY <1>1 DEF guest
<1>6. /\ tr.entry = e
      /\ Fine(tr.tlb, prog.size["tlb"], prog, plain[DescPa], StaleD(pc))
      /\ e # NoEntry => PaOf(tr, va) = Phys(map, va) /\ tr.entry.b \in BOOLEAN
  BY <1>1, <1>2, DataAccess
<1>7. ~Faults(tr, user, TRUE) => e # NoEntry
  BY <1>6 DEF Faults
<1>8. /\ kind \in {"fault", "hit"} \/ (~Faults(tr, user, TRUE) /\ ~CacheHit(d_cache, va))
      /\ ~Faults(tr, user, TRUE) /\ ~CacheHit(d_cache, va) => kind \in {"flush", "alloc", "memory"}
  BY ReadCases
<1>9. Phys(map, va) \in Nat
  BY <1>1, <1>2, DataPage
<1>10. Sound(pc, map, fresh, i_cache, d_cache', wb', mem', i_tlb, d_tlb)
  <2>1. CASE kind \in {"fault", "hit"}
    BY <1>4, <2>1, SoundNow
  <2>2. CASE kind = "flush"
    <3>1. PaOf(tr, va) \in Nat
      BY <1>6, <1>7, <1>8, <1>9, <2>2
    <3>2. Maintained(d_cache, mem, flush, prog.size["dway"], prog.size["dset"], DPages(pc, prog), map, plain)
      BY <3>1, CacheFacts, MaintainedFlush, Zenon
    <3> HIDE DEF flush
    <3>3. Sound(pc, map, fresh, i_cache, flush.cache, wb, flush.mem, i_tlb, d_tlb)
      BY <3>2, SoundDcache
    <3>4. Sound(pc, map, fresh, i_cache, d_cache, wb, mem, i_tlb, d_tlb)
      BY SoundNow
    <3>5. wb' = wb /\ \/ d_cache' = flush.cache /\ mem' = flush.mem
                      \/ d_cache' = d_cache /\ mem' = mem
      BY <1>4, <2>2
    <3> QED BY <3>3, <3>4, <3>5
  <2>3. CASE kind \in {"alloc", "memory"}
    <3>1. e # NoEntry /\ ~CacheHit(d_cache, va) /\ PaOf(tr, va) = Phys(map, va) /\ tr.entry.b \in BOOLEAN
      BY <1>6, <1>7, <1>8, <2>3
    <3>0. b = IF tr.entry.b THEN <<>> ELSE wb
      OBVIOUS
    <3> HIDE DEF b, tr
    <3>2. Sound(pc, map, fresh, i_cache, d_cache, b, ReadSource(tr), i_tlb, d_tlb)
      BY <3>0, <3>1, SoundSource
    <3>3. CASE kind = "memory"
      <4>1. wb' = b /\ mem' = ReadSource(tr) /\ d_cache' = d_cache
        BY <1>4, <3>3
      <4> QED BY <3>2, <4>1
    <3>4. CASE kind = "alloc"
      <4>1. b = <<>> \/ (~e.b /\ b = wb)
        BY <1>6, <3>1 DEF b
      <4> DEFINE r == mmu_cache_alloc(d_cache, ReadSource(tr), va, Phys(map, va))
      <4>2. Sound(pc, map, fresh, i_cache, r.cache, b, r.mem, i_tlb, d_tlb)
        BY <1>1, <1>2, <3>1, <3>2, <4>1, DataAlloc, Zenon
      <4>3. fill = r
        BY <3>1
      <4> HIDE DEF r, fill
      <4>4. wb' = b /\ d_cache' = r.cache /\ mem' = r.mem
        BY <1>4, <3>4, <4>3
      <4> QED BY <4>2, <4>4
    <3> QED BY <2>3, <3>3, <3>4
  <2> QED BY <1>8, <2>1, <2>2, <2>3
<1>11. Sound(pc, map, fresh, i_cache, d_cache', wb', mem', i_tlb, tr.tlb)
  BY <1>6, <1>10, TlbsFine, SoundTlbs, Zenon
<1>12. Sound(pc, map, fresh', i_cache', d_cache', wb', mem', i_tlb', d_tlb')
  BY <1>4, <1>5, <1>11
<1> QED BY <1>4, <1>5, <1>12, Quiet

\* A page that is fetched from is not being remapped.
LEMMA FetchAccessible ==
  ASSUME MmuInv, pc \in Running, NEW va, PageOf(va) \in CodePages
  PROVE  Accessible(va)
<1>1. pc \in Remapping => prog.descs # {}
  BY DEF MmuInv, Phased
<1>2. prog \in Programs
  BY DEF MmuInv, Typed
<1> QED BY <1>1, <1>2, ProgramParts DEF Accessible, CodePages

\* A fetch translates, and the page it may fetch from is in memory.
LEMMA Fetched ==
  ASSUME MmuInv, pc \in Running, NEW va \in prog.store \cup prog.load, MayFetch(va), NEW user \in BOOLEAN
  PROVE  /\ va \in Used(prog) /\ va \in Nat /\ Accessible(va) /\ PageOf(va) \in Nat
         /\ PageOf(va) \in IPages(pc, prog) /\ Mapped(IPages(pc, prog), map)
         /\ \A a \in DOMAIN Loaded : PageOf(a) = map[PageOf(va)].page => mem[a] = plain[a]
         /\ LET f == FetchOf(va, user)
            IN /\ f.fault <=> ~P!Readable(va, user)
               /\ Fine(f.tlb, prog.size["tlb"], prog, plain[DescPa], StaleI(pc))
               /\ ~f.fault => f.pa = Phys(map, va)
<1>1. va \in Used(prog) /\ PageOf(va) \in prog.code /\ fresh[PageOf(va)] = 2 /\ PageOf(va) \in CodePages
  BY DEF Used, MayFetch, CodePages
<1>2. Accessible(va)
  BY <1>1, FetchAccessible
<1>3. /\ prog \in Programs /\ va \in Nat /\ PageOf(va) \in Nat /\ PageOf(va) \in UsedPages(prog)
      /\ Mapped(UsedPages(prog), map)
  BY <1>1, <1>2, DataPage, UsedWords, LikeMapped
<1>4. IPages(pc, prog) = UsedPages(prog) \cap prog.code
  BY PagesAt
<1>5. PageOf(va) \in IPages(pc, prog) /\ Mapped(IPages(pc, prog), map)
  BY <1>1, <1>3, <1>4 DEF Mapped
<1>6. ASSUME NEW a \in DOMAIN Loaded, PageOf(a) = map[PageOf(va)].page
      PROVE  mem[a] = plain[a]
  <2>1. DirtyPlaces(d_cache, a) = {} /\ ~Buffered(wb, a)
    BY <1>1, <1>6 DEF MmuInv, Freshness, InMemory
  <2> QED BY <2>1 DEF MmuInv, Coherence, Complete
<1>7. MMU_Enabled
  BY OnOff DEF OnPcs
<1> DEFINE tr == Translation(i_tlb, va)
           f == FetchOf(va, user)
<1>8. /\ tr.entry = Meaning(plain[DescPa], va)
      /\ Fine(tr.tlb, prog.size["tlb"], prog, plain[DescPa], StaleI(pc))
      /\ Faults(tr, user, TRUE) <=> ~P!Readable(va, user)
      /\ tr.entry # NoEntry => PaOf(tr, va) = Phys(map, va)
  BY <1>1, <1>2, InstrAccess
<1>9. f.tlb = tr.tlb /\ (f.fault <=> Faults(tr, user, TRUE)) /\ f.pa = PaOf(tr, va)
  BY <1>7 DEF FetchOf
<1>10. ~Faults(tr, user, TRUE) => tr.entry # NoEntry
  BY DEF Faults
<1> HIDE DEF tr, f
<1>11. /\ f.fault <=> ~P!Readable(va, user)
       /\ Fine(f.tlb, prog.size["tlb"], prog, plain[DescPa], StaleI(pc))
       /\ ~f.fault => f.pa = Phys(map, va)
  BY <1>8, <1>9, <1>10
<1> QED BY <1>1, <1>2, <1>3, <1>5, <1>6, <1>11 DEF f

\* A fetch keeps the invariant.
LEMMA FetchStep ==
  ASSUME MmuInv, Fetch
  PROVE  MmuInv'
<1>1. PICK va \in prog.store \cup prog.load, user \in BOOLEAN :
        /\ pc \in Running /\ MayFetch(va) /\ load_instr(va, user) /\ UNCHANGED <<guest, plain, map>>
  BY DEF Fetch
<1> DEFINE f == FetchOf(va, user)
           fill == mmu_cache_alloc(i_cache, mem, va, f.pa)
           r == mmu_cache_alloc(i_cache, mem, va, Phys(map, va))
<1>2. /\ va \in Nat /\ PageOf(va) \in Nat
      /\ PageOf(va) \in IPages(pc, prog) /\ Mapped(IPages(pc, prog), map)
      /\ \A a \in DOMAIN Loaded : PageOf(a) = map[PageOf(va)].page => mem[a] = plain[a]
      /\ Fine(f.tlb, prog.size["tlb"], prog, plain[DescPa], StaleI(pc))
      /\ ~f.fault => f.pa = Phys(map, va)
  BY <1>1, Fetched, Zenon
<1>3. /\ i_tlb' = f.tlb
      /\ \/ UNCHANGED <<i_cache, mem>>
         \/ ~f.fault /\ ~CacheHit(i_cache, va) /\ i_cache' = fill.cache /\ mem' = fill.mem
      /\ UNCHANGED <<control, ttb, dacr, d_tlb, d_cache, wb>>
  BY <1>1 DEF load_instr, regs
<1>4. UNCHANGED <<prog, pc, next, fresh, plain, map>>
  BY <1>1 DEF guest
<1>5. Sound(pc, map, fresh, i_cache', d_cache, wb, mem', i_tlb, d_tlb)
  <2>1. CASE UNCHANGED <<i_cache, mem>>
    BY <2>1, SoundNow
  <2>2. CASE ~f.fault /\ ~CacheHit(i_cache, va) /\ i_cache' = fill.cache /\ mem' = fill.mem
    <3>1. fill = r
      BY <1>2, <2>2
    <3>2. Sound(pc, map, fresh, r.cache, d_cache, wb, r.mem, i_tlb, d_tlb)
      BY <1>2, <2>2, InstrAlloc, Zenon
    <3> HIDE DEF fill, r
    <3> QED BY <2>2, <3>1, <3>2
  <2> QED BY <1>3, <2>1, <2>2
<1> HIDE DEF f
<1>6. Sound(pc, map, fresh, i_cache', d_cache, wb, mem', f.tlb, d_tlb)
  BY <1>2, <1>5, TlbsFine, SoundTlbs, Zenon
<1>7. Sound(pc, map, fresh', i_cache', d_cache', wb', mem', i_tlb', d_tlb')
  BY <1>3, <1>4, <1>6
<1> QED BY <1>3, <1>4, <1>7, Quiet

\* With the MMU off nothing is cached or buffered but instructions.
LEMMA OffFacts ==
  ASSUME MmuInv, pc \in OffPcs
  PROVE  /\ \A a : ~Buffered(wb, a) /\ DirtyPlaces(d_cache, a) = {}
         /\ \A p \in Places(d_cache) : ~d_cache.lines[p].valid
         /\ \A a \in DOMAIN Loaded : mem[a] = plain[a]
         /\ map = Identity /\ ~MMU_Enabled
<1>1. pc \notin Running /\ pc \notin Running \cup {"off1"}
  BY DEF OffPcs, Running, Remapping
<1>2. Coherent(d_cache, {}, map, plain)
  BY <1>1, CacheFacts, PagesAt
<1>3. /\ \A p \in Places(d_cache) : ~d_cache.lines[p].valid
      /\ \A a : DirtyPlaces(d_cache, a) = {}
  BY <1>2, EmptyCoherent
<1>4. Delayable(pc, prog, plain[DescPa]) = {}
  BY <1>1 DEF Delayable
<1>5. \A a : ~Buffered(wb, a)
  BY <1>4 DEF MmuInv, Coherence, Delayed, Buffered
<1>6. \A a \in DOMAIN Loaded : mem[a] = plain[a]
  BY <1>3, <1>5 DEF MmuInv, Coherence, Complete
<1>7. map = Identity /\ ~MMU_Enabled
  BY OnOff DEF MmuInv, Phased
<1> QED BY <1>3, <1>5, <1>6, <1>7

\* A fetch with the MMU off.
LEMMA OffFetchStep ==
  ASSUME MmuInv, OffFetch
  PROVE  MmuInv'
<1>1. PICK pa \in prog.store :
        /\ pc = "off" /\ load_instr(pa, FALSE) /\ UNCHANGED <<guest, plain, map>>
  BY DEF OffFetch
<1> DEFINE r == mmu_cache_alloc(i_cache, mem, pa, pa)
<1>2. /\ prog \in Programs /\ ~MMU_Enabled /\ map = Identity
      /\ \A a \in DOMAIN Loaded : mem[a] = plain[a]
  BY <1>1, CacheFacts, OffFacts DEF OffPcs
<1>3. /\ pa \in Nat /\ PageOf(pa) \in Nat /\ Phys(map, pa) = pa
      /\ PageOf(pa) \in IPages(pc, prog) /\ Mapped(IPages(pc, prog), map)
  <2>1. IPages(pc, prog) = {PageOf(va) : va \in prog.store}
    BY <1>1, PagesAt
  <2>2. /\ pa \in Nat /\ Phys(map, pa) = pa /\ Mapped({PageOf(va) : va \in prog.store}, map)
    BY <1>2, IdentityMapped
  <2> QED BY <2>1, <2>2, WordParts
<1>4. /\ i_tlb' = i_tlb
      /\ \/ UNCHANGED <<i_cache, mem>>
         \/ ~CacheHit(i_cache, pa) /\ i_cache' = r.cache /\ mem' = r.mem
      /\ UNCHANGED <<control, ttb, dacr, d_tlb, d_cache, wb>>
  BY <1>1, <1>2 DEF load_instr, FetchOf, regs
<1>5. UNCHANGED <<prog, pc, next, fresh, plain, map>>
  BY <1>1 DEF guest
<1>6. Sound(pc, map, fresh, i_cache', d_cache, wb, mem', i_tlb, d_tlb)
  <2>1. CASE UNCHANGED <<i_cache, mem>>
    BY <2>1, SoundNow
  <2>2. CASE ~CacheHit(i_cache, pa) /\ i_cache' = r.cache /\ mem' = r.mem
    <3> DEFINE k == mmu_cache_alloc(i_cache, mem, pa, Phys(map, pa))
    <3>1. r = k
      BY <1>3
    <3>2. Sound(pc, map, fresh, k.cache, d_cache, wb, k.mem, i_tlb, d_tlb)
      BY <1>2, <1>3, <2>2, InstrAlloc, Zenon
    <3> HIDE DEF k, r
    <3> QED BY <2>2, <3>1, <3>2
  <2> QED BY <1>4, <2>1, <2>2
<1>7. Sound(pc, map, fresh', i_cache', d_cache', wb', mem', i_tlb', d_tlb')
  BY <1>4, <1>5, <1>6
<1> QED BY <1>4, <1>5, <1>7, Quiet

\* A load with the MMU off changes nothing.
LEMMA OffLoadStep ==
  ASSUME MmuInv, OffLoad
  PROVE  MmuInv'
<1>1. PICK pa \in prog.store :
        /\ pc = "off" /\ read(pa, FALSE) /\ UNCHANGED <<guest, plain, map>>
  BY DEF OffLoad
<1>2. ~MMU_Enabled
  BY <1>1, OffFacts DEF OffPcs
<1>3. UNCHANGED <<control, ttb, dacr, mem, i_tlb, d_tlb, i_cache, d_cache, wb>>
  BY <1>1, <1>2 DEF read, regs
<1>4. UNCHANGED <<prog, pc, next, fresh, plain, map>>
  BY <1>1 DEF guest
<1>5. Sound(pc, map, fresh', i_cache', d_cache', wb', mem', i_tlb', d_tlb')
  BY <1>3, <1>4, SoundNow
<1> QED BY <1>3, <1>4, <1>5, Quiet

-----------------------------------------------------------------------------
(* The system's sequences *)

\* The words of the buffer belong to a larger set, under a map that has them at the
\* same place.
LEMMA DelayedMore ==
  ASSUME NEW b, NEW S, NEW T, NEW m, NEW n, Delayed(b, S, m),
         \A va \in S : va \in T /\ Phys(n, va) = Phys(m, va)
  PROVE  Delayed(b, T, n)
BY DEF Delayed

\* What is in memory stays so under a map that has the pages at the same place.
LEMMA InMemorySame ==
  ASSUME NEW c, NEW b, NEW C, NEW fr, NEW m, NEW n, InMemory(c, b, C, fr, m),
         \A p \in C : n[p].page = m[p].page
  PROVE  InMemory(c, b, C, fr, n)
BY DEF InMemory

\* All of it is when nothing is dirty or buffered.
LEMMA AllInMemory ==
  ASSUME NEW c, NEW b, NEW C, NEW fr, NEW m, \A a : DirtyPlaces(c, a) = {} /\ ~Buffered(b, a)
  PROVE  InMemory(c, b, C, fr, m)
BY DEF InMemory

\* A TLB that is fine stays so where no less may be stale.
LEMMA FineAt ==
  ASSUME NEW t, NEW n, NEW g, NEW cur, NEW q, NEW r
  PROVE  /\ Fine(t, n, g, cur, StaleI(q)) /\ (StaleI(q) => StaleI(r)) => Fine(t, n, g, cur, StaleI(r))
         /\ Fine(t, n, g, cur, StaleD(q)) /\ (StaleD(q) => StaleD(r)) => Fine(t, n, g, cur, StaleD(r))
         /\ Fine(t, n, g, cur, FALSE) => Fine(t, n, g, cur, StaleI(r)) /\ Fine(t, n, g, cur, StaleD(r))
         /\ \A x, s : Fine(t, n, g, x, s) /\ StaleI(r) => Fine(t, n, g, cur, StaleI(r))
         /\ \A x, s : Fine(t, n, g, x, s) /\ StaleD(r) => Fine(t, n, g, cur, StaleD(r))
BY Zenon DEF Fine

\* The memory system of q is sound at r.
LEMMA SoundFrom ==
  ASSUME NEW q, NEW m, NEW fr, NEW ic, NEW dc, NEW b, NEW M, NEW it, NEW dt,
         Sound(q, m, fr, ic, dc, b, M, it, dt),
         NEW r, NEW n, NEW fs, NEW jt, NEW et, fs \in [CodePages -> 0 .. 2],
         Coherent(ic, IPages(r, prog), n, plain), Coherent(dc, DPages(r, prog), n, plain),
         Delayed(b, Delayable(r, prog, plain[DescPa]), n), InMemory(dc, b, CodePages, fs, n),
         Fine(jt, prog.size["tlb"], prog, plain[DescPa], StaleI(r)),
         Fine(et, prog.size["tlb"], prog, plain[DescPa], StaleD(r))
  PROVE  Sound(r, n, fs, ic, dc, b, M, jt, et)
BY Zenon DEF Sound

\* It is when nothing but the place of the system changes.
LEMMA SoundAt ==
  ASSUME NEW q, NEW m, NEW fr, NEW ic, NEW dc, NEW b, NEW M, NEW it, NEW dt,
         Sound(q, m, fr, ic, dc, b, M, it, dt), NEW r,
         IPages(q, prog) \subseteq IPages(r, prog), DPages(q, prog) \subseteq DPages(r, prog),
         Delayable(q, prog, plain[DescPa]) \subseteq Delayable(r, prog, plain[DescPa]),
         StaleI(q) => StaleI(r), StaleD(q) => StaleD(r)
  PROVE  Sound(r, m, fr, ic, dc, b, M, it, dt)
<1>1. /\ fr \in [CodePages -> 0 .. 2]
      /\ Coherent(ic, IPages(q, prog), m, plain) /\ Coherent(dc, DPages(q, prog), m, plain)
      /\ Delayed(b, Delayable(q, prog, plain[DescPa]), m) /\ InMemory(dc, b, CodePages, fr, m)
      /\ Fine(it, prog.size["tlb"], prog, plain[DescPa], StaleI(q))
      /\ Fine(dt, prog.size["tlb"], prog, plain[DescPa], StaleD(q))
  BY DEF Sound
<1>2. Coherent(ic, IPages(r, prog), m, plain)
  BY <1>1, CoherentMore
<1>3. Coherent(dc, DPages(r, prog), m, plain)
  BY <1>1, CoherentMore
<1>4. Delayed(b, Delayable(r, prog, plain[DescPa]), m)
  BY <1>1, DelayedMore
<1>5. /\ Fine(it, prog.size["tlb"], prog, plain[DescPa], StaleI(r))
      /\ Fine(dt, prog.size["tlb"], prog, plain[DescPa], StaleD(r))
  BY <1>1, FineAt, Zenon
<1> QED BY <1>1, <1>2, <1>3, <1>4, <1>5, SoundFrom, Zenon

\* A map that differs from another in the remapped page only.
LEMMA SamePages ==
  ASSUME NEW g \in Programs, NEW m, NEW n, \A p \in VPages \ {FreePage} : n[p].page = m[p].page
  PROVE  /\ \A v \in UsedPages(g) \cup g.code : v # FreePage => n[v].page = m[v].page
         /\ \A va \in Used(g) : PageOf(va) # FreePage => Phys(n, va) = Phys(m, va)
<1>1. \A va \in Used(g) : PageOf(va) \in VPages
  BY UsedWords
<1>2. g.code \subseteq VPages
  BY ProgramParts
<1> QED BY <1>1, <1>2 DEF UsedPages, Phys

\* The page is flushed from the data cache: its words may be in the buffer, and
\* nobody has rights to it any more.
LEMMA FlushPageStep ==
  ASSUME MmuInv, FlushPage
  PROVE  MmuInv'
<1> DEFINE k == mmu_cache_clean(d_cache, mem, FreeVa)
           r == mmu_cache_invalidate(k.cache, k.mem, FreeVa)
<1>1. /\ pc = "idle" /\ pc' = "flushI" /\ next' \in prog.descs /\ UNCHANGED <<prog, fresh, plain>>
      /\ map' = Busy(map) /\ d_cache' = r.cache /\ mem' = r.mem
      /\ UNCHANGED <<control, ttb, dacr, i_tlb, d_tlb, i_cache, wb>>
  BY DEF FlushPage, Step, CleanInvalidateDcacheEntry, OnDcache, regs, P!Remap
<1>2. /\ prog \in Programs /\ next \in Descs /\ map = MapOf[next] /\ FreeVa \in Nat /\ FreePage \in Nat
      /\ va_cache_align(FreeVa) = FreePage * PageWords
  BY <1>1, FreeFacts DEF MmuInv, Typed, Phased
<1>3. /\ Maintained(d_cache, mem, r, prog.size["dway"], prog.size["dset"], DPages(pc, prog), map, plain)
      /\ \A p \in Places(r.cache) : r.cache.lines[p].valid => r.cache.lines[p].tag # va_cache_align(FreeVa)
  <2>1. /\ Sized(prog.size["dway"], prog.size["dset"]) /\ mem \in Memory
        /\ d_cache \in CacheRec(prog.size["dway"], prog.size["dset"])
        /\ Coherent(d_cache, DPages(pc, prog), map, plain)
    BY CacheFacts
  <2> QED BY <1>2, <2>1, MaintainedBoth
<1> HIDE DEF r
<1>4. Sound(pc, map, fresh, i_cache, r.cache, wb, r.mem, i_tlb, d_tlb)
  BY <1>3, SoundDcache
<1>5. /\ DPages(pc, prog) = UsedPages(prog) /\ DPages("flushI", prog) = UsedPages(prog) \ {FreePage}
      /\ IPages(pc, prog) = UsedPages(prog) \cap prog.code
      /\ IPages("flushI", prog) = UsedPages(prog) \cap prog.code
  BY <1>1, PagesAt DEF Running, Remapping
<1>6. \A v \in VPages : map'[v].page = map[v].page
  BY <1>1, <1>2, BusyParts
<1>7. /\ \A v \in UsedPages(prog) \cup prog.code : map'[v].page = map[v].page
      /\ \A va \in Used(prog) : Phys(map', va) = Phys(map, va)
  <2>1. \A va \in Used(prog) : PageOf(va) \in VPages
    BY <1>2, UsedWords
  <2>2. prog.code \subseteq VPages
    BY <1>2, ProgramParts
  <2> QED BY <1>6, <2>1, <2>2 DEF UsedPages, Phys
<1>8. /\ fresh \in [CodePages -> 0 .. 2] /\ InMemory(r.cache, wb, CodePages, fresh, map)
      /\ Coherent(i_cache, IPages(pc, prog), map, plain)
      /\ Coherent(r.cache, DPages(pc, prog), map, plain)
      /\ Delayed(wb, Delayable(pc, prog, plain[DescPa]), map)
      /\ Fine(i_tlb, prog.size["tlb"], prog, plain[DescPa], StaleI(pc))
      /\ Fine(d_tlb, prog.size["tlb"], prog, plain[DescPa], StaleD(pc))
      /\ Settled(d_cache, wb, mem, r.cache, wb, r.mem, plain)
  BY <1>4 DEF Sound
<1>9. Coherent(i_cache, IPages("flushI", prog), map', plain)
  BY <1>5, <1>7, <1>8, CoherentMore
<1>10. Coherent(r.cache, DPages("flushI", prog), map', plain)
  <2>1. Coherent(r.cache, UsedPages(prog) \ {FreePage}, map, plain)
    BY <1>2, <1>3, <1>5, <1>8, CoherentLess
  <2> QED BY <1>5, <1>7, <2>1, CoherentMore
<1>11. Delayed(wb, Delayable("flushI", prog, plain[DescPa]), map')
  <2>1. \A va \in Delayable(pc, prog, plain[DescPa]) :
          va \in Delayable("flushI", prog, plain[DescPa]) /\ va \in Used(prog)
    BY <1>1 DEF Delayable, Used, Running, Remapping
  <2> QED BY <1>7, <1>8, <2>1, DelayedMore
<1>12. InMemory(r.cache, wb, CodePages, fresh, map')
  BY <1>7, <1>8, InMemorySame DEF CodePages
<1>13. /\ Fine(i_tlb, prog.size["tlb"], prog, plain[DescPa], StaleI("flushI"))
       /\ Fine(d_tlb, prog.size["tlb"], prog, plain[DescPa], StaleD("flushI"))
  <2>1. ~StaleI(pc) /\ ~StaleD(pc)
    BY <1>1 DEF StaleI, StaleD
  <2> QED BY <1>8, <2>1, FineAt, Zenon
<1>14. Sound("flushI", map', fresh, i_cache, r.cache, wb, r.mem, i_tlb, d_tlb)
  BY <1>4, <1>8, <1>9, <1>10, <1>11, <1>12, <1>13, SoundFrom, Zenon
<1>15. Sound(pc', map', fresh', i_cache', d_cache', wb', mem', i_tlb', d_tlb')
  BY <1>1, <1>14
<1>16. DescAt(pc', next', wb', mem', plain)
  <2>1. DescAt(pc, next, wb, mem, plain) /\ Complete(d_cache, wb, mem, plain)
    BY DEF MmuInv, Tables, Coherence
  <2>2. DescAt(pc, next, wb, r.mem, plain)
    BY <1>2, <1>8, <2>1, SettledKeeps
  <2> QED BY <1>1, <2>2 DEF DescAt
<1>17. next' \in Descs /\ pc' \in OffPcs \cup OnPcs
  BY <1>1, <1>2, ProgramParts DEF OnPcs, Running, Remapping
<1>18. Phased'
  <2>1. Phased
    BY DEF MmuInv
  <2>2. pc \in OnPcs /\ pc' \notin OffPcs /\ pc' \in Remapping /\ pc' \notin {"idle", "off1", "off2"}
    BY <1>1 DEF OnPcs, OffPcs, Running, Remapping
  <2>3. prog.descs # {} /\ \E d \in Descs : map' = Busy(MapOf[d])
    BY <1>1, <1>2
  <2> QED BY <1>1, <2>1, <2>2, <2>3 DEF Phased
<1> QED BY <1>1, <1>15, <1>16, <1>17, <1>18, Moved

\* The caches hold the same pages throughout the remapping.
LEMMA RemapPages ==
  ASSUME NEW q \in Remapping, NEW r \in Remapping, NEW g
  PROVE  IPages(q, g) = IPages(r, g) /\ DPages(q, g) = DPages(r, g)
<1>1. q \in Running /\ r \in Running
  BY DEF Running
<1>2. IPages(q, g) = UsedPages(g) \cap g.code /\ DPages(q, g) = UsedPages(g) \ {FreePage}
  BY <1>1, PagesAt
<1>3. IPages(r, g) = UsedPages(g) \cap g.code /\ DPages(r, g) = UsedPages(g) \ {FreePage}
  BY <1>1, PagesAt
<1> QED BY <1>2, <1>3

\* The descriptor at the end of a step that stores nothing.
LEMMA DescMoved ==
  ASSUME MmuInv, NEW dc, NEW b, NEW M, Settled(d_cache, wb, mem, dc, b, M, plain)
  PROVE  DescAt(pc, next, b, M, plain)
<1>1. DescAt(pc, next, wb, mem, plain) /\ Complete(d_cache, wb, mem, plain) /\ prog \in Programs
  BY DEF MmuInv, Tables, Coherence, Typed
<1> QED BY <1>1, SettledKeeps

\* The page is flushed from the instruction cache.
LEMMA FlushPageIStep ==
  ASSUME MmuInv, FlushPageI
  PROVE  MmuInv'
<1> DEFINE r == mmu_cache_invalidate(i_cache, mem, FreeVa)
<1>1. /\ pc = "flushI" /\ pc' = "store" /\ UNCHANGED <<prog, next, fresh, plain, map>>
      /\ i_cache' = r.cache /\ mem' = r.mem
      /\ UNCHANGED <<control, ttb, dacr, i_tlb, d_tlb, d_cache, wb>>
  BY DEF FlushPageI, Step, InvalidateIcacheEntry, OnIcache, regs, Silent
<1>2. Maintained(i_cache, mem, r, prog.size["iway"], prog.size["iset"], IPages(pc, prog), map, plain)
  BY FreeFacts, CacheFacts, MaintainedInvalidate, Zenon
<1> HIDE DEF r
<1>3. Sound(pc, map, fresh, r.cache, d_cache, wb, r.mem, i_tlb, d_tlb)
  BY <1>2, SoundIcache DEF Maintained
<1>4. Sound("store", map, fresh, r.cache, d_cache, wb, r.mem, i_tlb, d_tlb)
  <2>0. pc \in Remapping /\ "store" \in Remapping
    BY <1>1 DEF Remapping
  <2>1. IPages("store", prog) = IPages(pc, prog) /\ DPages("store", prog) = DPages(pc, prog)
    BY <2>0, RemapPages
  <2>2. Delayable(pc, prog, plain[DescPa]) \subseteq Delayable("store", prog, plain[DescPa])
    BY <1>1 DEF Delayable, Running, Remapping
  <2>3. ~StaleI(pc) /\ ~StaleD(pc)
    BY <1>1 DEF StaleI, StaleD
  <2> QED BY <1>3, <2>1, <2>2, <2>3, SoundAt
<1>5. Sound(pc', map', fresh', i_cache', d_cache', wb', mem', i_tlb', d_tlb')
  BY <1>1, <1>4
<1>6. DescAt(pc', next', wb', mem', plain)
  <2>1. DescAt(pc, next, wb, r.mem, plain)
    BY <1>3, DescMoved DEF Sound
  <2> QED BY <1>1, <2>1 DEF DescAt
<1>7. next' \in Descs /\ pc' \in OffPcs \cup OnPcs
  BY <1>1 DEF MmuInv, Typed, OnPcs, Running, Remapping
<1>8. Phased'
  <2>1. Phased
    BY DEF MmuInv
  <2> QED BY <1>1, <2>1 DEF Phased, OnPcs, OffPcs, Running, Remapping
<1> QED BY <1>1, <1>5, <1>6, <1>7, <1>8, Moved

\* The descriptor is cleaned: if the buffer has not got it, memory has.
LEMMA CleanDescStep ==
  ASSUME MmuInv, CleanDesc
  PROVE  MmuInv'
<1> DEFINE r == mmu_cache_clean(d_cache, mem, DescVa)
<1>1. /\ pc = "clean" /\ pc' = "drain" /\ UNCHANGED <<prog, next, fresh, plain, map>>
      /\ d_cache' = r.cache /\ mem' = r.mem
      /\ UNCHANGED <<control, ttb, dacr, i_tlb, d_tlb, i_cache, wb>>
  BY DEF CleanDesc, Step, CleanDcacheEntry, OnDcache, regs, Silent
<1>2. DescVa \in Used(prog) /\ Accessible(DescVa) /\ pc \in Running
  BY <1>1, TablesAssumption DEF Used, Accessible, Running, Remapping
<1>3. /\ prog \in Programs /\ DescVa \in Nat /\ LikeMap(map) /\ PageOf(DescVa) \in Nat
      /\ OnlyPage(DPages(pc, prog), map, PageOf(DescVa)) /\ map[PageOf(DescVa)].page \in Nat
  BY <1>2, DataPage, UsedWords
<1>4. /\ Maintained(d_cache, mem, r, prog.size["dway"], prog.size["dset"], DPages(pc, prog), map, plain)
      /\ \A q \in Places(d_cache) : /\ r.cache.lines[q].valid
                                    /\ r.cache.lines[q].tag = va_cache_align(DescVa)
                                    => r.cache.lines[q].dirty = {}
  BY <1>3, CacheFacts, MaintainedClean, Zenon
<1> HIDE DEF r
<1>5. Sound(pc, map, fresh, i_cache, r.cache, wb, r.mem, i_tlb, d_tlb)
  BY <1>4, SoundDcache
<1>6. DirtyPlaces(r.cache, DescPa) = {}
  <2>1. /\ r.cache \in CacheRec(prog.size["dway"], prog.size["dset"])
        /\ Coherent(r.cache, DPages(pc, prog), map, plain)
    BY <1>5 DEF Sound
  <2>2. Places(r.cache) = Places(d_cache)
    BY <2>1, CacheFacts, CacheParts
  <2>3. CleanLines(r.cache, PageOf(DescVa))
    BY <1>3, <1>4, <2>2, WordParts DEF CleanLines
  <2>4. PageOf(DescPa) = map[PageOf(DescVa)].page
    <3>1. Phys(map, DescVa) = DescPa
      BY <1>3, LikeMapped
    <3> QED BY <1>3, <3>1, PhysParts
  <2>5. DescPa \in DOMAIN Loaded
    BY <1>3, FreeFacts
  <2> QED BY <1>3, <2>1, <2>3, <2>4, <2>5, CleanPage, Zenon
<1>7. Sound("drain", map, fresh, i_cache, r.cache, wb, r.mem, i_tlb, d_tlb)
  <2>0. pc \in Remapping /\ "drain" \in Remapping
    BY <1>1 DEF Remapping
  <2>1. IPages("drain", prog) = IPages(pc, prog) /\ DPages("drain", prog) = DPages(pc, prog)
    BY <2>0, RemapPages
  <2>2. Delayable(pc, prog, plain[DescPa]) \subseteq Delayable("drain", prog, plain[DescPa])
    BY <1>1 DEF Delayable, Running, Remapping
  <2>3. StaleI("drain") /\ StaleD("drain")
    BY DEF StaleI, StaleD
  <2> QED BY <1>5, <2>1, <2>2, <2>3, SoundAt
<1>8. Sound(pc', map', fresh', i_cache', d_cache', wb', mem', i_tlb', d_tlb')
  BY <1>1, <1>7
<1>9. DescAt(pc', next', wb', mem', plain)
  <2>1. Settled(d_cache, wb, mem, r.cache, wb, r.mem, plain)
    BY <1>5 DEF Sound
  <2>2. DescAt(pc, next, wb, r.mem, plain)
    BY <2>1, DescMoved
  <2>3. DescPa \in DOMAIN Loaded
    BY <1>3, FreeFacts
  <2>4. ~Buffered(wb, DescPa) => r.mem[DescPa] = plain[DescPa]
    BY <1>6, <2>1, <2>3 DEF Settled
  <2> QED BY <1>1, <2>2, <2>4 DEF DescAt
<1>10. next' \in Descs /\ pc' \in OffPcs \cup OnPcs
  BY <1>1 DEF MmuInv, Typed, OnPcs, Running, Remapping
<1>11. Phased'
  <2>1. Phased
    BY DEF MmuInv
  <2> QED BY <1>1, <2>1 DEF Phased, OnPcs, OffPcs, Running, Remapping
<1> QED BY <1>1, <1>8, <1>9, <1>10, <1>11, Moved

\* The buffer is drained: memory has the descriptor.
LEMMA DrainDescStep ==
  ASSUME MmuInv, DrainDesc
  PROVE  MmuInv'
<1> DEFINE M == mmu_wb_drain_all(wb, mem)
<1>1. /\ pc = "drain" /\ pc' = "tlbD" /\ UNCHANGED <<prog, next, plain, map>>
      /\ fresh' = Drained /\ wb' = <<>> /\ mem' = M
      /\ UNCHANGED <<control, ttb, dacr, i_tlb, d_tlb, i_cache, d_cache>>
  BY DEF DrainDesc, Step, DrainWriteBuffer, regs
<1>2. Sound(pc, map, Drained, i_cache, d_cache, <<>>, M, i_tlb, d_tlb)
  BY SoundDrained
<1> HIDE DEF M
<1>3. Sound("tlbD", map, Drained, i_cache, d_cache, <<>>, M, i_tlb, d_tlb)
  <2>0. pc \in Remapping /\ "tlbD" \in Remapping
    BY <1>1 DEF Remapping
  <2>1. IPages("tlbD", prog) = IPages(pc, prog) /\ DPages("tlbD", prog) = DPages(pc, prog)
    BY <2>0, RemapPages
  <2>2. StaleI("tlbD") /\ StaleD("tlbD")
    BY DEF StaleI, StaleD
  <2>3. /\ Drained \in [CodePages -> 0 .. 2]
        /\ Coherent(i_cache, IPages(pc, prog), map, plain) /\ Coherent(d_cache, DPages(pc, prog), map, plain)
        /\ InMemory(d_cache, <<>>, CodePages, Drained, map)
    BY <1>2 DEF Sound
  <2>4. Delayed(<<>>, Delayable("tlbD", prog, plain[DescPa]), map)
    BY SeparateNone
  <2>5. /\ Fine(i_tlb, prog.size["tlb"], prog, plain[DescPa], StaleI("tlbD"))
        /\ Fine(d_tlb, prog.size["tlb"], prog, plain[DescPa], StaleD("tlbD"))
    BY <2>2, TlbsFine, FineAt, Zenon
  <2> QED BY <1>2, <2>1, <2>3, <2>4, <2>5, SoundFrom, Zenon
<1>4. Sound(pc', map', fresh', i_cache', d_cache', wb', mem', i_tlb', d_tlb')
  BY <1>1, <1>3
<1>5. DescAt(pc', next', wb', mem', plain)
  <2>1. DescAt(pc, next, <<>>, M, plain)
    BY <1>2, DescMoved DEF Sound
  <2>2. ~Buffered(<<>>, DescPa)
    BY EmptyBuffer
  <2> QED BY <1>1, <2>1, <2>2 DEF DescAt
<1>6. next' \in Descs /\ pc' \in OffPcs \cup OnPcs
  BY <1>1 DEF MmuInv, Typed, OnPcs, Running, Remapping
<1>7. Phased'
  <2>1. Phased
    BY DEF MmuInv
  <2> QED BY <1>1, <2>1 DEF Phased, OnPcs, OffPcs, Running, Remapping
<1> QED BY <1>1, <1>4, <1>5, <1>6, <1>7, Moved

\* The entry of the page leaves the data TLB.
LEMMA TlbEntryDStep ==
  ASSUME MmuInv, TlbEntryD
  PROVE  MmuInv'
<1> DEFINE t == mmu_tlb_invalidate_entry(d_tlb, FreeVa)
<1>1. /\ pc = "tlbD" /\ pc' = "tlbI" /\ UNCHANGED <<prog, next, fresh, plain, map>>
      /\ d_tlb' = t /\ UNCHANGED <<control, ttb, dacr, i_tlb, mem, wb, i_cache, d_cache>>
  BY DEF TlbEntryD, Step, InvalidateDtlbEntry, OnTlbs, regs, Silent
<1>2. FreeVa \in Known(prog) /\ PageOf(FreeVa) = FreePage /\ prog.size["tlb"] \in Nat
  BY TlbsFine, FreeFacts
<1>3. Fine(t, prog.size["tlb"], prog, plain[DescPa], FALSE)
  BY <1>2, TlbsFine, TlbInvalidated, Zenon
<1> HIDE DEF t
<1>4. Sound(pc, map, fresh, i_cache, d_cache, wb, mem, i_tlb, d_tlb)
  BY SoundNow
<1>5. Sound("tlbI", map, fresh, i_cache, d_cache, wb, mem, i_tlb, t)
  <2>0. pc \in Remapping /\ "tlbI" \in Remapping
    BY <1>1 DEF Remapping
  <2>1. IPages("tlbI", prog) = IPages(pc, prog) /\ DPages("tlbI", prog) = DPages(pc, prog)
    BY <2>0, RemapPages
  <2>2. Delayable(pc, prog, plain[DescPa]) = Delayable("tlbI", prog, plain[DescPa])
    BY <1>1 DEF Delayable, Running, Remapping
  <2>3. StaleI("tlbI")
    BY DEF StaleI
  <2>4. /\ Fine(i_tlb, prog.size["tlb"], prog, plain[DescPa], StaleI("tlbI"))
        /\ Fine(t, prog.size["tlb"], prog, plain[DescPa], StaleD("tlbI"))
    BY <1>3, <2>3, TlbsFine, FineAt, Zenon
  <2>5. /\ fresh \in [CodePages -> 0 .. 2]
        /\ Coherent(i_cache, IPages(pc, prog), map, plain) /\ Coherent(d_cache, DPages(pc, prog), map, plain)
        /\ Delayed(wb, Delayable(pc, prog, plain[DescPa]), map)
        /\ InMemory(d_cache, wb, CodePages, fresh, map)
    BY <1>4 DEF Sound
  <2> QED BY <1>4, <2>1, <2>2, <2>4, <2>5, SoundFrom
<1>6. Sound(pc', map', fresh', i_cache', d_cache', wb', mem', i_tlb', d_tlb')
  BY <1>1, <1>5
<1>7. DescAt(pc', next', wb', mem', plain)
  BY <1>1 DEF MmuInv, Tables, DescAt
<1>8. next' \in Descs /\ pc' \in OffPcs \cup OnPcs
  BY <1>1 DEF MmuInv, Typed, OnPcs, Running, Remapping
<1>9. Phased'
  <2>1. Phased
    BY DEF MmuInv
  <2> QED BY <1>1, <2>1 DEF Phased, OnPcs, OffPcs, Running, Remapping
<1> QED BY <1>1, <1>6, <1>7, <1>8, <1>9, Moved

\* The entry of the page leaves the instruction TLB and the new mapping is in force.
LEMMA TlbEntryIStep ==
  ASSUME MmuInv, TlbEntryI
  PROVE  MmuInv'
<1> DEFINE t == mmu_tlb_invalidate_entry(i_tlb, FreeVa)
<1>1. /\ pc = "tlbI" /\ pc' = "idle" /\ UNCHANGED <<prog, next, fresh, plain>> /\ map' = MapOf[next]
      /\ i_tlb' = t /\ UNCHANGED <<control, ttb, dacr, d_tlb, mem, wb, i_cache, d_cache>>
  BY DEF TlbEntryI, Step, InvalidateItlbEntry, OnTlbs, regs, P!Remap
<1>2. FreeVa \in Known(prog) /\ PageOf(FreeVa) = FreePage /\ prog.size["tlb"] \in Nat
      /\ prog \in Programs /\ next \in Descs
  BY TlbsFine, FreeFacts DEF MmuInv, Typed
<1>3. Fine(t, prog.size["tlb"], prog, plain[DescPa], FALSE)
  BY <1>2, TlbsFine, TlbInvalidated, Zenon
<1> HIDE DEF t
<1>4. Sound(pc, map, fresh, i_cache, d_cache, wb, mem, i_tlb, d_tlb)
  BY SoundNow
<1>5. prog.descs # {} /\ LikeMap(map)
  BY <1>1, OnMap DEF MmuInv, Phased, OnPcs, Running, Remapping
<1>6. \A p \in VPages \ {FreePage} : map'[p].page = map[p].page
  BY <1>1, <1>2, <1>5, LikeMapped
<1>7. /\ \A v \in UsedPages(prog) \cup prog.code : v # FreePage => map'[v].page = map[v].page
      /\ \A va \in Used(prog) : PageOf(va) # FreePage => Phys(map', va) = Phys(map, va)
  BY <1>2, <1>6, SamePages
<1>8. FreePage \notin prog.code
  BY <1>2, <1>5, ProgramParts
<1>9. /\ fresh \in [CodePages -> 0 .. 2]
      /\ Coherent(i_cache, IPages(pc, prog), map, plain) /\ Coherent(d_cache, DPages(pc, prog), map, plain)
      /\ Delayed(wb, Delayable(pc, prog, plain[DescPa]), map)
      /\ InMemory(d_cache, wb, CodePages, fresh, map)
  BY <1>4 DEF Sound
<1>10. Sound("idle", map', fresh, i_cache, d_cache, wb, mem, t, d_tlb)
  <2>1. /\ IPages("idle", prog) = UsedPages(prog) \cap prog.code /\ IPages(pc, prog) = UsedPages(prog) \cap prog.code
        /\ DPages("idle", prog) = UsedPages(prog) /\ DPages(pc, prog) = UsedPages(prog) \ {FreePage}
    BY <1>1, PagesAt DEF Running, Remapping
  <2>2. Coherent(i_cache, IPages("idle", prog), map', plain)
    BY <1>7, <1>8, <1>9, <2>1, CoherentMore
  <2>3. Coherent(d_cache, DPages("idle", prog), map', plain)
    BY <1>7, <1>9, <2>1, CoherentMore
  <2>4. Delayed(wb, Delayable("idle", prog, plain[DescPa]), map')
    <3>1. \A va \in Delayable(pc, prog, plain[DescPa]) :
            /\ va \in Delayable("idle", prog, plain[DescPa])
            /\ va \in Used(prog) /\ PageOf(va) # FreePage
      BY <1>1 DEF Delayable, Used, Running, Remapping
    <3> QED BY <1>7, <1>9, <3>1, DelayedMore
  <2>5. InMemory(d_cache, wb, CodePages, fresh, map')
    BY <1>7, <1>8, <1>9, InMemorySame DEF CodePages
  <2>6. ~StaleD(pc)
    BY <1>1 DEF StaleD
  <2>7. /\ Fine(t, prog.size["tlb"], prog, plain[DescPa], StaleI("idle"))
        /\ Fine(d_tlb, prog.size["tlb"], prog, plain[DescPa], StaleD("idle"))
    BY <1>3, <2>6, TlbsFine, FineAt, Zenon
  <2> QED BY <1>4, <1>9, <2>2, <2>3, <2>4, <2>5, <2>7, SoundFrom, Zenon
<1>11. Sound(pc', map', fresh', i_cache', d_cache', wb', mem', i_tlb', d_tlb')
  BY <1>1, <1>10
<1>12. DescAt(pc', next', wb', mem', plain)
  BY <1>1 DEF MmuInv, Tables, DescAt
<1>13. next' \in Descs /\ pc' \in OffPcs \cup OnPcs
  BY <1>1 DEF MmuInv, Typed, OnPcs, Running, Remapping
<1>14. Phased'
  <2>1. Phased
    BY DEF MmuInv
  <2> QED BY <1>1, <2>1 DEF Phased, OnPcs, OffPcs, Running, Remapping
<1> QED BY <1>1, <1>11, <1>12, <1>13, <1>14, Moved

\* Where nothing is delayed the buffer holds no word.
LEMMA OffDelay ==
  ASSUME NEW q, NEW g, NEW cur, q \in OffPcs \cup {"off2"}
  PROVE  Delayable(q, g, cur) = {} /\ DPages(q, g) = {}
<1>1. q \notin Running /\ q # "off1"
  BY DEF OffPcs, Running, Remapping
<1>2. Delayable(q, g, cur) = {}
  BY <1>1 DEF Delayable
<1>3. DPages(q, g) = {}
  BY <1>1, PagesAt
<1> QED BY <1>2, <1>3

\* The registers are written while the MMU is off.
LEMMA BootStep ==
  ASSUME MmuInv, BootTtb \/ BootDacr
  PROVE  MmuInv'
<1>1. /\ \/ pc = "boot" /\ pc' = "boot2" /\ ttb' = Table /\ UNCHANGED <<control, dacr>>
         \/ pc = "boot2" /\ pc' = "off" /\ dacr' = Access /\ UNCHANGED <<control, ttb>>
      /\ UNCHANGED <<prog, next, fresh, plain, map, mem, i_tlb, d_tlb, i_cache, d_cache, wb>>
  BY DEF BootTtb, BootDacr, Step, WriteTtb, WriteDacr, Silent
<1>2. Sound(pc, map, fresh, i_cache, d_cache, wb, mem, i_tlb, d_tlb)
  BY SoundNow
<1>3. Sound(pc', map, fresh, i_cache, d_cache, wb, mem, i_tlb, d_tlb)
  <2>1. pc \in {"boot", "boot2", "off"} /\ pc' \in {"boot", "boot2", "off"}
    BY <1>1
  <2>2. pc \in OffPcs /\ pc' \in OffPcs
    BY <2>1 DEF OffPcs
  <2>3. IPages(pc, prog) = IPages(pc', prog)
    <3>1. IPages(pc, prog) = {PageOf(va) : va \in prog.store}
      BY <2>1, PagesAt
    <3>2. IPages(pc', prog) = {PageOf(va) : va \in prog.store}
      BY <2>1, PagesAt
    <3> QED BY <3>1, <3>2
  <2>4. /\ Delayable(pc, prog, plain[DescPa]) = {} /\ DPages(pc, prog) = {}
        /\ Delayable(pc', prog, plain[DescPa]) = {} /\ DPages(pc', prog) = {}
    BY <2>2, OffDelay
  <2>5. StaleI(pc') /\ StaleD(pc')
    BY <2>1 DEF StaleI, StaleD
  <2> QED BY <1>2, <2>3, <2>4, <2>5, SoundAt
<1>4. Sound(pc', map', fresh', i_cache', d_cache', wb', mem', i_tlb', d_tlb')
  BY <1>1, <1>3
<1>5. DescAt(pc', next', wb', mem', plain)
  <2>1. DescAt(pc, next, wb, mem, plain)
    BY DEF MmuInv, Tables
  <2> QED BY <1>1, <2>1 DEF DescAt
<1>6. next' \in Descs /\ pc' \in OffPcs \cup OnPcs
  BY <1>1 DEF MmuInv, Typed, OffPcs
<1>7. Phased'
  <2>1. Phased
    BY DEF MmuInv
  <2>2. pc \in OffPcs /\ pc' \in OffPcs /\ pc' \notin OnPcs /\ pc' \notin Remapping
        /\ pc' \notin {"idle", "off1", "off2"}
    BY <1>1 DEF OffPcs, OnPcs, Running, Remapping
  <2>3. (control = {} \/ control = {"W"}) /\ map = Identity
    BY <2>1, <2>2 DEF Phased
  <2>4. pc' # "boot" => ttb' = Table
    BY <1>1, <2>1 DEF Phased
  <2>5. pc' \notin {"boot", "boot2"} => dacr' = Access
    BY <1>1
  <2>6. control' = control /\ map' = map
    BY <1>1
  <2> QED BY <2>2, <2>3, <2>4, <2>5, <2>6 DEF Phased
<1> QED BY <1>1, <1>4, <1>5, <1>6, <1>7, Moved

\* The instruction cache is emptied before the MMU is turned on,
LEMMA TurnOnIcacheStep ==
  ASSUME MmuInv, TurnOnIcache
  PROVE  MmuInv'
<1> DEFINE r == mmu_cache_invalidate_all(i_cache, mem)
<1>1. /\ pc = "off" /\ pc' = "on1" /\ UNCHANGED <<prog, next, fresh, plain, map>>
      /\ i_cache' = r.cache /\ mem' = r.mem
      /\ UNCHANGED <<control, ttb, dacr, i_tlb, d_tlb, d_cache, wb>>
  BY DEF TurnOnIcache, Step, InvalidateIcache, OnIcache, regs, Silent
<1>2. /\ Maintained(i_cache, mem, r, prog.size["iway"], prog.size["iset"], IPages(pc, prog), map, plain)
      /\ \A p \in Places(r.cache) : ~r.cache.lines[p].valid
  BY CacheFacts, MaintainedEmpty, Zenon
<1> HIDE DEF r
<1>3. Sound(pc, map, fresh, r.cache, d_cache, wb, r.mem, i_tlb, d_tlb)
  BY <1>2, SoundIcache DEF Maintained
<1>4. Sound("on1", map, fresh, r.cache, d_cache, wb, r.mem, i_tlb, d_tlb)
  <2>1. Coherent(r.cache, IPages("on1", prog), map, plain)
    BY <1>2, CoherentEmpty
  <2>2. /\ fresh \in [CodePages -> 0 .. 2] /\ Coherent(d_cache, DPages(pc, prog), map, plain)
        /\ Delayed(wb, Delayable(pc, prog, plain[DescPa]), map)
        /\ InMemory(d_cache, wb, CodePages, fresh, map)
    BY <1>3 DEF Sound
  <2>3. /\ Delayable(pc, prog, plain[DescPa]) = {} /\ DPages(pc, prog) = {}
        /\ Delayable("on1", prog, plain[DescPa]) = {} /\ DPages("on1", prog) = {}
    BY <1>1, OffDelay DEF OffPcs
  <2>4. StaleI("on1") /\ StaleD("on1")
    BY DEF StaleI, StaleD
  <2>5. /\ Fine(i_tlb, prog.size["tlb"], prog, plain[DescPa], StaleI("on1"))
        /\ Fine(d_tlb, prog.size["tlb"], prog, plain[DescPa], StaleD("on1"))
    BY <2>4, TlbsFine, FineAt, Zenon
  <2> QED BY <1>3, <2>1, <2>2, <2>3, <2>5, SoundFrom
<1>5. Sound(pc', map', fresh', i_cache', d_cache', wb', mem', i_tlb', d_tlb')
  BY <1>1, <1>4
<1>6. DescAt(pc', next', wb', mem', plain)
  <2>1. DescAt(pc, next, wb, r.mem, plain)
    BY <1>3, DescMoved DEF Sound
  <2> QED BY <1>1, <2>1 DEF DescAt
<1>7. next' \in Descs /\ pc' \in OffPcs \cup OnPcs
  BY <1>1 DEF MmuInv, Typed, OffPcs
<1>8. Phased'
  <2>1. Phased
    BY DEF MmuInv
  <2> QED BY <1>1, <2>1 DEF Phased, OnPcs, OffPcs, Running, Remapping
<1> QED BY <1>1, <1>5, <1>6, <1>7, <1>8, Moved

\* and so are the TLBs: no entry is stale.
LEMMA TurnOnTlbsStep ==
  ASSUME MmuInv, TurnOnTlbs
  PROVE  MmuInv'
<1> DEFINE it == mmu_tlb_invalidate_all(i_tlb)
           dt == mmu_tlb_invalidate_all(d_tlb)
<1>1. /\ pc = "on1" /\ pc' = "on2" /\ UNCHANGED <<prog, next, fresh, plain, map>>
      /\ i_tlb' = it /\ d_tlb' = dt
      /\ UNCHANGED <<control, ttb, dacr, mem, i_cache, d_cache, wb>>
  BY DEF TurnOnTlbs, Step, InvalidateTlbs, OnTlbs, regs, Silent
<1>2. /\ Fine(it, prog.size["tlb"], prog, plain[DescPa], FALSE)
      /\ Fine(dt, prog.size["tlb"], prog, plain[DescPa], FALSE)
  BY TlbsFine, Zenon
<1> HIDE DEF it, dt
<1>3. Sound(pc, map, fresh, i_cache, d_cache, wb, mem, i_tlb, d_tlb)
  BY SoundNow
<1>4. Sound("on2", map, fresh, i_cache, d_cache, wb, mem, it, dt)
  <2>1. IPages(pc, prog) = {} /\ IPages("on2", prog) = {}
    BY <1>1, PagesAt
  <2>2. /\ fresh \in [CodePages -> 0 .. 2] /\ Coherent(i_cache, IPages(pc, prog), map, plain)
        /\ Coherent(d_cache, DPages(pc, prog), map, plain)
        /\ Delayed(wb, Delayable(pc, prog, plain[DescPa]), map)
        /\ InMemory(d_cache, wb, CodePages, fresh, map)
    BY <1>3 DEF Sound
  <2>3. /\ Delayable(pc, prog, plain[DescPa]) = {} /\ DPages(pc, prog) = {}
        /\ Delayable("on2", prog, plain[DescPa]) = {} /\ DPages("on2", prog) = {}
    BY <1>1, OffDelay DEF OffPcs
  <2>4. /\ Fine(it, prog.size["tlb"], prog, plain[DescPa], StaleI("on2"))
        /\ Fine(dt, prog.size["tlb"], prog, plain[DescPa], StaleD("on2"))
    BY <1>2, FineAt, Zenon
  <2> QED BY <1>3, <2>1, <2>2, <2>3, <2>4, SoundFrom
<1>5. Sound(pc', map', fresh', i_cache', d_cache', wb', mem', i_tlb', d_tlb')
  BY <1>1, <1>4
<1>6. DescAt(pc', next', wb', mem', plain)
  <2>1. DescAt(pc, next, wb, mem, plain)
    BY DEF MmuInv, Tables
  <2> QED BY <1>1, <2>1 DEF DescAt
<1>7. next' \in Descs /\ pc' \in OffPcs \cup OnPcs
  BY <1>1 DEF MmuInv, Typed, OffPcs
<1>8. Phased'
  <2>1. Phased
    BY DEF MmuInv
  <2> QED BY <1>1, <2>1 DEF Phased, OnPcs, OffPcs, Running, Remapping
<1> QED BY <1>1, <1>5, <1>6, <1>7, <1>8, Moved

\* The MMU is turned on with nothing in the caches, the buffer and the TLBs.
LEMMA TurnOnStep ==
  ASSUME MmuInv, TurnOn
  PROVE  MmuInv'
<1>1. /\ pc = "on2" /\ pc' = "idle" /\ UNCHANGED <<prog, next, fresh, plain>> /\ map' = MapOf[next]
      /\ \E bits \in prog.controls : control' = bits \cup {"W"}
      /\ UNCHANGED <<ttb, dacr, mem, i_tlb, d_tlb, i_cache, d_cache, wb>>
  BY DEF TurnOn, Step, WriteControl, P!Remap
<1>2. Sound(pc, map, fresh, i_cache, d_cache, wb, mem, i_tlb, d_tlb)
  BY SoundNow
<1>3. pc \in OffPcs
  BY <1>1 DEF OffPcs
<1>4. Sound("idle", map', fresh, i_cache, d_cache, wb, mem, i_tlb, d_tlb)
  <2>1. IPages(pc, prog) = {}
    BY <1>1, PagesAt
  <2>2. /\ fresh \in [CodePages -> 0 .. 2] /\ Coherent(i_cache, IPages(pc, prog), map, plain)
        /\ Coherent(d_cache, DPages(pc, prog), map, plain)
        /\ Delayed(wb, Delayable(pc, prog, plain[DescPa]), map)
    BY <1>2 DEF Sound
  <2>3. Delayable(pc, prog, plain[DescPa]) = {} /\ DPages(pc, prog) = {}
    BY <1>3, OffDelay
  <2>4. Coherent(i_cache, IPages("idle", prog), map', plain)
    BY <2>1, <2>2, CoherentMore
  <2>5. Coherent(d_cache, DPages("idle", prog), map', plain)
    BY <2>2, <2>3, CoherentMore
  <2>6. Delayed(wb, Delayable("idle", prog, plain[DescPa]), map')
    BY <2>2, <2>3, DelayedMore
  <2>7. InMemory(d_cache, wb, CodePages, fresh, map')
    BY <1>3, OffFacts, AllInMemory
  <2>8. ~StaleI(pc) /\ ~StaleD(pc)
    BY <1>1 DEF StaleI, StaleD
  <2>9. /\ Fine(i_tlb, prog.size["tlb"], prog, plain[DescPa], StaleI("idle"))
        /\ Fine(d_tlb, prog.size["tlb"], prog, plain[DescPa], StaleD("idle"))
    BY <2>8, TlbsFine, FineAt, Zenon
  <2> QED BY <1>2, <2>2, <2>4, <2>5, <2>6, <2>7, <2>9, SoundFrom, Zenon
<1>5. Sound(pc', map', fresh', i_cache', d_cache', wb', mem', i_tlb', d_tlb')
  BY <1>1, <1>4
<1>6. DescAt(pc', next', wb', mem', plain)
  <2>1. DescAt(pc, next, wb, mem, plain)
    BY DEF MmuInv, Tables
  <2> QED BY <1>1, <2>1 DEF DescAt
<1>7. next' \in Descs /\ pc' \in OffPcs \cup OnPcs
  BY <1>1 DEF MmuInv, Typed, OnPcs, Running
<1>8. Phased'
  <2>1. ttb = Table /\ dacr = Access
    BY <1>1 DEF MmuInv, Phased
  <2>2. pc' \notin OffPcs /\ pc' \notin Remapping
    BY <1>1 DEF OffPcs, Remapping
  <2> QED BY <1>1, <2>1, <2>2 DEF Phased
<1> QED BY <1>1, <1>5, <1>6, <1>7, <1>8, Moved

\* Before the MMU is turned off both caches are written back and emptied,
LEMMA TurnOffCachesStep ==
  ASSUME MmuInv, TurnOffCaches
  PROVE  MmuInv'
<1> DEFINE i == mmu_cache_invalidate_all(i_cache, mem)
           d == mmu_cache_invalidate_all(d_cache, i.mem)
<1>1. /\ pc = "idle" /\ pc' = "off1" /\ UNCHANGED <<prog, next, fresh, plain, map>>
      /\ i_cache' = i.cache /\ d_cache' = d.cache /\ mem' = d.mem
      /\ UNCHANGED <<control, ttb, dacr, i_tlb, d_tlb, wb>>
  BY DEF TurnOffCaches, Step, InvalidateCaches, regs, Silent
<1>2. /\ Sound(pc, map, fresh, i.cache, d.cache, wb, d.mem, i_tlb, d_tlb)
      /\ \A p \in Places(i.cache) : ~i.cache.lines[p].valid
      /\ \A p \in Places(d.cache) : ~d.cache.lines[p].valid
  BY SoundCaches, Zenon
<1> HIDE DEF i, d
<1>3. Sound("off1", map, fresh, i.cache, d.cache, wb, d.mem, i_tlb, d_tlb)
  <2>1. Coherent(i.cache, IPages("off1", prog), map, plain) /\ Coherent(d.cache, DPages("off1", prog), map, plain)
    BY <1>2, CoherentEmpty
  <2>2. /\ fresh \in [CodePages -> 0 .. 2]
        /\ Delayed(wb, Delayable(pc, prog, plain[DescPa]), map)
        /\ InMemory(d.cache, wb, CodePages, fresh, map)
    BY <1>2 DEF Sound
  <2>3. Delayable(pc, prog, plain[DescPa]) \subseteq Delayable("off1", prog, plain[DescPa])
    BY <1>1 DEF Delayable, Running, Remapping
  <2>4. Delayed(wb, Delayable("off1", prog, plain[DescPa]), map)
    BY <2>2, <2>3, DelayedMore
  <2>5. ~StaleI(pc) /\ ~StaleD(pc)
    BY <1>1 DEF StaleI, StaleD
  <2>6. /\ Fine(i_tlb, prog.size["tlb"], prog, plain[DescPa], StaleI("off1"))
        /\ Fine(d_tlb, prog.size["tlb"], prog, plain[DescPa], StaleD("off1"))
    BY <2>5, TlbsFine, FineAt, Zenon
  <2> QED BY <1>2, <2>1, <2>2, <2>4, <2>6, SoundFrom, Zenon
<1>4. Sound(pc', map', fresh', i_cache', d_cache', wb', mem', i_tlb', d_tlb')
  BY <1>1, <1>3
<1>5. DescAt(pc', next', wb', mem', plain)
  <2>1. DescAt(pc, next, wb, d.mem, plain)
    BY <1>2, DescMoved DEF Sound
  <2> QED BY <1>1, <2>1 DEF DescAt
<1>6. next' \in Descs /\ pc' \in OffPcs \cup OnPcs
  BY <1>1 DEF MmuInv, Typed, OnPcs
<1>7. Phased'
  <2>1. Phased
    BY DEF MmuInv
  <2> QED BY <1>1, <2>1 DEF Phased, OnPcs, OffPcs, Running, Remapping
<1> QED BY <1>1, <1>4, <1>5, <1>6, <1>7, Moved

\* then the buffer is drained, so that memory has everything,
LEMMA TurnOffDrainStep ==
  ASSUME MmuInv, TurnOffDrain
  PROVE  MmuInv'
<1> DEFINE M == mmu_wb_drain_all(wb, mem)
           fr == [p \in CodePages |-> 2]
<1>1. /\ pc = "off1" /\ pc' = "off2" /\ UNCHANGED <<prog, next, plain, map>>
      /\ fresh' = fr /\ wb' = <<>> /\ mem' = M
      /\ UNCHANGED <<control, ttb, dacr, i_tlb, d_tlb, i_cache, d_cache>>
  BY DEF TurnOffDrain, Step, DrainWriteBuffer, regs
<1>2. Sound(pc, map, fresh, i_cache, d_cache, <<>>, M, i_tlb, d_tlb)
  BY SoundDrain
<1> HIDE DEF M
<1>3. Sound("off2", map, fr, i_cache, d_cache, <<>>, M, i_tlb, d_tlb)
  <2>1. IPages("off2", prog) = IPages(pc, prog)
    <3>1. IPages(pc, prog) = {}
      BY <1>1, PagesAt
    <3>2. IPages("off2", prog) = {}
      BY PagesAt
    <3> QED BY <3>1, <3>2
  <2>2. DPages("off2", prog) = {} /\ DPages(pc, prog) = {}
    BY <1>1, PagesAt DEF Running, Remapping
  <2>3. Coherent(i_cache, IPages(pc, prog), map, plain) /\ Coherent(d_cache, DPages(pc, prog), map, plain)
    BY <1>2 DEF Sound
  <2>4. \A a : DirtyPlaces(d_cache, a) = {} /\ ~Buffered(<<>>, a)
    BY <2>2, <2>3, EmptyCoherent, EmptyBuffer
  <2>5. InMemory(d_cache, <<>>, CodePages, fr, map)
    BY <2>4, AllInMemory, Zenon
  <2>6. fr \in [CodePages -> 0 .. 2]
    OBVIOUS
  <2> HIDE DEF fr
  <2>7. Delayed(<<>>, Delayable("off2", prog, plain[DescPa]), map)
    BY SeparateNone
  <2>8. ~StaleI(pc) /\ ~StaleD(pc)
    BY <1>1 DEF StaleI, StaleD
  <2>9. /\ Fine(i_tlb, prog.size["tlb"], prog, plain[DescPa], StaleI("off2"))
        /\ Fine(d_tlb, prog.size["tlb"], prog, plain[DescPa], StaleD("off2"))
    BY <2>8, TlbsFine, FineAt, Zenon
  <2>10. Coherent(i_cache, IPages("off2", prog), map, plain) /\ Coherent(d_cache, DPages("off2", prog), map, plain)
    BY <2>1, <2>2, <2>3
  <2> QED BY <1>2, <2>5, <2>6, <2>7, <2>9, <2>10, SoundFrom, Zenon
<1> HIDE DEF fr
<1>4. Sound(pc', map', fresh', i_cache', d_cache', wb', mem', i_tlb', d_tlb')
  BY <1>1, <1>3
<1>5. DescAt(pc', next', wb', mem', plain)
  <2>1. DescAt(pc, next, <<>>, M, plain)
    BY <1>2, DescMoved DEF Sound
  <2> QED BY <1>1, <2>1 DEF DescAt
<1>6. next' \in Descs /\ pc' \in OffPcs \cup OnPcs
  BY <1>1 DEF MmuInv, Typed, OnPcs
<1>7. Phased'
  <2>1. Phased
    BY DEF MmuInv
  <2> QED BY <1>1, <2>1 DEF Phased, OnPcs, OffPcs, Running, Remapping
<1> QED BY <1>1, <1>4, <1>5, <1>6, <1>7, Moved

\* and the MMU goes off.
LEMMA TurnOffStep ==
  ASSUME MmuInv, TurnOff
  PROVE  MmuInv'
<1>1. /\ pc = "off2" /\ pc' = "off" /\ UNCHANGED <<prog, next, fresh, plain>> /\ map' = Identity
      /\ control' = {"W"}
      /\ UNCHANGED <<ttb, dacr, mem, i_tlb, d_tlb, i_cache, d_cache, wb>>
  BY DEF TurnOff, Step, WriteControl, P!Remap
<1>2. Sound(pc, map, fresh, i_cache, d_cache, wb, mem, i_tlb, d_tlb)
  BY SoundNow
<1>3. Sound("off", map', fresh, i_cache, d_cache, wb, mem, i_tlb, d_tlb)
  <2>1. IPages(pc, prog) = {}
    BY <1>1, PagesAt
  <2>2. /\ fresh \in [CodePages -> 0 .. 2] /\ Coherent(i_cache, IPages(pc, prog), map, plain)
        /\ Coherent(d_cache, DPages(pc, prog), map, plain)
        /\ Delayed(wb, Delayable(pc, prog, plain[DescPa]), map)
    BY <1>2 DEF Sound
  <2>3. Delayable(pc, prog, plain[DescPa]) = {} /\ DPages(pc, prog) = {}
    BY <1>1, OffDelay
  <2>4. Coherent(i_cache, IPages("off", prog), map', plain)
    BY <2>1, <2>2, CoherentMore
  <2>5. Coherent(d_cache, DPages("off", prog), map', plain)
    BY <2>2, <2>3, CoherentMore
  <2>6. Delayed(wb, Delayable("off", prog, plain[DescPa]), map')
    BY <2>2, <2>3, DelayedMore
  <2>7. \A a : DirtyPlaces(d_cache, a) = {} /\ ~Buffered(wb, a)
    BY <2>2, <2>3, EmptyCoherent DEF Delayed, Buffered
  <2>8. InMemory(d_cache, wb, CodePages, fresh, map')
    BY <2>7, AllInMemory
  <2>9. StaleI("off") /\ StaleD("off")
    BY DEF StaleI, StaleD
  <2>10. /\ Fine(i_tlb, prog.size["tlb"], prog, plain[DescPa], StaleI("off"))
         /\ Fine(d_tlb, prog.size["tlb"], prog, plain[DescPa], StaleD("off"))
    BY <2>9, TlbsFine, FineAt, Zenon
  <2> QED BY <1>2, <2>2, <2>4, <2>5, <2>6, <2>8, <2>10, SoundFrom, Zenon
<1>4. Sound(pc', map', fresh', i_cache', d_cache', wb', mem', i_tlb', d_tlb')
  BY <1>1, <1>3
<1>5. DescAt(pc', next', wb', mem', plain)
  <2>1. DescAt(pc, next, wb, mem, plain)
    BY DEF MmuInv, Tables
  <2> QED BY <1>1, <2>1 DEF DescAt
<1>6. next' \in Descs /\ pc' \in OffPcs \cup OnPcs
  BY <1>1 DEF MmuInv, Typed, OffPcs
<1>7. Phased'
  <2>1. ttb = Table /\ dacr = Access
    BY <1>1 DEF MmuInv, Phased
  <2>2. pc' \notin OnPcs /\ pc' \notin Remapping
    BY <1>1 DEF OnPcs, Running, Remapping
  <2> QED BY <1>1, <2>1, <2>2 DEF Phased
<1> QED BY <1>1, <1>4, <1>5, <1>6, <1>7, Moved

-----------------------------------------------------------------------------
(* Stores *)

\* From cache c, buffer b and memory m to d, e and n the word at pa is stored, which
\* changes plain memory from pl to pl2, and otherwise words only move towards memory.
Wrote(c, b, m, d, e, n, pl, pl2, pa) ==
  /\ Complete(d, e, n, pl2)
  /\ \A a \in DOMAIN Loaded : a # pa =>
       /\ Buffered(e, a) => Buffered(b, a)
       /\ ~Buffered(b, a) => n[a] = m[a]
       /\ Buffered(b, a) /\ ~Buffered(e, a) => n[a] = pl[a]
  /\ \A a \in DOMAIN Loaded : PageOf(a) # PageOf(pa) /\ DirtyPlaces(d, a) # {} => DirtyPlaces(c, a) # {}

\* A store to a line of the cache.
LEMMA WroteHit ==
  ASSUME NEW c, NEW b, NEW m, NEW d, NEW pl, NEW pl2, NEW pa, NEW data, Complete(c, b, m, pl),
         Marked(c, d, pa), Written(pl, pl2, pa, data), ~Buffered(b, pa)
  PROVE  Wrote(c, b, m, d, b, m, pl, pl2, pa)
<1>1. ASSUME NEW a \in DOMAIN Loaded, a # pa
      PROVE  /\ Buffered(b, a) => LastBuffered(b, a) = pl2[a]
             /\ DirtyPlaces(d, a) = {} /\ ~Buffered(b, a) => m[a] = pl2[a]
  <2>1. pl2[a] = pl[a]
    BY <1>1 DEF Written
  <2>2. DirtyPlaces(c, a) # {} => DirtyPlaces(d, a) # {}
    BY DEF Marked
  <2> QED BY <2>1, <2>2 DEF Complete
<1>2. DirtyPlaces(d, pa) # {}
  BY DEF Marked
<1>3. Complete(d, b, m, pl2)
  BY <1>1, <1>2 DEF Complete
<1>4. \A a \in DOMAIN Loaded : PageOf(a) # PageOf(pa) /\ DirtyPlaces(d, a) # {} => DirtyPlaces(c, a) # {}
  BY DEF Marked
<1> QED BY <1>3, <1>4 DEF Wrote

\* A store to memory after a drain of the buffer.
LEMMA WroteDrain ==
  ASSUME NEW c, NEW b \in Seq(WbRec), NEW m \in Memory, NEW pl, NEW pl2, NEW pa \in DOMAIN Loaded,
         NEW data \in Vals, Complete(c, b, m, pl), Written(pl, pl2, pa, data),
         NEW n, n = [mmu_wb_drain_all(b, m) EXCEPT ![pa] = data]
  PROVE  n \in Memory /\ Wrote(c, b, m, c, <<>>, n, pl, pl2, pa)
<1> DEFINE o == mmu_wb_drain_all(b, m)
<1>1. Delays(b, pl)
  BY DEF Delays, Complete
<1>2. o \in Memory /\ \A a \in DOMAIN Loaded : o[a] = IF Buffered(b, a) THEN pl[a] ELSE m[a]
  BY <1>1, DrainedMemory
<1>3. n = [o EXCEPT ![pa] = data]
  OBVIOUS
<1> HIDE DEF o
<1>4. n \in Memory /\ n[pa] = data /\ \A a \in DOMAIN Loaded : a # pa => n[a] = o[a]
  BY <1>2, <1>3 DEF Memory
<1>5. ASSUME NEW a \in DOMAIN Loaded
      PROVE  /\ a # pa => n[a] = IF Buffered(b, a) THEN pl[a] ELSE m[a]
             /\ a # pa => pl2[a] = pl[a]
             /\ DirtyPlaces(c, a) = {} /\ ~Buffered(b, a) => m[a] = pl[a]
  BY <1>2, <1>4 DEF Written, Complete
<1>6. pl2[pa] = data
  BY DEF Written
<1>7. \A a : ~Buffered(<<>>, a)
  BY EmptyBuffer
<1>8. \A a \in DOMAIN Loaded : DirtyPlaces(c, a) = {} => n[a] = pl2[a]
  BY <1>4, <1>5, <1>6
<1>9. Complete(c, <<>>, n, pl2)
  BY <1>7, <1>8 DEF Complete
<1> QED BY <1>4, <1>5, <1>7, <1>9 DEF Wrote

\* A store to memory with an empty buffer.
LEMMA WroteMemory ==
  ASSUME NEW c, NEW b, NEW m \in Memory, NEW pl, NEW pl2, NEW pa \in DOMAIN Loaded, NEW data \in Vals,
         Complete(c, b, m, pl), Written(pl, pl2, pa, data), \A a : ~Buffered(b, a),
         NEW n, n = [m EXCEPT ![pa] = data]
  PROVE  n \in Memory /\ Wrote(c, b, m, c, b, n, pl, pl2, pa)
<1>1. n \in Memory /\ n[pa] = data /\ \A a \in DOMAIN Loaded : a # pa => n[a] = m[a]
  BY DEF Memory
<1>2. \A a \in DOMAIN Loaded : DirtyPlaces(c, a) = {} => n[a] = pl2[a]
  BY <1>1 DEF Written, Complete
<1>3. Complete(c, b, n, pl2)
  BY <1>2 DEF Complete
<1> QED BY <1>1, <1>3 DEF Wrote

\* A store to the buffer.
LEMMA WroteBuffer ==
  ASSUME NEW c, NEW b \in Seq(WbRec), Len(b) <= WbNum, NEW m \in Memory, NEW pl, NEW pl2,
         NEW pa \in DOMAIN Loaded, NEW data \in Vals, Complete(c, b, m, pl), Written(pl, pl2, pa, data),
         NEW r, r = mmu_wb_write_bytes(b, m, pa, data)
  PROVE  /\ r.wb \in Seq(WbRec) /\ Len(r.wb) <= WbNum /\ r.mem \in Memory
         /\ \A k \in DOMAIN r.wb : r.wb[k].pa = pa \/ Buffered(b, r.wb[k].pa)
         /\ Wrote(c, b, m, c, r.wb, r.mem, pl, pl2, pa)
<1>1. pa \in Nat
  BY GuestAssumption
<1>2. /\ r.wb \in Seq(WbRec) /\ Len(r.wb) <= WbNum /\ r.mem \in Memory
      /\ Buffered(r.wb, pa) /\ LastBuffered(r.wb, pa) = data
      /\ \A k \in DOMAIN r.wb : r.wb[k].pa = pa \/ Buffered(b, r.wb[k].pa)
      /\ \A a \in DOMAIN Loaded :
           /\ a # pa /\ Buffered(r.wb, a) => Buffered(b, a) /\ LastBuffered(r.wb, a) = LastBuffered(b, a)
           /\ a # pa /\ Buffered(b, a) /\ ~Buffered(r.wb, a) => r.mem[a] = LastBuffered(b, a)
           /\ ~Buffered(b, a) => r.mem[a] = m[a]
  BY <1>1, Pushed
<1>3. ASSUME NEW a \in DOMAIN Loaded, a # pa
      PROVE  /\ Buffered(r.wb, a) => Buffered(b, a) /\ LastBuffered(r.wb, a) = pl2[a]
             /\ Buffered(b, a) /\ ~Buffered(r.wb, a) => r.mem[a] = pl[a]
             /\ ~Buffered(b, a) => r.mem[a] = m[a]
             /\ DirtyPlaces(c, a) = {} /\ ~Buffered(r.wb, a) => r.mem[a] = pl2[a]
  <2>1. pl2[a] = pl[a]
    BY <1>3 DEF Written
  <2>2. /\ Buffered(b, a) => LastBuffered(b, a) = pl[a]
        /\ DirtyPlaces(c, a) = {} /\ ~Buffered(b, a) => m[a] = pl[a]
    BY DEF Complete
  <2> QED BY <1>2, <1>3, <2>1, <2>2
<1>4. pl2[pa] = data
  BY DEF Written
<1>5. Complete(c, r.wb, r.mem, pl2)
  BY <1>2, <1>3, <1>4 DEF Complete
<1> QED BY <1>2, <1>3, <1>5 DEF Wrote

\* The page stored to is no longer in memory; the other code pages are as they were.
LEMMA WroteInMemory ==
  ASSUME NEW c, NEW b, NEW m, NEW d, NEW e, NEW n, NEW pl, NEW pl2, NEW mp, NEW va \in Nat,
         mp[PageOf(va)].page \in Nat, Wrote(c, b, m, d, e, n, pl, pl2, Phys(mp, va)),
         InMemory(c, b, CodePages, fresh, mp), Apart(CodePages, mp, va)
  PROVE  InMemory(d, e, CodePages, Stored(va), mp)
<1> SUFFICES ASSUME NEW p \in CodePages, NEW a \in DOMAIN Loaded, PageOf(a) = mp[p].page
             PROVE  /\ Stored(va)[p] # 0 => DirtyPlaces(d, a) = {}
                    /\ Stored(va)[p] = 2 => ~Buffered(e, a)
  BY DEF InMemory
<1>1. Stored(va)[p] = IF p = PageOf(va) THEN 0 ELSE fresh[p]
  BY DEF Stored
<1>2. CASE p = PageOf(va)
  BY <1>1, <1>2
<1>3. CASE p # PageOf(va)
  <2>1. PageOf(Phys(mp, va)) = mp[PageOf(va)].page
    BY PhysParts
  <2>2. PageOf(a) # PageOf(Phys(mp, va)) /\ a # Phys(mp, va)
    BY <1>3, <2>1 DEF Apart
  <2>3. /\ fresh[p] # 0 => DirtyPlaces(c, a) = {}
        /\ fresh[p] = 2 => ~Buffered(b, a)
    BY DEF InMemory
  <2> QED BY <1>1, <1>3, <2>2, <2>3 DEF Wrote
<1> QED BY <1>2, <1>3

\* The instruction cache after a store that reaches plain memory.
LEMMA IcacheStored ==
  ASSUME MmuInv, NEW va \in Nat, NEW data \in Vals, map[PageOf(va)].page \in Nat,
         Mapped(IPages(pc, prog), map), Apart(IPages(pc, prog), map, va),
         NEW pl2, Written(plain, pl2, Phys(map, va), data)
  PROVE  LET ic == IcacheWritten(va, data)
         IN /\ ic \in CacheRec(prog.size["iway"], prog.size["iset"])
            /\ Coherent(ic, IPages(pc, prog), map, pl2)
<1>1. /\ Sized(prog.size["iway"], prog.size["iset"])
      /\ i_cache \in CacheRec(prog.size["iway"], prog.size["iset"])
      /\ Coherent(i_cache, IPages(pc, prog), map, plain)
  BY CacheFacts
<1>2. CASE CacheHit(i_cache, va)
  <2> DEFINE d == update_cache(i_cache, va, data)
  <2>1. d \in CacheRec(prog.size["iway"], prog.size["iset"]) /\ Coherent(d, IPages(pc, prog), map, pl2)
    BY <1>1, <1>2, StoreHit, Zenon
  <2> QED BY <1>2, <2>1, Zenon DEF IcacheWritten
<1>3. CASE ~CacheHit(i_cache, va)
  <2>1. Coherent(i_cache, IPages(pc, prog), map, pl2)
    BY <1>1, <1>3, StoreMiss
  <2> QED BY <1>1, <1>3, <2>1, Zenon DEF IcacheWritten
<1> QED BY <1>2, <1>3

\* How a write ends.
LEMMA WriteCases ==
  ASSUME NEW tr, NEW va, NEW user
  PROVE  /\ Faults(tr, user, FALSE) => WriteKind(tr, va, user) = "fault"
         /\ ~Faults(tr, user, FALSE) /\ CacheHit(d_cache, va) => WriteKind(tr, va, user) = "hit"
         /\ ~Faults(tr, user, FALSE) /\ ~CacheHit(d_cache, va) =>
              WriteKind(tr, va, user) = IF ~tr.entry.b THEN "drain"
                                        ELSE IF MMU_WBEnabled THEN "buffer" ELSE "memory"
BY Zenon DEF WriteKind

\* A page without a line in the cache: none of the lines has its physical words.
LEMMA PageUncached ==
  ASSUME NEW w, NEW s, NEW c \in CacheRec(w, s), NEW V, NEW m, NEW pl, Coherent(c, V, m, pl),
         Mapped(V, m), NEW va \in Nat, m[PageOf(va)].page \in Nat, Apart(V, m, va), ~CacheHit(c, va),
         NEW p \in Places(c), c.lines[p].valid
  PROVE  va_cache_align(Phys(m, va)) # c.lines[p].pa
<1>1. c.lines[p].tag # va_cache_align(va)
  BY Miss
<1>2. Holds(c.lines[p], V, m, pl)
  BY DEF Coherent
<1>3. \A v \in V : m[v].page = m[PageOf(va)].page => v = PageOf(va)
  BY DEF Apart
<1> DEFINE l == c.lines[p]
<1>4. l.tag # va_cache_align(va) /\ Holds(l, V, m, pl)
  BY <1>1, <1>2
<1> HIDE DEF l
<1>5. l.pa # va_cache_align(Phys(m, va))
  BY <1>3, <1>4, NoAlias
<1> QED BY <1>5 DEF l

\* A page with a line in the cache.
LEMMA HitLine ==
  ASSUME NEW w, NEW s, Sized(w, s), NEW c \in CacheRec(w, s), NEW V, NEW m, NEW pl,
         Coherent(c, V, m, pl), Mapped(V, m), NEW va \in Nat, CacheHit(c, va)
  PROVE  \E p \in Places(c) : c.lines[p].valid /\ va_cache_align(Phys(m, va)) = c.lines[p].pa
<1> DEFINE p == mmu_cache_search(c, va)
<1>1. p \in Places(c) /\ c.lines[p].valid /\ c.lines[p].tag = va_cache_align(va)
  BY Lookup
<1>2. Holds(c.lines[p], V, m, pl)
  BY <1>1 DEF Coherent
<1> HIDE DEF p
<1> DEFINE l == c.lines[p]
<1>3. Holds(l, V, m, pl) /\ l.tag = va_cache_align(va)
  BY <1>1, <1>2
<1> HIDE DEF l
<1>4. l.pa = Base(m, PageOf(va))
  BY <1>3, LineOf
<1>5. PageOf(va) \in V
  BY <1>3, LineOf
<1>6. m[PageOf(va)].page \in Nat
  BY <1>5 DEF Mapped
<1>7. va_cache_align(Phys(m, va)) = l.pa
  BY <1>4, <1>6, PhysParts DEF Base
<1> QED BY <1>1, <1>7 DEF l

\* The data side after a store that is allowed: a line of the cache, ...
LEMMA StoredHit ==
  ASSUME MmuInv, pc \in Running, NEW va \in Used(prog), Accessible(va), NEW data \in Vals,
         NEW pl2, Written(plain, pl2, Phys(map, va), data), CacheHit(d_cache, va),
         NEW d, d = update_cache(d_cache, va, data)
  PROVE  /\ d \in CacheRec(prog.size["dway"], prog.size["dset"])
         /\ Coherent(d, DPages(pc, prog), map, pl2)
         /\ Separate(d, wb)
         /\ Wrote(d_cache, wb, mem, d, wb, mem, plain, pl2, Phys(map, va))
<1>1. /\ Sized(prog.size["dway"], prog.size["dset"])
      /\ d_cache \in CacheRec(prog.size["dway"], prog.size["dset"])
      /\ Coherent(d_cache, DPages(pc, prog), map, plain)
  BY CacheFacts
<1>2. /\ va \in Nat /\ Mapped(DPages(pc, prog), map) /\ map[PageOf(va)].page \in Nat
      /\ Apart(UsedPages(prog) \cup prog.code, map, va) /\ DPages(pc, prog) \subseteq UsedPages(prog)
  BY DataPage
<1>3. Apart(DPages(pc, prog), map, va)
  BY <1>2 DEF Apart
<1>4. /\ d \in CacheRec(prog.size["dway"], prog.size["dset"])
      /\ Coherent(d, DPages(pc, prog), map, pl2)
      /\ Marked(d_cache, d, Phys(map, va)) /\ Fewer(d_cache, d)
  BY <1>1, <1>2, <1>3, StoreHit, Zenon
<1>5. Separate(d_cache, wb) /\ Complete(d_cache, wb, mem, plain)
  BY DEF MmuInv, Coherence
<1>6. ~Buffered(wb, Phys(map, va))
  <2>1. PICK p \in Places(d_cache) : /\ d_cache.lines[p].valid
                                      /\ va_cache_align(Phys(map, va)) = d_cache.lines[p].pa
    BY <1>1, <1>2, HitLine, Zenon
  <2> QED BY <1>5, <2>1 DEF Buffered, Separate
<1>7. Separate(d, wb)
  BY <1>4, <1>5, SeparateFewer
<1>8. Wrote(d_cache, wb, mem, d, wb, mem, plain, pl2, Phys(map, va))
  BY <1>4, <1>5, <1>6, WroteHit
<1> QED BY <1>4, <1>7, <1>8

\* ... memory after a drain, ...
LEMMA StoredDrain ==
  ASSUME MmuInv, pc \in Running, NEW va \in Used(prog), Accessible(va), NEW data \in Vals,
         NEW pl2, Written(plain, pl2, Phys(map, va), data), ~CacheHit(d_cache, va),
         NEW n, n = [mmu_wb_drain_all(wb, mem) EXCEPT ![Phys(map, va)] = data]
  PROVE  /\ n \in Memory
         /\ Coherent(d_cache, DPages(pc, prog), map, pl2)
         /\ Wrote(d_cache, wb, mem, d_cache, <<>>, n, plain, pl2, Phys(map, va))
<1>1. /\ d_cache \in CacheRec(prog.size["dway"], prog.size["dset"])
      /\ Coherent(d_cache, DPages(pc, prog), map, plain)
  BY CacheFacts
<1>2. /\ va \in Nat /\ Mapped(DPages(pc, prog), map) /\ map[PageOf(va)].page \in Nat
      /\ Apart(UsedPages(prog) \cup prog.code, map, va) /\ DPages(pc, prog) \subseteq UsedPages(prog)
      /\ Phys(map, va) \in DOMAIN Loaded
  BY DataPage
<1>3. Apart(DPages(pc, prog), map, va)
  BY <1>2 DEF Apart
<1>4. Coherent(d_cache, DPages(pc, prog), map, pl2)
  BY <1>1, <1>2, <1>3, StoreMiss
<1>5. Complete(d_cache, wb, mem, plain) /\ wb \in Seq(WbRec) /\ mem \in Memory
  BY DEF MmuInv, Coherence, Typed
<1> QED BY <1>2, <1>4, <1>5, WroteDrain

\* ... or the buffer.
LEMMA StoredBuffer ==
  ASSUME MmuInv, pc \in Running, NEW va \in Used(prog), Accessible(va), NEW data \in Vals,
         NEW pl2, Written(plain, pl2, Phys(map, va), data), ~CacheHit(d_cache, va),
         va \in Delayable(pc, prog, plain[DescPa]),
         NEW r, r = mmu_wb_write_bytes(wb, mem, Phys(map, va), data)
  PROVE  /\ r.wb \in Seq(WbRec) /\ Len(r.wb) <= WbNum /\ r.mem \in Memory
         /\ Coherent(d_cache, DPages(pc, prog), map, pl2)
         /\ Separate(d_cache, r.wb)
         /\ Delayed(r.wb, Delayable(pc, prog, plain[DescPa]), map)
         /\ Wrote(d_cache, wb, mem, d_cache, r.wb, r.mem, plain, pl2, Phys(map, va))
<1>1. /\ d_cache \in CacheRec(prog.size["dway"], prog.size["dset"])
      /\ Coherent(d_cache, DPages(pc, prog), map, plain)
  BY CacheFacts
<1>2. /\ va \in Nat /\ Mapped(DPages(pc, prog), map) /\ map[PageOf(va)].page \in Nat
      /\ Apart(UsedPages(prog) \cup prog.code, map, va) /\ DPages(pc, prog) \subseteq UsedPages(prog)
      /\ Phys(map, va) \in DOMAIN Loaded
  BY DataPage
<1>3. Apart(DPages(pc, prog), map, va)
  BY <1>2 DEF Apart
<1>4. Coherent(d_cache, DPages(pc, prog), map, pl2)
  BY <1>1, <1>2, <1>3, StoreMiss
<1>5. /\ Complete(d_cache, wb, mem, plain) /\ wb \in Seq(WbRec) /\ Len(wb) <= WbNum /\ mem \in Memory
      /\ Separate(d_cache, wb) /\ Delayed(wb, Delayable(pc, prog, plain[DescPa]), map)
  BY DEF MmuInv, Coherence, Typed
<1>6. /\ r.wb \in Seq(WbRec) /\ Len(r.wb) <= WbNum /\ r.mem \in Memory
      /\ \A k \in DOMAIN r.wb : r.wb[k].pa = Phys(map, va) \/ Buffered(wb, r.wb[k].pa)
      /\ Wrote(d_cache, wb, mem, d_cache, r.wb, r.mem, plain, pl2, Phys(map, va))
  <2> DEFINE pa == Phys(map, va)
  <2>1. /\ pa \in DOMAIN Loaded /\ Written(plain, pl2, pa, data)
        /\ r = mmu_wb_write_bytes(wb, mem, pa, data)
        /\ Complete(d_cache, wb, mem, plain) /\ wb \in Seq(WbRec) /\ Len(wb) <= WbNum /\ mem \in Memory
    BY <1>2, <1>5
  <2> HIDE DEF pa
  <2>2. /\ r.wb \in Seq(WbRec) /\ Len(r.wb) <= WbNum /\ r.mem \in Memory
        /\ \A k \in DOMAIN r.wb : r.wb[k].pa = pa \/ Buffered(wb, r.wb[k].pa)
        /\ Wrote(d_cache, wb, mem, d_cache, r.wb, r.mem, plain, pl2, pa)
    BY <2>1, WroteBuffer
  <2> QED BY <2>2 DEF pa
<1>7. \A p \in Places(d_cache) : d_cache.lines[p].valid => va_cache_align(Phys(map, va)) # d_cache.lines[p].pa
  BY <1>1, <1>2, <1>3, PageUncached
<1>8. Separate(d_cache, r.wb)
  <2> SUFFICES ASSUME NEW k \in DOMAIN r.wb, NEW p \in Places(d_cache), d_cache.lines[p].valid
               PROVE  va_cache_align(r.wb[k].pa) # d_cache.lines[p].pa
    BY DEF Separate
  <2>1. CASE r.wb[k].pa = Phys(map, va)
    BY <1>7, <2>1
  <2>2. CASE Buffered(wb, r.wb[k].pa)
    <3>1. PICK j \in DOMAIN wb : wb[j].pa = r.wb[k].pa
      BY <2>2 DEF Buffered
    <3>2. va_cache_align(wb[j].pa) # d_cache.lines[p].pa
      BY <1>5 DEF Separate
    <3> QED BY <3>1, <3>2
  <2> QED BY <1>6, <2>1, <2>2
<1>9. Delayed(r.wb, Delayable(pc, prog, plain[DescPa]), map)
  <2> SUFFICES ASSUME NEW k \in DOMAIN r.wb
               PROVE  \E vb \in Delayable(pc, prog, plain[DescPa]) : r.wb[k].pa = Phys(map, vb)
    BY DEF Delayed
  <2>1. CASE Buffered(wb, r.wb[k].pa)
    <3>1. PICK j \in DOMAIN wb : wb[j].pa = r.wb[k].pa
      BY <2>1 DEF Buffered
    <3> QED BY <1>5, <3>1 DEF Delayed
  <2> QED BY <1>6, <2>1
<1> QED BY <1>4, <1>6, <1>8, <1>9

\* No word of the tables but the descriptor of the remapped page is delayed, and a
\* program's store goes to none.
LEMMA TableApart ==
  ASSUME MmuInv, pc \in Running, NEW w \in TableWords(prog)
  PROVE  /\ w # DescPa => ~Buffered(wb, w)
         /\ \A va \in prog.store : Phys(map, va) # w
         /\ w \in DOMAIN Loaded
<1>1. prog \in Programs /\ LikeMap(map) /\ Delayed(wb, Delayable(pc, prog, plain[DescPa]), map)
  BY OnMap DEF MmuInv, Typed, Coherence, OnPcs
<1>2. PICK d \in Descs : \A p \in VPages : map[p].page = MapOf[d][p].page
  BY <1>1 DEF LikeMap
<1>3. \A va \in prog.store : Phys(map, va) # w
  <2> SUFFICES ASSUME NEW va \in prog.store
               PROVE  Phys(map, va) # w
    OBVIOUS
  <2>1. PageOf(va) \in VPages
    BY <1>1, UsedWords DEF Used
  <2>2. Phys(map, va) = Phys(MapOf[d], va)
    BY <1>2, <2>1 DEF Phys
  <2>3. Phys(MapOf[d], va) \notin TableWords(prog)
    BY <1>1, TablesAssumption
  <2> QED BY <2>2, <2>3
<1>4. Phys(map, DescVa) = DescPa
  BY <1>1, LikeMapped
<1>5. w # DescPa => ~Buffered(wb, w)
  <2> SUFFICES ASSUME w # DescPa, NEW n \in DOMAIN wb, wb[n].pa = w
               PROVE  FALSE
    BY DEF Buffered
  <2>1. PICK va \in Delayable(pc, prog, plain[DescPa]) : wb[n].pa = Phys(map, va)
    BY <1>1 DEF Delayed
  <2>2. va \in prog.store \cup {DescVa}
    BY DEF Delayable
  <2> QED BY <1>3, <1>4, <2>1, <2>2
<1>6. w \in DOMAIN Loaded
  BY <1>1, TablesAssumption
<1> QED BY <1>3, <1>5, <1>6

\* The memory system after a store that is allowed, but for the system's registers.
Took(pl2, va) ==
  /\ mem' \in Memory /\ wb' \in Seq(WbRec) /\ Len(wb') <= WbNum
  /\ d_cache' \in CacheRec(prog.size["dway"], prog.size["dset"])
  /\ Coherent(d_cache', DPages(pc, prog), map, pl2)
  /\ Separate(d_cache', wb')
  /\ Delayed(wb', Delayable(pc, prog, plain[DescPa]), map)
  /\ Wrote(d_cache, wb, mem, d_cache', wb', mem', plain, pl2, Phys(map, va))

\* A store that is allowed.
LEMMA StoreTook ==
  ASSUME MmuInv, pc \in Running, NEW va \in prog.store \cup {DescVa}, Accessible(va),
         NEW user \in BOOLEAN, P!Writable(va, user), NEW data \in Vals, NEW pl2,
         Written(plain, pl2, Phys(map, va), data), write(va, data, user)
  PROVE  Took(pl2, va)
<1> DEFINE tr == Translation(d_tlb, va)
           kind == WriteKind(tr, va, user)
           e == Meaning(plain[DescPa], va)
<1>1. va \in Used(prog)
  BY DEF Used
<1>2. MMU_Enabled /\ MMU_WBEnabled
  BY OnOff DEF OnPcs
<1>3. /\ tr.entry = e /\ ~Faults(tr, user, FALSE)
      /\ tr.entry # NoEntry => PaOf(tr, va) = Phys(map, va) /\ tr.entry.b \in BOOLEAN
  BY <1>1, DataAccess
<1>4. tr.entry # NoEntry
  BY <1>3 DEF Faults
<1>5. PaOf(tr, va) = Phys(map, va) /\ e # NoEntry /\ (e.b <=> tr.entry.b) /\ e.b \in BOOLEAN
  BY <1>3, <1>4
<1>6. kind = IF CacheHit(d_cache, va) THEN "hit" ELSE IF ~tr.entry.b THEN "drain" ELSE "buffer"
  BY <1>2, <1>3, WriteCases
<1>7. /\ d_cache' = IF kind = "hit" THEN update_cache(d_cache, va, data) ELSE d_cache
      /\ \/ kind \in {"fault", "hit"} /\ UNCHANGED <<mem, wb>>
         \/ kind \in {"off", "memory"}
         \/ /\ kind = "buffer"
            /\ wb' = mmu_wb_write_bytes(wb, mem, PaOf(tr, va), data).wb
            /\ mem' = mmu_wb_write_bytes(wb, mem, PaOf(tr, va), data).mem
         \/ /\ kind = "drain"
            /\ mem' = [mmu_wb_drain_all(wb, mem) EXCEPT ![PaOf(tr, va)] = data]
            /\ wb' = <<>>
  BY <1>2, Zenon DEF write
<1> HIDE DEF tr, kind
<1>8. /\ mem \in Memory /\ wb \in Seq(WbRec) /\ Len(wb) <= WbNum
      /\ d_cache \in CacheRec(prog.size["dway"], prog.size["dset"])
      /\ Delayed(wb, Delayable(pc, prog, plain[DescPa]), map) /\ Separate(d_cache, wb)
  BY DEF MmuInv, Typed, Coherence
<1>9. CASE CacheHit(d_cache, va)
  <2> DEFINE d == update_cache(d_cache, va, data)
  <2>1. d_cache' = d /\ mem' = mem /\ wb' = wb
    BY <1>6, <1>7, <1>9
  <2>2. d = update_cache(d_cache, va, data)
    OBVIOUS
  <2> HIDE DEF d
  <2>3. /\ d \in CacheRec(prog.size["dway"], prog.size["dset"])
        /\ Coherent(d, DPages(pc, prog), map, pl2)
        /\ Separate(d, wb)
        /\ Wrote(d_cache, wb, mem, d, wb, mem, plain, pl2, Phys(map, va))
    BY <1>1, <1>9, <2>2, StoredHit, Zenon
  <2> QED BY <1>8, <2>1, <2>3 DEF Took
<1>10. CASE ~CacheHit(d_cache, va) /\ ~e.b
  <2>1. d_cache' = d_cache /\ wb' = <<>>
        /\ mem' = [mmu_wb_drain_all(wb, mem) EXCEPT ![Phys(map, va)] = data]
    BY <1>5, <1>6, <1>7, <1>10
  <2>2. PICK n : n = mem'
    OBVIOUS
  <2>3. n = [mmu_wb_drain_all(wb, mem) EXCEPT ![Phys(map, va)] = data]
    BY <2>1, <2>2
  <2>4. /\ n \in Memory
        /\ Coherent(d_cache, DPages(pc, prog), map, pl2)
        /\ Wrote(d_cache, wb, mem, d_cache, <<>>, n, plain, pl2, Phys(map, va))
    BY <1>1, <1>10, <2>3, StoredDrain, Zenon
  <2>5. <<>> \in Seq(WbRec) /\ Len(<<>>) <= WbNum
    BY Sizes, EmptyBuffer
  <2>6. Separate(d_cache, <<>>) /\ Delayed(<<>>, Delayable(pc, prog, plain[DescPa]), map)
    BY SeparateNone
  <2> QED BY <1>8, <2>1, <2>2, <2>4, <2>5, <2>6 DEF Took
<1>11. CASE ~CacheHit(d_cache, va) /\ e.b
  <2> DEFINE r == mmu_wb_write_bytes(wb, mem, Phys(map, va), data)
  <2>1. d_cache' = d_cache /\ wb' = r.wb /\ mem' = r.mem
    BY <1>5, <1>6, <1>7, <1>11
  <2>2. va \in Delayable(pc, prog, plain[DescPa])
    BY <1>5, <1>11 DEF Delayable, Accessible, Running, Remapping
  <2>3. r = mmu_wb_write_bytes(wb, mem, Phys(map, va), data)
    OBVIOUS
  <2> HIDE DEF r
  <2>4. /\ r.wb \in Seq(WbRec) /\ Len(r.wb) <= WbNum /\ r.mem \in Memory
        /\ Coherent(d_cache, DPages(pc, prog), map, pl2)
        /\ Separate(d_cache, r.wb)
        /\ Delayed(r.wb, Delayable(pc, prog, plain[DescPa]), map)
        /\ Wrote(d_cache, wb, mem, d_cache, r.wb, r.mem, plain, pl2, Phys(map, va))
    BY <1>1, <1>11, <2>2, <2>3, StoredBuffer
  <2> QED BY <1>8, <2>1, <2>4 DEF Took
<1> QED BY <1>5, <1>9, <1>10, <1>11

\* The invariant after a step that stores.
LEMMA Stands ==
  ASSUME MmuInv, prog' = prog, next' \in Descs, pc' \in OffPcs \cup OnPcs, Phased',
         fresh' \in [CodePages -> 0 .. 2], mem' \in Memory, plain' \in Memory,
         i_cache' \in CacheRec(prog.size["iway"], prog.size["iset"]),
         d_cache' \in CacheRec(prog.size["dway"], prog.size["dset"]),
         wb' \in Seq(WbRec), Len(wb') <= WbNum,
         Coherent(i_cache', IPages(pc', prog), map', plain'),
         Coherent(d_cache', DPages(pc', prog), map', plain'),
         Delayed(wb', Delayable(pc', prog, plain'[DescPa]), map'),
         Separate(d_cache', wb'), Complete(d_cache', wb', mem', plain'),
         InMemory(d_cache', wb', CodePages, fresh', map'),
         TablesIn(mem', prog), TablesIn(plain', prog), DescAt(pc', next', wb', mem', plain'),
         Fine(i_tlb', prog.size["tlb"], prog, plain'[DescPa], StaleI(pc')),
         Fine(d_tlb', prog.size["tlb"], prog, plain'[DescPa], StaleD(pc'))
  PROVE  MmuInv'
<1>1. CodePages' = CodePages /\ prog \in Programs
  BY DEF CodePages, MmuInv, Typed
<1>2. Typed'
  BY <1>1, Zenon DEF Typed
<1>3. Coherence'
  BY Zenon DEF Coherence
<1>4. Freshness'
  BY <1>1, Zenon DEF Freshness
<1>5. Tables'
  BY Zenon DEF Tables
<1>6. Translated'
  BY Zenon DEF Translated
<1> QED BY <1>2, <1>3, <1>4, <1>5, <1>6 DEF MmuInv

\* What a write does besides the data.
LEMMA WriteParts ==
  ASSUME MmuInv, pc \in Running, NEW va \in Used(prog), Accessible(va), NEW data,
         NEW user \in BOOLEAN, write(va, data, user)
  PROVE  /\ UNCHANGED <<control, ttb, dacr, i_tlb>>
         /\ i_cache' = IcacheWritten(va, data)
         /\ Fine(d_tlb', prog.size["tlb"], prog, plain[DescPa], StaleD(pc))
         /\ ~P!Writable(va, user) => UNCHANGED <<mem, wb, d_cache>>
<1> DEFINE tr == Translation(d_tlb, va)
           kind == WriteKind(tr, va, user)
<1>1. MMU_Enabled
  BY OnOff DEF OnPcs
<1>2. /\ Fine(tr.tlb, prog.size["tlb"], prog, plain[DescPa], StaleD(pc))
      /\ ~P!Writable(va, user) => Faults(tr, user, FALSE)
  BY DataAccess
<1>3. ~P!Writable(va, user) => kind = "fault"
  BY <1>2, WriteCases
<1>4. /\ UNCHANGED <<control, ttb, dacr, i_tlb>> /\ i_cache' = IcacheWritten(va, data)
      /\ d_tlb' = tr.tlb
  BY <1>1 DEF write, regs
<1>5. kind = "fault" => d_cache' = d_cache /\ mem' = mem /\ wb' = wb
  BY <1>1 DEF write
<1> QED BY <1>2, <1>3, <1>4, <1>5

\* The word stored in plain memory.
LEMMA PlainWritten ==
  ASSUME NEW pa \in DOMAIN Loaded, NEW data \in Vals, NEW pl \in Memory, NEW pl2,
         pl2 = [pl EXCEPT ![pa] = data]
  PROVE  pl2 \in Memory /\ Written(pl, pl2, pa, data)
BY DEF Memory, Written

\* The descriptor is not stored to by user programs.
LEMMA DescRights ==
  ASSUME MmuInv, pc \in Running
  PROVE  /\ Accessible(DescVa) /\ DescVa \in Used(prog) /\ Phys(map, DescVa) = DescPa
         /\ ~P!Writable(DescVa, TRUE) /\ P!Writable(DescVa, FALSE)
<1>1. Accessible(DescVa) /\ DescVa \in Used(prog)
  BY TablesAssumption DEF Accessible, Used
<1>2. plain[DescPa] \in Descs /\ map[PageOf(DescVa)] = MapOf[plain[DescPa]][PageOf(DescVa)]
  BY <1>1, RunningMap
<1>3. map[PageOf(DescVa)].write = {FALSE}
  BY <1>2, MapAssumption
<1>4. prog \in Programs /\ LikeMap(map)
  BY <1>1, DataPage
<1>5. Phys(map, DescVa) = DescPa
  BY <1>4, LikeMapped
<1> QED BY <1>1, <1>3, <1>5 DEF P!Writable, P!Mapping, PageOf

\* The instruction cache while a system runs.
LEMMA IcachePages ==
  ASSUME MmuInv, pc \in Running, NEW va \in Used(prog), Accessible(va)
  PROVE  /\ Mapped(IPages(pc, prog), map) /\ Apart(IPages(pc, prog), map, va)
         /\ map[PageOf(va)].page \in Nat /\ va \in Nat /\ prog \in Programs
         /\ PageOf(va) \notin CodePages => ~CacheHit(i_cache, va)
<1>1. /\ prog \in Programs /\ va \in Nat /\ LikeMap(map) /\ map[PageOf(va)].page \in Nat
      /\ Apart(UsedPages(prog) \cup prog.code, map, va)
  BY DataPage
<1>2. Mapped(UsedPages(prog), map)
  BY <1>1, LikeMapped
<1>3. IPages(pc, prog) = UsedPages(prog) \cap prog.code
  BY PagesAt
<1>4. Mapped(IPages(pc, prog), map) /\ Apart(IPages(pc, prog), map, va)
  BY <1>1, <1>2, <1>3 DEF Mapped, Apart
<1>5. /\ Sized(prog.size["iway"], prog.size["iset"])
      /\ i_cache \in CacheRec(prog.size["iway"], prog.size["iset"])
      /\ Coherent(i_cache, IPages(pc, prog), map, plain)
  BY CacheFacts
<1>6. CacheHit(i_cache, va) => PageOf(va) \in IPages(pc, prog)
  BY <1>1, <1>4, <1>5, CachedPlain, Zenon
<1> QED BY <1>1, <1>3, <1>4, <1>6 DEF CodePages

\* A program's store, allowed or not, keeps the invariant.
LEMMA StoreStep ==
  ASSUME MmuInv, Store
  PROVE  MmuInv'
<1>1. PICK va \in prog.store \cup {DescVa}, data \in Data, user \in BOOLEAN :
        /\ pc \in Running /\ Accessible(va) /\ (va = DescVa => user)
        /\ P!Writable(va, user) \/ PageOf(va) \notin CodePages
        /\ write(va, data, user) /\ P!PlainStore(va, data, user)
        /\ fresh' = Stored(va) /\ UNCHANGED <<prog, pc, next>>
  BY DEF Store
<1>2. va \in Used(prog) /\ data \in Vals
  BY DEF Used, Vals
<1>3. /\ UNCHANGED <<control, ttb, dacr, i_tlb>> /\ i_cache' = IcacheWritten(va, data)
      /\ Fine(d_tlb', prog.size["tlb"], prog, plain[DescPa], StaleD(pc))
      /\ ~P!Writable(va, user) => UNCHANGED <<mem, wb, d_cache>>
  BY <1>1, <1>2, WriteParts
<1>4. /\ Mapped(IPages(pc, prog), map) /\ Apart(IPages(pc, prog), map, va)
      /\ map[PageOf(va)].page \in Nat /\ va \in Nat /\ prog \in Programs
      /\ PageOf(va) \notin CodePages => ~CacheHit(i_cache, va)
  BY <1>1, <1>2, IcachePages
<1>5. map' = map
  BY <1>1 DEF P!PlainStore
<1>6. fresh \in [CodePages -> 0 .. 2] /\ fresh' \in [CodePages -> 0 .. 2]
  BY <1>1 DEF MmuInv, Typed, Stored
<1>7. CASE ~P!Writable(va, user)
  <2>1. plain' = plain /\ PageOf(va) \notin CodePages
    BY <1>1, <1>7 DEF P!PlainStore
  <2>2. i_cache' = i_cache
    BY <1>3, <1>4, <2>1 DEF IcacheWritten
  <2>3. fresh' = fresh
    BY <1>1, <1>6, <2>1 DEF Stored
  <2>4. Sound(pc, map, fresh, i_cache, d_cache, wb, mem, i_tlb, d_tlb)
    BY SoundNow
  <2>5. Sound(pc, map, fresh, i_cache, d_cache, wb, mem, i_tlb, d_tlb')
    BY <1>3, <2>4, TlbsFine, SoundTlbs, Zenon
  <2>6. Sound(pc, map, fresh', i_cache', d_cache', wb', mem', i_tlb', d_tlb')
    BY <1>3, <1>7, <2>2, <2>3, <2>5
  <2> QED BY <1>1, <1>3, <1>5, <2>1, <2>6, Quiet
<1>8. CASE P!Writable(va, user)
  <2>1. va \in prog.store
    BY <1>1, <1>8, DescRights
  <2> DEFINE pa == Phys(map, va)
  <2>2. pa \in DOMAIN Loaded /\ Apart(CodePages, map, va)
    <3>1. Phys(map, va) \in DOMAIN Loaded /\ Apart(UsedPages(prog) \cup prog.code, map, va)
      BY <1>1, <1>2, DataPage
    <3> QED BY <3>1 DEF Apart, CodePages
  <2>3. plain' = [plain EXCEPT ![pa] = data]
    BY <1>1, <1>8 DEF P!PlainStore, P!PlainPa, P!Mapping, Phys, PageOf
  <2>4. plain \in Memory
    BY CacheFacts
  <2>5. plain' \in Memory /\ Written(plain, plain', pa, data)
    BY <1>2, <2>2, <2>3, <2>4, PlainWritten, Zenon
  <2>6. /\ i_cache' \in CacheRec(prog.size["iway"], prog.size["iset"])
        /\ Coherent(i_cache', IPages(pc, prog), map, plain')
    BY <1>2, <1>3, <1>4, <2>5, IcacheStored, Zenon
  <2>7. Took(plain', va)
    BY <1>1, <1>2, <1>8, <2>5, StoreTook, Zenon
  <2>8. /\ mem' \in Memory /\ wb' \in Seq(WbRec) /\ Len(wb') <= WbNum
        /\ d_cache' \in CacheRec(prog.size["dway"], prog.size["dset"])
        /\ Coherent(d_cache', DPages(pc, prog), map, plain')
        /\ Separate(d_cache', wb')
        /\ Delayed(wb', Delayable(pc, prog, plain[DescPa]), map)
        /\ Wrote(d_cache, wb, mem, d_cache', wb', mem', plain, plain', pa)
    BY <2>7 DEF Took
  <2> HIDE DEF pa
  <2>9. \A w \in TableWords(prog) : /\ w \in DOMAIN Loaded /\ pa # w /\ plain'[w] = plain[w]
                                    /\ w # DescPa => mem'[w] = mem[w]
    <3> SUFFICES ASSUME NEW w \in TableWords(prog)
                 PROVE  /\ w \in DOMAIN Loaded /\ pa # w /\ plain'[w] = plain[w]
                        /\ w # DescPa => mem'[w] = mem[w]
      OBVIOUS
    <3>1. (w # DescPa => ~Buffered(wb, w)) /\ pa # w /\ w \in DOMAIN Loaded
      BY <1>1, <2>1, TableApart DEF pa
    <3>2. plain'[w] = plain[w]
      BY <2>5, <3>1 DEF Written
    <3>3. w # DescPa => mem'[w] = mem[w]
      BY <2>8, <3>1 DEF Wrote
    <3> QED BY <3>1, <3>2, <3>3
  <2>10. DescPa \in TableWords(prog) /\ DescPa \in DOMAIN Loaded
    BY <1>4, FreeFacts
  <2>11. plain'[DescPa] = plain[DescPa] /\ pa # DescPa
    BY <2>9, <2>10
  <2>12. TablesIn(mem', prog) /\ TablesIn(plain', prog)
    <3>1. TablesIn(mem, prog) /\ TablesIn(plain, prog)
      BY DEF MmuInv, Tables
    <3> QED BY <2>9, <3>1 DEF TablesIn
  <2>13. DescAt(pc, next, wb', mem', plain')
    <3>1. DescAt(pc, next, wb, mem, plain)
      BY DEF MmuInv, Tables
    <3>2. /\ Buffered(wb', DescPa) => Buffered(wb, DescPa)
          /\ ~Buffered(wb, DescPa) => mem'[DescPa] = mem[DescPa]
          /\ Buffered(wb, DescPa) /\ ~Buffered(wb', DescPa) => mem'[DescPa] = plain[DescPa]
      BY <2>8, <2>10, <2>11 DEF Wrote
    <3> QED BY <2>11, <3>1, <3>2 DEF DescAt
  <2>14. Complete(d_cache', wb', mem', plain')
    BY <2>8 DEF Wrote
  <2>15. InMemory(d_cache', wb', CodePages, Stored(va), map)
    <3>1. InMemory(d_cache, wb, CodePages, fresh, map)
      BY DEF MmuInv, Freshness
    <3>2. Wrote(d_cache, wb, mem, d_cache', wb', mem', plain, plain', Phys(map, va))
      BY <2>8 DEF pa
    <3> QED BY <1>4, <2>2, <3>1, <3>2, WroteInMemory
  <2>16. next' \in Descs /\ pc' \in OffPcs \cup OnPcs /\ Phased'
    <3>1. next \in Descs /\ pc \in OffPcs \cup OnPcs /\ Phased
      BY DEF MmuInv, Typed
    <3> QED BY <1>1, <1>3, <1>5, <3>1 DEF Phased
  <2>17. Fine(i_tlb, prog.size["tlb"], prog, plain[DescPa], StaleI(pc))
    BY TlbsFine
  <2>18. /\ Coherent(i_cache', IPages(pc', prog), map', plain')
         /\ Coherent(d_cache', DPages(pc', prog), map', plain')
         /\ Delayed(wb', Delayable(pc', prog, plain'[DescPa]), map')
         /\ InMemory(d_cache', wb', CodePages, fresh', map')
         /\ DescAt(pc', next', wb', mem', plain')
    BY <1>1, <1>5, <2>6, <2>8, <2>11, <2>13, <2>15
  <2>19. /\ Fine(i_tlb', prog.size["tlb"], prog, plain'[DescPa], StaleI(pc'))
         /\ Fine(d_tlb', prog.size["tlb"], prog, plain'[DescPa], StaleD(pc'))
    BY <1>1, <1>3, <2>11, <2>17, Zenon
  <2> QED BY <1>1, <1>6, <2>5, <2>6, <2>8, <2>12, <2>14, <2>16, <2>18, <2>19, Stands, Zenon
<1> QED BY <1>7, <1>8

\* The system's store of the descriptor keeps it: the TLBs may be stale from now on.
LEMMA StoreDescStep ==
  ASSUME MmuInv, StoreDesc
  PROVE  MmuInv'
<1>1. /\ pc = "store" /\ pc' = "clean" /\ write(DescVa, next, FALSE)
      /\ P!PlainStore(DescVa, next, FALSE) /\ UNCHANGED <<prog, next, fresh>>
  BY DEF StoreDesc, Step
<1>2. pc \in Running /\ pc \in Remapping /\ "clean" \in Remapping
  BY <1>1 DEF Running, Remapping
<1>3. /\ Accessible(DescVa) /\ DescVa \in Used(prog) /\ Phys(map, DescVa) = DescPa
      /\ P!Writable(DescVa, FALSE)
  BY <1>2, DescRights
<1>4. next \in Descs /\ next \in Vals /\ DescVa \in prog.store \cup {DescVa}
  BY DEF MmuInv, Typed, Vals
<1>5. /\ UNCHANGED <<control, ttb, dacr, i_tlb>> /\ i_cache' = IcacheWritten(DescVa, next)
      /\ Fine(d_tlb', prog.size["tlb"], prog, plain[DescPa], StaleD(pc))
  BY <1>1, <1>2, <1>3, WriteParts
<1>6. /\ Mapped(IPages(pc, prog), map) /\ Apart(IPages(pc, prog), map, DescVa)
      /\ map[PageOf(DescVa)].page \in Nat /\ DescVa \in Nat /\ prog \in Programs
  BY <1>2, <1>3, IcachePages
<1>7. map' = map /\ plain' = [plain EXCEPT ![DescPa] = next]
  BY <1>1, <1>3 DEF P!PlainStore, P!PlainPa, P!Mapping, Phys, PageOf
<1>8. fresh \in [CodePages -> 0 .. 2] /\ prog.descs # {}
  BY <1>2 DEF MmuInv, Typed, Phased
<1>9. PageOf(DescVa) \notin CodePages
  BY <1>6, <1>8, ProgramParts DEF CodePages
<1>10. Stored(DescVa) = fresh
  BY <1>8, <1>9 DEF Stored
<1>11. DescPa \in DOMAIN Loaded /\ DescPa \in TableWords(prog)
  BY <1>6, FreeFacts
<1>12. plain \in Memory
  BY CacheFacts
<1>13. plain' \in Memory /\ Written(plain, plain', DescPa, next)
  BY <1>4, <1>7, <1>11, <1>12, PlainWritten, Zenon
<1>14. Written(plain, plain', Phys(map, DescVa), next)
  BY <1>3, <1>13
<1>15. /\ i_cache' \in CacheRec(prog.size["iway"], prog.size["iset"])
       /\ Coherent(i_cache', IPages(pc, prog), map, plain')
  BY <1>4, <1>5, <1>6, <1>14, IcacheStored, Zenon
<1>16. Took(plain', DescVa)
  BY <1>1, <1>2, <1>3, <1>4, <1>14, StoreTook
<1>17. /\ mem' \in Memory /\ wb' \in Seq(WbRec) /\ Len(wb') <= WbNum
       /\ d_cache' \in CacheRec(prog.size["dway"], prog.size["dset"])
       /\ Coherent(d_cache', DPages(pc, prog), map, plain')
       /\ Separate(d_cache', wb')
       /\ Delayed(wb', Delayable(pc, prog, plain[DescPa]), map)
       /\ Wrote(d_cache, wb, mem, d_cache', wb', mem', plain, plain', Phys(map, DescVa))
  BY <1>16 DEF Took
<1>18. plain'[DescPa] = next
  BY <1>13 DEF Written
<1>19. Delayed(wb', Delayable("clean", prog, next), map)
  <2>1. ASSUME NEW va \in Delayable(pc, prog, plain[DescPa])
        PROVE  va \in Delayable("clean", prog, next)
    <3>1. va \in prog.store \cup {DescVa} /\ va \in Known(prog)
      BY DEF Delayable, Known, Used
    <3>2. CASE PageOf(va) = FreePage
      BY <1>2, <3>1, <3>2 DEF Delayable, Running
    <3>3. CASE PageOf(va) # FreePage
      <4>1. Meaning(next, va) = Meaning(plain[DescPa], va)
        BY <1>6, <3>1, <3>3, MeaningElsewhere
      <4>2. Meaning(plain[DescPa], va) # NoEntry /\ Meaning(plain[DescPa], va).b
        BY <3>3 DEF Delayable
      <4> QED BY <1>2, <3>1, <3>3, <4>1, <4>2 DEF Delayable, Running
    <3> QED BY <3>2, <3>3
  <2> QED BY <1>17, <2>1, DelayedMore
<1>20. TablesIn(mem', prog) /\ TablesIn(plain', prog)
  <2> SUFFICES ASSUME NEW w \in TableWords(prog) \ {DescPa}
               PROVE  mem'[w] = Loaded[w] /\ plain'[w] = Loaded[w]
    BY DEF TablesIn
  <2>1. ~Buffered(wb, w) /\ w \in DOMAIN Loaded
    BY <1>2, TableApart
  <2>2. mem[w] = Loaded[w] /\ plain[w] = Loaded[w]
    BY DEF MmuInv, Tables, TablesIn
  <2>3. mem'[w] = mem[w]
    BY <1>3, <1>17, <2>1 DEF Wrote
  <2>4. plain'[w] = plain[w]
    BY <1>13, <2>1 DEF Written
  <2> QED BY <2>2, <2>3, <2>4
<1>21. DescAt("clean", next, wb', mem', plain')
  BY <1>4, <1>18 DEF DescAt
<1>22. Complete(d_cache', wb', mem', plain')
  BY <1>17 DEF Wrote
<1>23. InMemory(d_cache', wb', CodePages, fresh, map)
  <2>1. InMemory(d_cache, wb, CodePages, fresh, map)
    BY DEF MmuInv, Freshness
  <2>2. Apart(CodePages, map, DescVa)
    <3>1. Apart(UsedPages(prog) \cup prog.code, map, DescVa)
      BY <1>2, <1>3, DataPage
    <3> QED BY <3>1 DEF Apart, CodePages
  <2>3. InMemory(d_cache', wb', CodePages, Stored(DescVa), map)
    BY <1>6, <1>17, <2>1, <2>2, WroteInMemory
  <2> QED BY <1>10, <2>3
<1>24. Phased' /\ "clean" \in OffPcs \cup OnPcs
  <2>1. Phased
    BY DEF MmuInv
  <2>2. /\ pc \in OnPcs /\ pc' \notin OffPcs /\ pc' \in Remapping /\ pc' \in OnPcs
        /\ pc' \notin {"idle", "off1", "off2", "boot", "boot2"} /\ pc \notin {"boot", "boot2"}
    BY <1>1 DEF OnPcs, OffPcs, Running, Remapping
  <2> QED BY <1>1, <1>2, <1>5, <1>7, <2>1, <2>2 DEF Phased
<1>25. /\ Coherent(i_cache', IPages(pc', prog), map', plain')
       /\ Coherent(d_cache', DPages(pc', prog), map', plain')
  <2>1. IPages(pc, prog) = IPages("clean", prog) /\ DPages(pc, prog) = DPages("clean", prog)
    BY <1>2, RemapPages
  <2> QED BY <1>1, <1>7, <1>15, <1>17, <2>1
<1>26. /\ Delayed(wb', Delayable(pc', prog, plain'[DescPa]), map')
       /\ InMemory(d_cache', wb', CodePages, fresh', map')
       /\ DescAt(pc', next', wb', mem', plain')
       /\ next' \in Descs /\ pc' \in OffPcs \cup OnPcs /\ fresh' \in [CodePages -> 0 .. 2]
  BY <1>1, <1>4, <1>7, <1>8, <1>18, <1>19, <1>21, <1>23, <1>24
<1>27. /\ Fine(i_tlb', prog.size["tlb"], prog, plain'[DescPa], StaleI(pc'))
       /\ Fine(d_tlb', prog.size["tlb"], prog, plain'[DescPa], StaleD(pc'))
  <2>1. StaleI(pc') /\ StaleD(pc')
    BY <1>1 DEF StaleI, StaleD
  <2>2. Fine(i_tlb', prog.size["tlb"], prog, plain[DescPa], StaleI(pc))
    BY <1>5, TlbsFine, Zenon
  <2>3. Fine(i_tlb', prog.size["tlb"], prog, plain'[DescPa], StaleI(pc'))
    BY <2>1, <2>2, FineAt, Zenon
  <2>4. Fine(d_tlb', prog.size["tlb"], prog, plain'[DescPa], StaleD(pc'))
    BY <1>5, <2>1, FineAt, Zenon
  <2> QED BY <2>3, <2>4
<1> QED BY <1>1, <1>13, <1>15, <1>17, <1>20, <1>22, <1>24, <1>25, <1>26, <1>27, Stands, Zenon

\* A write with the MMU off goes to memory.
LEMMA OffWrite ==
  ASSUME MmuInv, pc = "off", NEW va \in prog.store \cup {DescPa}, NEW data \in Vals,
         write(va, data, FALSE), P!PlainStore(va, data, FALSE), UNCHANGED <<prog, pc, fresh>>,
         next' \in Descs, DescAt(pc, next', wb, [mem EXCEPT ![va] = data], plain'),
         va \in TableWords(prog) => va = DescPa
  PROVE  MmuInv'
<1>1. /\ prog \in Programs /\ ~MMU_Enabled /\ map = Identity /\ pc \in OffPcs
      /\ \A a : ~Buffered(wb, a) /\ DirtyPlaces(d_cache, a) = {}
      /\ \A p \in Places(d_cache) : ~d_cache.lines[p].valid
  BY CacheFacts, OffFacts DEF OffPcs
<1>2. IPages(pc, prog) = {PageOf(vb) : vb \in prog.store}
  BY PagesAt
<1>3. /\ va \in Nat /\ Phys(map, va) = va /\ va \in DOMAIN Loaded
      /\ map[PageOf(va)].page \in Nat /\ map[PageOf(va)].write = BOOLEAN
      /\ Mapped(IPages(pc, prog), map) /\ Apart(IPages(pc, prog), map, va)
  BY <1>1, <1>2, IdentityMapped
<1>4. /\ UNCHANGED <<control, ttb, dacr, i_tlb, d_tlb, d_cache, wb>>
      /\ i_cache' = IcacheWritten(va, data) /\ mem' = [mem EXCEPT ![va] = data]
  BY <1>1 DEF write, regs
<1>5. map' = map /\ plain' = [plain EXCEPT ![va] = data]
  <2>1. P!Writable(va, FALSE)
    BY <1>3 DEF P!Writable, P!Mapping, PageOf
  <2> QED BY <1>3, <2>1 DEF P!PlainStore, P!PlainPa, P!Mapping, Phys, PageOf
<1>6. /\ plain \in Memory /\ mem \in Memory /\ Complete(d_cache, wb, mem, plain)
      /\ d_cache \in CacheRec(prog.size["dway"], prog.size["dset"])
      /\ fresh \in [CodePages -> 0 .. 2]
      /\ wb \in Seq(WbRec) /\ Len(wb) <= WbNum
  BY DEF MmuInv, Typed, Coherence
<1>7. plain' \in Memory /\ Written(plain, plain', va, data)
  BY <1>3, <1>5, <1>6, PlainWritten, Zenon
<1>8. Written(plain, plain', Phys(map, va), data)
  BY <1>3, <1>7
<1>9. /\ i_cache' \in CacheRec(prog.size["iway"], prog.size["iset"])
      /\ Coherent(i_cache', IPages(pc, prog), map, plain')
  BY <1>3, <1>4, <1>8, IcacheStored, Zenon
<1>10. mem' \in Memory /\ Wrote(d_cache, wb, mem, d_cache, wb, mem', plain, plain', va)
  <2>1. PICK n : n = mem'
    OBVIOUS
  <2>2. n = [mem EXCEPT ![va] = data]
    BY <1>4, <2>1
  <2>3. n \in Memory /\ Wrote(d_cache, wb, mem, d_cache, wb, n, plain, plain', va)
    BY <1>1, <1>3, <1>6, <1>7, <2>2, WroteMemory, Zenon
  <2> QED BY <2>1, <2>3
<1>11. /\ Delayable(pc, prog, plain[DescPa]) = {} /\ Delayable(pc, prog, plain'[DescPa]) = {}
  BY <1>1, OffDelay
<1>12. Delayed(wb, Delayable(pc, prog, plain'[DescPa]), map)
  BY <1>11 DEF MmuInv, Coherence
<1>13. Coherent(d_cache, DPages(pc, prog), map, plain')
  BY <1>1, CoherentEmpty
<1>14. Separate(d_cache, wb) /\ Complete(d_cache, wb, mem', plain')
  BY <1>10 DEF MmuInv, Coherence, Wrote
<1>15. InMemory(d_cache, wb, CodePages, fresh, map)
  BY <1>1, AllInMemory
<1>16. TablesIn(mem', prog) /\ TablesIn(plain', prog)
  <2> SUFFICES ASSUME NEW w \in TableWords(prog) \ {DescPa}
               PROVE  mem'[w] = Loaded[w] /\ plain'[w] = Loaded[w]
    BY DEF TablesIn
  <2>1. w \in DOMAIN Loaded /\ w # va
    BY <1>1, TablesAssumption
  <2>2. mem[w] = Loaded[w] /\ plain[w] = Loaded[w]
    BY DEF MmuInv, Tables, TablesIn
  <2>3. mem'[w] = mem[w]
    BY <1>1, <1>10, <2>1 DEF Wrote
  <2>4. plain'[w] = plain[w]
    BY <1>7, <2>1 DEF Written
  <2> QED BY <2>2, <2>3, <2>4
<1>17. Phased' /\ pc' \in OffPcs \cup OnPcs
  <2>1. Phased
    BY DEF MmuInv
  <2>2. pc \notin OnPcs /\ pc \notin Remapping /\ pc \notin {"idle", "off1", "off2"}
    BY DEF OnPcs, Running, Remapping
  <2> QED BY <1>1, <1>4, <1>5, <2>1, <2>2 DEF Phased
<1>18. /\ Fine(i_tlb, prog.size["tlb"], prog, plain'[DescPa], StaleI(pc))
       /\ Fine(d_tlb, prog.size["tlb"], prog, plain'[DescPa], StaleD(pc))
  <2>1. StaleI(pc) /\ StaleD(pc)
    BY DEF StaleI, StaleD
  <2>2. /\ Fine(i_tlb, prog.size["tlb"], prog, plain[DescPa], StaleI(pc))
        /\ Fine(d_tlb, prog.size["tlb"], prog, plain[DescPa], StaleD(pc))
    BY TlbsFine
  <2> QED BY <2>1, <2>2, FineAt, Zenon
<1>19. /\ Coherent(i_cache', IPages(pc', prog), map', plain')
       /\ Coherent(d_cache', DPages(pc', prog), map', plain')
       /\ Delayed(wb', Delayable(pc', prog, plain'[DescPa]), map')
       /\ Separate(d_cache', wb') /\ Complete(d_cache', wb', mem', plain')
       /\ InMemory(d_cache', wb', CodePages, fresh', map')
       /\ DescAt(pc', next', wb', mem', plain')
       /\ fresh' \in [CodePages -> 0 .. 2]
       /\ d_cache' \in CacheRec(prog.size["dway"], prog.size["dset"])
       /\ wb' \in Seq(WbRec) /\ Len(wb') <= WbNum
  BY <1>4, <1>5, <1>6, <1>9, <1>12, <1>13, <1>14, <1>15
<1>20. /\ Fine(i_tlb', prog.size["tlb"], prog, plain'[DescPa], StaleI(pc'))
       /\ Fine(d_tlb', prog.size["tlb"], prog, plain'[DescPa], StaleD(pc'))
  BY <1>4, <1>18, Zenon
<1> QED BY <1>7, <1>9, <1>10, <1>16, <1>17, <1>19, <1>20, Stands, Zenon

\* Stores with the MMU off: a program's, and one that replaces the descriptor.
LEMMA OffStoreStep ==
  ASSUME MmuInv, OffStore \/ OffStoreDesc
  PROVE  MmuInv'
<1>1. prog \in Programs /\ next \in Descs /\ DescAt(pc, next, wb, mem, plain) /\ plain \in Memory /\ mem \in Memory
  BY DEF MmuInv, Typed, Tables
<1>2. DescPa \in TableWords(prog) /\ DescPa \in DOMAIN Loaded
  BY <1>1, FreeFacts
<1>3. ASSUME NEW va \in prog.store \cup {DescPa}, NEW data, pc = "off", P!PlainStore(va, data, FALSE)
      PROVE  plain' = [plain EXCEPT ![va] = data] /\ va \in DOMAIN Loaded
  <2>1. map = Identity
    BY <1>3, OffFacts DEF OffPcs
  <2>2. Phys(map, va) = va /\ map[PageOf(va)].write = BOOLEAN /\ va \in DOMAIN Loaded
    BY <1>1, <2>1, IdentityMapped
  <2> QED BY <1>3, <2>2 DEF P!PlainStore, P!PlainPa, P!Writable, P!Mapping, Phys, PageOf
<1>4. CASE OffStore
  <2>1. PICK pa \in prog.store, data \in Data :
          pc = "off" /\ write(pa, data, FALSE) /\ P!PlainStore(pa, data, FALSE) /\ UNCHANGED guest
    BY <1>4 DEF OffStore
  <2>2. data \in Vals /\ pa \notin TableWords(prog) /\ UNCHANGED <<prog, pc, fresh, next>>
    BY <1>1, <2>1, TablesAssumption DEF Vals, guest
  <2>3. plain' = [plain EXCEPT ![pa] = data] /\ pa # DescPa
    BY <1>2, <1>3, <2>1, <2>2
  <2>4. plain'[DescPa] = plain[DescPa] /\ [mem EXCEPT ![pa] = data][DescPa] = mem[DescPa]
    BY <1>1, <1>2, <2>3 DEF Memory
  <2>5. DescAt(pc, next', wb, [mem EXCEPT ![pa] = data], plain')
    BY <1>1, <2>2, <2>4 DEF DescAt
  <2> QED BY <1>1, <2>1, <2>2, <2>5, OffWrite
<1>5. CASE OffStoreDesc
  <2>1. PICK d \in prog.descs :
          /\ pc = "off" /\ write(DescPa, d, FALSE) /\ P!PlainStore(DescPa, d, FALSE)
          /\ next' = d /\ UNCHANGED <<prog, pc, fresh>>
    BY <1>5 DEF OffStoreDesc
  <2>2. d \in Descs /\ d \in Vals
    BY <1>1, ProgramParts DEF Vals
  <2>3. plain' = [plain EXCEPT ![DescPa] = d]
    BY <1>3, <2>1
  <2>4. plain'[DescPa] = d /\ [mem EXCEPT ![DescPa] = d][DescPa] = d
    BY <1>1, <1>2, <2>3 DEF Memory
  <2>5. DescAt(pc, next', wb, [mem EXCEPT ![DescPa] = d], plain')
    BY <1>1, <2>1, <2>2, <2>4 DEF DescAt
  <2> QED BY <2>1, <2>2, <2>5, OffWrite
<1> QED BY <1>4, <1>5

-----------------------------------------------------------------------------
(* The invariant *)

\* It holds when the machine starts.
LEMMA InitInv == Init => MmuInv
<1> SUFFICES ASSUME Init
             PROVE  MmuInv
  OBVIOUS
<1>1. /\ prog \in Programs /\ pc = "boot" /\ next = Loaded[DescPa] /\ fresh = [p \in CodePages |-> 2]
      /\ plain = Loaded /\ map = Identity /\ mem = Loaded /\ control = {} /\ wb = <<>>
      /\ i_tlb = mmu_tlb_init(prog.size["tlb"]) /\ d_tlb = mmu_tlb_init(prog.size["tlb"])
      /\ i_cache = mmu_cache_init(prog.size["iway"], prog.size["iset"])
      /\ d_cache = mmu_cache_init(prog.size["dway"], prog.size["dset"])
  BY DEF Init, MmuInit, mmu_wb_init
<1>2. /\ prog.size["tlb"] \in Nat \ {0} /\ Sized(prog.size["iway"], prog.size["iset"])
      /\ Sized(prog.size["dway"], prog.size["dset"])
  BY <1>1, ProgramParts
<1>3. next \in Descs /\ DescPa \in DOMAIN Loaded
  BY <1>1, FreeFacts, TablesAssumption
<1>4. ASSUME NEW w, NEW s, Sized(w, s)
      PROVE  LET c == mmu_cache_init(w, s)
             IN /\ c \in CacheRec(w, s)
                /\ \A p \in Places(c) : ~c.lines[p].valid
                /\ \A a : DirtyPlaces(c, a) = {}
  <2> DEFINE c == mmu_cache_init(w, s)
  <2>1. c \in CacheRec(w, s)
    BY <1>4 DEF mmu_cache_init, CacheRec, Sized
  <2>2. \A p \in Places(c) : c.lines[p] = NoLine
    BY DEF mmu_cache_init, Places
  <2>3. \A p \in Places(c) : ~c.lines[p].valid
    BY <2>2 DEF NoLine
  <2> HIDE DEF c
  <2>4. \A a : DirtyPlaces(c, a) = {}
    BY <2>3 DEF DirtyPlaces
  <2> QED BY <2>1, <2>3, <2>4 DEF c
<1>5. /\ i_cache \in CacheRec(prog.size["iway"], prog.size["iset"])
      /\ \A p \in Places(i_cache) : ~i_cache.lines[p].valid
  BY <1>1, <1>2, <1>4, Zenon
<1>6. /\ d_cache \in CacheRec(prog.size["dway"], prog.size["dset"])
      /\ \A p \in Places(d_cache) : ~d_cache.lines[p].valid
      /\ \A a : DirtyPlaces(d_cache, a) = {}
  BY <1>1, <1>2, <1>4, Zenon
<1>7. wb \in Seq(WbRec) /\ Len(wb) <= WbNum /\ \A a : ~Buffered(wb, a)
  BY <1>1, EmptyBuffer, Sizes
<1>8. Loaded \in Memory
  <2>1. \A a \in DOMAIN Loaded : Loaded[a] \in Vals
    BY DEF Vals
  <2> QED BY <2>1, LoadedAssumption DEF Memory
<1>9. fresh \in [CodePages -> 0 .. 2]
  BY <1>1
<1>10. pc \in OffPcs \cup OnPcs /\ pc \in OffPcs /\ pc \notin OnPcs /\ pc \notin Remapping
       /\ pc \notin {"idle", "off1", "off2"}
  BY <1>1 DEF OffPcs, OnPcs, Running, Remapping
<1>11. Typed
  BY <1>1, <1>3, <1>5, <1>6, <1>7, <1>8, <1>9, <1>10 DEF Typed
<1>12. Phased
  BY <1>1, <1>10 DEF Phased
<1>13. Coherence
  <2>1. /\ Coherent(i_cache, IPages(pc, prog), map, plain)
        /\ Coherent(d_cache, DPages(pc, prog), map, plain)
    BY <1>5, <1>6, CoherentEmpty
  <2>2. Separate(d_cache, wb) /\ Delayed(wb, Delayable(pc, prog, plain[DescPa]), map)
    BY <1>1, SeparateNone
  <2>3. Complete(d_cache, wb, mem, plain)
    BY <1>1, <1>7 DEF Complete
  <2> QED BY <2>1, <2>2, <2>3 DEF Coherence
<1>14. Freshness
  BY <1>6, <1>7, AllInMemory DEF Freshness
<1>15. Tables
  <2>1. TablesIn(mem, prog) /\ TablesIn(plain, prog)
    BY <1>1 DEF TablesIn
  <2>2. DescAt(pc, next, wb, mem, plain)
    BY <1>1, <1>3, <1>7 DEF DescAt
  <2> QED BY <2>1, <2>2 DEF Tables
<1>16. Translated
  <2>1. \A cur, stale : Fine(mmu_tlb_init(prog.size["tlb"]), prog.size["tlb"], prog, cur, stale)
    BY <1>1, <1>2, TlbEmpty
  <2> QED BY <1>1, <2>1, Zenon DEF Translated
<1> QED BY <1>11, <1>12, <1>13, <1>14, <1>15, <1>16 DEF MmuInv

\* No step of a program or of the system breaks it.
LEMMA NextInv == MmuInv /\ [Next]_vars => MmuInv'
<1> SUFFICES ASSUME MmuInv, [Next]_vars
             PROVE  MmuInv'
  OBVIOUS
<1>1. CASE Store
  BY <1>1, StoreStep
<1>2. CASE Load
  BY <1>2, LoadStep
<1>3. CASE Fetch
  BY <1>3, FetchStep
<1>4. CASE Maintain
  BY <1>4, MaintainStep
<1>5. CASE FlushPage
  BY <1>5, FlushPageStep
<1>6. CASE FlushPageI
  BY <1>6, FlushPageIStep
<1>7. CASE StoreDesc
  BY <1>7, StoreDescStep
<1>8. CASE CleanDesc
  BY <1>8, CleanDescStep
<1>9. CASE DrainDesc
  BY <1>9, DrainDescStep
<1>10. CASE TlbEntryD
  BY <1>10, TlbEntryDStep
<1>11. CASE TlbEntryI
  BY <1>11, TlbEntryIStep
<1>12. CASE BootTtb \/ BootDacr
  BY <1>12, BootStep
<1>13. CASE TurnOnIcache
  BY <1>13, TurnOnIcacheStep
<1>14. CASE TurnOnTlbs
  BY <1>14, TurnOnTlbsStep
<1>15. CASE TurnOn
  BY <1>15, TurnOnStep
<1>16. CASE TurnOffCaches
  BY <1>16, TurnOffCachesStep
<1>17. CASE TurnOffDrain
  BY <1>17, TurnOffDrainStep
<1>18. CASE TurnOff
  BY <1>18, TurnOffStep
<1>19. CASE OffStore \/ OffStoreDesc
  BY <1>19, OffStoreStep
<1>20. CASE OffFetch
  BY <1>20, OffFetchStep
<1>21. CASE OffLoad
  BY <1>21, OffLoadStep
<1>22. CASE UNCHANGED vars
  <2>1. /\ UNCHANGED <<plain, prog, next, pc, map, ttb, dacr, control>>
        /\ UNCHANGED <<fresh, i_cache, d_cache, wb, mem, i_tlb, d_tlb>>
    BY <1>22 DEF vars, mmu, regs, guest
  <2>2. Sound(pc, map, fresh', i_cache', d_cache', wb', mem', i_tlb', d_tlb')
    BY <2>1, SoundNow
  <2> QED BY <2>1, <2>2, Quiet
<1> QED BY <1>1, <1>2, <1>3, <1>4, <1>5, <1>6, <1>7, <1>8, <1>9, <1>10, <1>11, <1>12, <1>13, <1>14,
           <1>15, <1>16, <1>17, <1>18, <1>19, <1>20, <1>21, <1>22 DEF Next

\* Memory, the caches, the write buffer and the TLBs together always hold plain
\* memory and the mapping in force, whatever the program and the sizes are.
THEOREM MmuInvariant == Spec => []MmuInv
BY InitInv, NextInv, PTL DEF Spec

-----------------------------------------------------------------------------
(* What the invariant says of the properties *)

\* Every page that has a line is in memory.
LEMMA CachesMapped ==
  ASSUME MmuInv
  PROVE  Mapped(IPages(pc, prog), map) /\ Mapped(DPages(pc, prog), map)
<1>1. prog \in Programs /\ pc \in OffPcs \cup OnPcs
  BY DEF MmuInv, Typed
<1>2. CASE pc \in Running
  <2>1. LikeMap(map)
    BY <1>2, OnMap DEF OnPcs
  <2>2. Mapped(UsedPages(prog), map)
    BY <1>1, <2>1, LikeMapped
  <2>3. pc = "idle" \/ pc \in Remapping
    BY <1>2 DEF Running
  <2>4. IPages(pc, prog) \subseteq UsedPages(prog) /\ DPages(pc, prog) \subseteq UsedPages(prog)
    BY <1>2, <2>3, PagesAt
  <2> QED BY <2>2, <2>4 DEF Mapped
<1>3. CASE pc \notin Running
  <2>1. DPages(pc, prog) = {}
    BY <1>3, PagesAt
  <2>2. CASE pc \in {"boot", "boot2", "off"}
    <3>1. map = Identity
      BY <2>2, OffFacts DEF OffPcs
    <3>2. Mapped(IPages(pc, prog), map)
      BY <1>1, <2>2, <3>1, IdentityMapped, PagesAt
    <3> QED BY <2>1, <3>2 DEF Mapped
  <2>3. CASE pc \notin {"boot", "boot2", "off"}
    <3>1. pc \in {"on1", "on2", "off1", "off2"}
      BY <1>1, <1>3, <2>3 DEF OffPcs, OnPcs
    <3>2. IPages(pc, prog) = {}
      BY <3>1, PagesAt
    <3> QED BY <2>1, <3>2 DEF Mapped
  <2> QED BY <2>2, <2>3
<1> QED BY <1>2, <1>3

\* The lines of a coherent cache, and where a virtual address is in it.
LEMMA CacheLines ==
  ASSUME NEW w, NEW s, Sized(w, s), NEW c \in CacheRec(w, s), NEW V, NEW m, NEW pl,
         Coherent(c, V, m, pl), Mapped(V, m), NEW l \in Lines(c)
  PROVE  /\ l.dirty \subseteq {FIRST, LAST} /\ l.pa \in DOMAIN Loaded
         /\ Cardinality(Holding(c, l.tag)) = 1
<1>1. PICK p \in Places(c) : c.lines[p].valid /\ l = c.lines[p]
  BY DEF Lines
<1>2. c.lines[p] \in LineRec \cup {NoLine}
  BY CacheParts
<1>3. l.dirty \subseteq {FIRST, LAST}
  BY <1>1, <1>2, LineKinds
<1>4. /\ Holds(l, V, m, pl) /\ p[1] = va_cache_set(l.tag, c)
  BY <1>1 DEF Coherent
<1>5. PICK v \in V : l.tag = v * PageWords /\ l.pa = m[v].page * PageWords
  BY <1>4 DEF Holds
<1>6. v \in Nat /\ m[v].page \in Nat /\ \A i \in LineIndex : (m[v].page * PageWords) + i \in DOMAIN Loaded
  BY DEF Mapped
<1>7. 0 \in LineIndex /\ PageWords \in Nat
  BY Sizes
<1>8. l.pa \in DOMAIN Loaded
  <2> DEFINE x == m[v].page * PageWords
  <2>1. x \in Nat
    BY <1>6, PageStart
  <2>2. x + 0 \in DOMAIN Loaded /\ l.pa = x
    BY <1>5, <1>6, <1>7
  <2> HIDE DEF x
  <2> QED BY <2>1, <2>2
<1>9. l.tag \in Nat /\ va_cache_align(l.tag) = l.tag
  BY <1>5, <1>6, PageStart
<1>10. p \in Holding(c, l.tag)
  BY <1>1, <1>4, <1>9 DEF Holding
<1>11. CacheHit(c, l.tag)
  BY <1>10 DEF CacheHit
<1>12. Holding(c, l.tag) = {mmu_cache_search(c, l.tag)}
  <2> DEFINE u == l.tag
  <2>1. u \in Nat /\ CacheHit(c, u)
    BY <1>9, <1>11
  <2> HIDE DEF u
  <2>2. Holding(c, u) = {mmu_cache_search(c, u)}
    BY <2>1, Lookup
  <2> QED BY <2>2 DEF u
<1>13. Cardinality(Holding(c, l.tag)) = 1
  BY <1>12, FS_Singleton
<1> QED BY <1>3, <1>8, <1>13

\* The invariant types the state.
LEMMA InvType == MmuInv => TypeOK
<1> SUFFICES ASSUME MmuInv
             PROVE  TypeOK
  OBVIOUS
<1>1. DOMAIN mem = DOMAIN Loaded /\ DOMAIN plain = DOMAIN Loaded /\ next \in Descs /\ Len(wb) <= WbNum
  BY DEF MmuInv, Typed, Memory
<1>2. control \subseteq {"M", "C", "W", "S", "R"} /\ (MMU_Enabled => MMU_WBEnabled)
  BY OnOff
<1>3. i_tlb.cycle \in Entries(i_tlb) /\ d_tlb.cycle \in Entries(d_tlb)
  <2>1. /\ Fine(i_tlb, prog.size["tlb"], prog, plain[DescPa], StaleI(pc))
        /\ Fine(d_tlb, prog.size["tlb"], prog, plain[DescPa], StaleD(pc))
    BY TlbsFine
  <2>2. ASSUME NEW t, NEW n, NEW g, NEW cur, NEW stale, Fine(t, n, g, cur, stale)
        PROVE  t.num = n /\ t.cycle \in 0 .. n - 1
    BY <2>2, Zenon DEF Fine
  <2>3. /\ i_tlb.num = prog.size["tlb"] /\ i_tlb.cycle \in 0 .. prog.size["tlb"] - 1
        /\ d_tlb.num = prog.size["tlb"] /\ d_tlb.cycle \in 0 .. prog.size["tlb"] - 1
    BY <2>1, <2>2, Zenon
  <2> QED BY <2>3 DEF Entries
<1>4. ASSUME NEW c \in {i_cache, d_cache}
      PROVE  /\ \A s \in 0 .. c.set - 1 : c.cycle[s] \in 0 .. c.way - 1
             /\ \A l \in Lines(c) : l.dirty \subseteq {FIRST, LAST} /\ l.pa \in DOMAIN mem
             /\ \A l \in Lines(c) : Cardinality(Holding(c, l.tag)) = 1
  <2>1. /\ prog \in Programs
        /\ Sized(prog.size["iway"], prog.size["iset"]) /\ Sized(prog.size["dway"], prog.size["dset"])
        /\ i_cache \in CacheRec(prog.size["iway"], prog.size["iset"])
        /\ d_cache \in CacheRec(prog.size["dway"], prog.size["dset"])
        /\ Coherent(i_cache, IPages(pc, prog), map, plain)
        /\ Coherent(d_cache, DPages(pc, prog), map, plain)
        /\ Mapped(IPages(pc, prog), map) /\ Mapped(DPages(pc, prog), map)
    BY CacheFacts, CachesMapped
  <2>2. PICK w, s, V : Sized(w, s) /\ c \in CacheRec(w, s) /\ Coherent(c, V, map, plain) /\ Mapped(V, map)
    BY <2>1
  <2>3. c.way = w /\ c.set = s /\ c.cycle \in [0 .. s - 1 -> 0 .. w - 1]
    BY <2>2, CacheParts
  <2>4. \A l \in Lines(c) : /\ l.dirty \subseteq {FIRST, LAST} /\ l.pa \in DOMAIN Loaded
                            /\ Cardinality(Holding(c, l.tag)) = 1
    BY <2>2, CacheLines
  <2> QED BY <1>1, <2>3, <2>4
<1> QED BY <1>1, <1>2, <1>3, <1>4 DEF TypeOK

\* The registers, the TLBs, the caches and the buffer keep their types, the write
\* buffer is on whenever the MMU is, and a virtual address is in one place of a
\* cache at most.
THEOREM TypeCorrect == Spec => []TypeOK
BY MmuInvariant, InvType, PTL

\* The invariant finds every word.
LEMMA InvWords == MmuInv => NoStoreLost
<1> SUFFICES ASSUME MmuInv, NEW pa \in DOMAIN plain
             PROVE  Current(pa) = plain[pa]
  BY DEF NoStoreLost
<1>1. pa \in DOMAIN Loaded
  BY DEF MmuInv, Typed, Memory
<1>2. Coherent(d_cache, DPages(pc, prog), map, plain) /\ Complete(d_cache, wb, mem, plain)
  BY DEF MmuInv, Coherence
<1>3. ASSUME NEW l \in DirtyAt(pa)
      PROVE  l.data[va_cache_index(pa)] = plain[pa]
  <2>1. PICK p \in Places(d_cache) : d_cache.lines[p].valid /\ l = d_cache.lines[p]
    BY DEF DirtyAt, Lines
  <2>2. p \in DirtyPlaces(d_cache, pa)
    BY <2>1 DEF DirtyAt, DirtyPlaces
  <2> QED BY <1>1, <1>2, <2>1, <2>2, DirtyWord
<1>4. DirtyAt(pa) = {} => DirtyPlaces(d_cache, pa) = {}
  BY DEF DirtyAt, DirtyPlaces, Lines
<1>5. CASE DirtyAt(pa) # {}
  <2> DEFINE l == CHOOSE k \in DirtyAt(pa) : TRUE
  <2>1. l \in DirtyAt(pa)
    BY <1>5
  <2>2. Current(pa) = l.data[va_cache_index(pa)]
    BY <1>5 DEF Current
  <2> QED BY <1>3, <2>1, <2>2
<1>6. CASE DirtyAt(pa) = {}
  <2>1. Current(pa) = IF Buffered(wb, pa) THEN LastBuffered(wb, pa) ELSE mem[pa]
    BY <1>6 DEF Current
  <2> QED BY <1>1, <1>2, <1>4, <1>6, <2>1 DEF Complete
<1> QED BY <1>5, <1>6

\* Whatever lines are replaced, cleaned, invalidated or flushed, whenever the buffer
\* fills up or is drained, and across every change of a mapping and of the MMU's
\* state, each word the machine holds is the last one stored there.
THEOREM NoStoreLostCorrect == Spec => []NoStoreLost
BY MmuInvariant, InvWords, PTL

\* An entry of a TLB is the walk for the first word it covers.
LEMMA EntryCurrent ==
  ASSUME MmuInv, pc \in OnPcs, NEW vb \in Used(prog), NEW d \in Descs,
         Meaning(d, vb) # NoEntry,
         PageOf(vb) = FreePage /\ pc \notin {"clean", "drain", "tlbD", "tlbI"} => d = plain[DescPa]
  PROVE  LET va == Meaning(d, vb).virt * Span(Meaning(d, vb).mapping) * PageWords
         IN \/ Meaning(d, vb) = Walk(mem, ttb, va)
            \/ PageOf(va) = FreePage /\ pc \in {"clean", "drain", "tlbD", "tlbI"}
<1> DEFINE e == Meaning(d, vb)
           k == Span(e.mapping)
           v == e.virt * k
<1>1. prog \in Programs /\ TablesIn(mem, prog) /\ DescAt(pc, next, wb, mem, plain) /\ ttb = Table
  <2>1. pc # "boot"
    BY DEF OnPcs, Running, Remapping
  <2> QED BY <2>1 DEF MmuInv, Typed, Tables, Phased
<1>2. vb \in Nat /\ vb \in Known(prog) /\ PageOf(vb) \in Nat
  BY <1>1, UsedWords
<1>3. e.mapping = (IF InTable(vb) THEN TLB_SMALLPAGE ELSE TLB_SECTION) /\ e.virt = PageOf(vb) \div k
  BY <1>1, <1>2, MeaningFound
<1>4. k \in Nat \ {0}
  BY Sizes DEF Span
<1>5. e.virt \in Nat
  BY <1>2, <1>3, <1>4, DivMod
<1>6. v \in Nat /\ v \div k = e.virt
  <2> HIDE DEF k, e
  <2>1. 0 \in 0 .. k - 1
    BY <1>4
  <2>2. (e.virt * k + 0) \div k = e.virt
    BY <1>4, <1>5, <2>1, DivUnique
  <2>3. e.virt * k \in Nat
    BY <1>4, <1>5
  <2> QED BY <2>2, <2>3
<1> DEFINE va == v * PageWords
<1>7. va \in Nat /\ PageOf(va) = v
  <2> HIDE DEF v
  <2> QED BY <1>6, PageStart
<1>8. CASE PageOf(vb) # FreePage \/ pc \notin {"clean", "drain", "tlbD", "tlbI"}
  <2>1. PageOf(vb) = FreePage => mem[DescPa] = d
    BY <1>1, <1>8 DEF DescAt
  <2>2. Walk(mem, Table, vb) = e
    BY <1>1, <1>2, <2>1, WalkMeaning
  <2>3. e.virt = PageOf(va) \div k
    BY <1>6, <1>7
  <2>4. Walk(mem, Table, vb) # NoEntry
        /\ Walk(mem, Table, vb).virt = PageOf(va) \div Span(Walk(mem, Table, vb).mapping)
    BY <2>2, <2>3
  <2> HIDE DEF e, va
  <2>5. Walk(mem, Table, va) = Walk(mem, Table, vb)
    BY <1>2, <1>7, <2>4, WalkSame
  <2>6. e = Walk(mem, ttb, va)
    BY <1>1, <2>2, <2>5
  <2> QED BY <2>6 DEF e, va
<1>9. CASE PageOf(vb) = FreePage /\ pc \in {"clean", "drain", "tlbD", "tlbI"}
  <2>1. InTable(vb)
    <3>1. L1At(vb) = L1At(FreeVa)
      BY <1>9, FreeFacts, Zenon DEF L1At
    <3> QED BY <3>1, FreeFacts DEF InTable
  <2>2. k = 1
    BY <1>3, <2>1 DEF Span, TLB_SMALLPAGE, TLB_SECTION
  <2>3. v = FreePage
    <3>1. e.virt = FreePage \div 1 /\ v = e.virt * 1
      BY <1>3, <1>9, <2>2
    <3> HIDE DEF e, v
    <3> QED BY <1>5, <3>1, FreeFacts
  <2> QED BY <1>7, <1>9, <2>3
<1> QED BY <1>8, <1>9

\* The invariant says so of both TLBs.
LEMMA InvTlbs == MmuInv => TlbCurrent
<1> SUFFICES ASSUME MmuInv, MMU_Enabled, NEW t \in {i_tlb, d_tlb}, NEW i \in Entries(t),
                    t.entrys[i].mapping # TLB_INVALID
             PROVE  LET entry == t.entrys[i]
                        va == entry.virt * Span(entry.mapping) * PageWords
                    IN \/ entry = Walk(mem, ttb, va)
                       \/ PageOf(va) = FreePage /\ pc \in {"clean", "drain", "tlbD", "tlbI"}
  BY Zenon DEF TlbCurrent
<1>1. pc \in OnPcs
  BY OnOff DEF MmuInv, Typed
<1>2. PICK stale \in BOOLEAN : /\ Fine(t, prog.size["tlb"], prog, plain[DescPa], stale)
                               /\ stale => pc \in {"clean", "drain", "tlbD", "tlbI"}
  <2>1. /\ Fine(i_tlb, prog.size["tlb"], prog, plain[DescPa], StaleI(pc))
        /\ Fine(d_tlb, prog.size["tlb"], prog, plain[DescPa], StaleD(pc))
    BY TlbsFine
  <2>2. StaleI(pc) \in BOOLEAN /\ StaleD(pc) \in BOOLEAN
    BY DEF StaleI, StaleD
  <2>3. /\ StaleI(pc) => pc \in {"clean", "drain", "tlbD", "tlbI"}
        /\ StaleD(pc) => pc \in {"clean", "drain", "tlbD", "tlbI"}
    BY <1>1 DEF StaleI, StaleD, OnPcs, Running, Remapping
  <2>4. CASE t = i_tlb
    BY <2>1, <2>2, <2>3, <2>4, Zenon
  <2>5. CASE t = d_tlb
    BY <2>1, <2>2, <2>3, <2>5, Zenon
  <2> QED BY <2>4, <2>5
<1>3. t.entrys[i] # NoEntry
  BY DEF NoEntry
<1>4. PICK vb \in Used(prog), d \in Descs :
        /\ t.entrys[i] = Meaning(d, vb) /\ Meaning(d, vb) # NoEntry
        /\ PageOf(vb) = FreePage /\ ~stale => d = plain[DescPa]
  BY <1>2, <1>3 DEF Fine, Entries
<1>5. PageOf(vb) = FreePage /\ pc \notin {"clean", "drain", "tlbD", "tlbI"} => d = plain[DescPa]
  BY <1>2, <1>4
<1>6. LET va == Meaning(d, vb).virt * Span(Meaning(d, vb).mapping) * PageWords
      IN \/ Meaning(d, vb) = Walk(mem, ttb, va)
         \/ PageOf(va) = FreePage /\ pc \in {"clean", "drain", "tlbD", "tlbI"}
  BY <1>1, <1>4, <1>5, EntryCurrent, Zenon
<1> QED BY <1>4, <1>6

\* A translation is never older than the tables in memory, but for the page whose
\* descriptor is being replaced.
THEOREM TlbCurrentCorrect == Spec => []TlbCurrent
BY MmuInvariant, InvTlbs, PTL

\* The word a read returns.
LEMMA ReadWord ==
  ASSUME MMU_Enabled, NEW va, NEW user, NEW tr, tr = Translation(d_tlb, va), NEW kind,
         kind = ReadKind(tr, va, user)
  PROVE  /\ kind = "fault" => ReadData(va, user) = FAULT
         /\ kind = "hit" => ReadData(va, user) = CachedWord(d_cache, va)
         /\ kind = "memory" => ReadData(va, user) = ReadSource(tr)[PaOf(tr, va)]
         /\ kind = "alloc" => ReadData(va, user)
              = CachedWord(mmu_cache_alloc(d_cache, ReadSource(tr), va, PaOf(tr, va)).cache, va)
BY DEF ReadData

\* A load returns what plain memory has.
LEMMA LoadAgrees ==
  ASSUME MmuInv, pc \in Running, NEW va \in Used(prog), Accessible(va), NEW user \in BOOLEAN,
         P!PlainPa(va) \notin FlushWords
  PROVE  ReadData(va, user) = P!PlainRead(va, user)
<1> DEFINE tr == Translation(d_tlb, va)
           kind == ReadKind(tr, va, user)
           e == Meaning(plain[DescPa], va)
           b == IF tr.entry.b THEN <<>> ELSE wb
<1>1. MMU_Enabled
  BY OnOff DEF OnPcs
<1>2. /\ tr.entry = e
      /\ Faults(tr, user, TRUE) <=> ~P!Readable(va, user)
      /\ tr.entry # NoEntry => PaOf(tr, va) = Phys(map, va) /\ tr.entry.b \in BOOLEAN
  BY DataAccess
<1>3. P!PlainPa(va) = Phys(map, va)
  BY DEF P!PlainPa, P!Mapping, Phys, PageOf
<1>4. P!PlainRead(va, user) = IF P!Readable(va, user) THEN plain[Phys(map, va)] ELSE FAULT
  BY <1>3 DEF P!PlainRead
<1>5. /\ kind = "fault" => ReadData(va, user) = FAULT
      /\ kind = "hit" => ReadData(va, user) = CachedWord(d_cache, va)
      /\ kind = "memory" => ReadData(va, user) = ReadSource(tr)[PaOf(tr, va)]
      /\ kind = "alloc" => ReadData(va, user)
           = CachedWord(mmu_cache_alloc(d_cache, ReadSource(tr), va, PaOf(tr, va)).cache, va)
  BY <1>1, ReadWord, Zenon
<1>6. /\ Faults(tr, user, TRUE) => kind = "fault"
      /\ ~Faults(tr, user, TRUE) /\ CacheHit(d_cache, va) => kind = "hit"
      /\ ~Faults(tr, user, TRUE) /\ ~CacheHit(d_cache, va) /\ PaOf(tr, va) \notin FlushWords =>
           kind = "alloc" \/ kind = "memory"
  BY ReadCases
<1>7. b = IF tr.entry.b THEN <<>> ELSE wb
  OBVIOUS
<1> HIDE DEF tr, kind, b
<1>8. CASE ~P!Readable(va, user)
  BY <1>2, <1>4, <1>5, <1>6, <1>8
<1>9. CASE P!Readable(va, user)
  <2>1. ~Faults(tr, user, TRUE)
    BY <1>2, <1>9
  <2>2. tr.entry # NoEntry
    BY <2>1 DEF Faults
  <2>3. PaOf(tr, va) = Phys(map, va) /\ tr.entry.b \in BOOLEAN /\ e # NoEntry
    BY <1>2, <2>2
  <2>4. /\ va \in Nat /\ Mapped(DPages(pc, prog), map) /\ Phys(map, va) \in DOMAIN Loaded
        /\ map[PageOf(va)].page \in Nat
    BY DataPage
  <2>5. CASE CacheHit(d_cache, va)
    <3>1. /\ Sized(prog.size["dway"], prog.size["dset"])
          /\ d_cache \in CacheRec(prog.size["dway"], prog.size["dset"])
          /\ Coherent(d_cache, DPages(pc, prog), map, plain)
      BY CacheFacts
    <3>2. CachedWord(d_cache, va) = plain[Phys(map, va)]
      BY <2>4, <2>5, <3>1, CachedPlain
    <3> QED BY <1>4, <1>5, <1>6, <1>9, <2>1, <2>5, <3>2
  <2>6. CASE ~CacheHit(d_cache, va)
    <3>1. kind = "alloc" \/ kind = "memory"
      BY <1>3, <1>6, <2>1, <2>3, <2>6
    <3>2. Sound(pc, map, fresh, i_cache, d_cache, b, ReadSource(tr), i_tlb, d_tlb)
      BY <1>7, <2>3, SoundSource
    <3>3. b = <<>> \/ (~e.b /\ b = wb)
      BY <1>2, <1>7, <2>3
    <3>4. CASE kind = "memory"
      <4>1. \A a \in DOMAIN Loaded : PageOf(a) = map[PageOf(va)].page => ReadSource(tr)[a] = plain[a]
        BY <2>3, <2>6, <3>2, <3>3, Source, Zenon
      <4>2. PageOf(Phys(map, va)) = map[PageOf(va)].page
        BY <2>4, PhysParts
      <4>3. ReadSource(tr)[Phys(map, va)] = plain[Phys(map, va)]
        BY <2>4, <4>1, <4>2
      <4> QED BY <1>4, <1>5, <1>9, <2>3, <3>4, <4>3
    <3>5. CASE kind = "alloc"
      <4> DEFINE r == mmu_cache_alloc(d_cache, ReadSource(tr), va, Phys(map, va))
      <4>1. CachedWord(r.cache, va) = plain[Phys(map, va)]
        BY <2>3, <2>6, <3>2, <3>3, DataAlloc, Zenon
      <4>2. ReadData(va, user) = CachedWord(r.cache, va)
        BY <1>5, <2>3, <3>5
      <4> QED BY <1>4, <1>9, <4>1, <4>2
    <3> QED BY <3>1, <3>4, <3>5
  <2> QED BY <2>5, <2>6
<1> QED BY <1>8, <1>9

\* The instruction cache, or memory, has the word of a page that is in memory.
LEMMA InstrWord ==
  ASSUME MmuInv, NEW va \in Nat, PageOf(va) \in IPages(pc, prog), Mapped(IPages(pc, prog), map),
         PageOf(va) \in Nat,
         \A a \in DOMAIN Loaded : PageOf(a) = map[PageOf(va)].page => mem[a] = plain[a],
         NEW user, NEW f, f = FetchOf(va, user), ~f.fault, f.pa = Phys(map, va)
  PROVE  Instr(va, user) = plain[Phys(map, va)]
<1>1. Instr(va, user) = IF CacheHit(i_cache, va) THEN CachedWord(i_cache, va)
                        ELSE IF f.c THEN CachedWord(mmu_cache_alloc(i_cache, mem, va, f.pa).cache, va)
                        ELSE mem[f.pa]
  BY DEF Instr
<1>2. CASE CacheHit(i_cache, va)
  <2>1. /\ Sized(prog.size["iway"], prog.size["iset"])
        /\ i_cache \in CacheRec(prog.size["iway"], prog.size["iset"])
        /\ Coherent(i_cache, IPages(pc, prog), map, plain)
    BY CacheFacts
  <2>2. CachedWord(i_cache, va) = plain[Phys(map, va)]
    BY <1>2, <2>1, CachedPlain
  <2> QED BY <1>1, <1>2, <2>2
<1>3. CASE ~CacheHit(i_cache, va)
  <2> DEFINE r == mmu_cache_alloc(i_cache, mem, va, Phys(map, va))
  <2>1. CachedWord(r.cache, va) = plain[Phys(map, va)]
    BY <1>3, InstrAlloc, Zenon
  <2>2. mem[Phys(map, va)] = plain[Phys(map, va)]
    <3>1. map[PageOf(va)].page \in Nat
      BY DEF Mapped
    <3>2. PageOf(Phys(map, va)) = map[PageOf(va)].page
      BY <3>1, PhysParts
    <3>3. Phys(map, va) \in DOMAIN Loaded
      BY MappedWord
    <3> QED BY <3>2, <3>3
  <2>3. Instr(va, user) = IF f.c THEN CachedWord(r.cache, va) ELSE mem[Phys(map, va)]
    BY <1>1, <1>3
  <2> HIDE DEF r
  <2> QED BY <2>1, <2>2, <2>3
<1> QED BY <1>2, <1>3

\* A fetch returns what plain memory has,
LEMMA FetchAgrees ==
  ASSUME MmuInv, pc \in Running, NEW va \in prog.store \cup prog.load, MayFetch(va),
         NEW user \in BOOLEAN
  PROVE  Instr(va, user) = P!PlainRead(va, user)
<1> DEFINE f == FetchOf(va, user)
<1>1. /\ va \in Nat /\ PageOf(va) \in Nat
      /\ PageOf(va) \in IPages(pc, prog) /\ Mapped(IPages(pc, prog), map)
      /\ \A a \in DOMAIN Loaded : PageOf(a) = map[PageOf(va)].page => mem[a] = plain[a]
      /\ f.fault <=> ~P!Readable(va, user)
      /\ ~f.fault => f.pa = Phys(map, va)
  BY Fetched, Zenon
<1>2. P!PlainPa(va) = Phys(map, va)
  BY DEF P!PlainPa, P!Mapping, Phys, PageOf
<1>3. P!PlainRead(va, user) = IF P!Readable(va, user) THEN plain[Phys(map, va)] ELSE FAULT
  BY <1>2 DEF P!PlainRead
<1>4. f = FetchOf(va, user)
  OBVIOUS
<1>5. f.fault => Instr(va, user) = FAULT
  BY DEF Instr
<1> HIDE DEF f
<1>6. ~f.fault => Instr(va, user) = plain[Phys(map, va)]
  BY <1>1, <1>4, InstrWord, Zenon
<1> QED BY <1>1, <1>3, <1>5, <1>6

\* and so do accesses with the MMU off.
LEMMA OffAgrees ==
  ASSUME MmuInv, pc = "off", NEW pa \in prog.store
  PROVE  ReadData(pa, FALSE) = plain[pa] /\ Instr(pa, FALSE) = plain[pa]
<1>1. /\ prog \in Programs /\ ~MMU_Enabled /\ map = Identity
      /\ \A a \in DOMAIN Loaded : mem[a] = plain[a]
  BY CacheFacts, OffFacts DEF OffPcs
<1>2. IPages(pc, prog) = {PageOf(va) : va \in prog.store}
  BY PagesAt
<1>3. /\ pa \in Nat /\ Phys(map, pa) = pa /\ pa \in DOMAIN Loaded
      /\ Mapped(IPages(pc, prog), map) /\ PageOf(pa) \in IPages(pc, prog)
  BY <1>1, <1>2, IdentityMapped
<1>4. PageOf(pa) \in Nat
  BY <1>3, WordParts
<1>5. ReadData(pa, FALSE) = plain[pa]
  BY <1>1, <1>3 DEF ReadData
<1> DEFINE f == FetchOf(pa, FALSE)
<1>6. ~f.fault /\ f.pa = pa /\ f = FetchOf(pa, FALSE)
  BY <1>1 DEF FetchOf
<1> HIDE DEF f
<1>7. Instr(pa, FALSE) = plain[Phys(map, pa)]
  <2>1. f.pa = Phys(map, pa)
    BY <1>3, <1>6
  <2> QED BY <1>1, <1>3, <1>4, <1>6, <2>1, InstrWord, Zenon
<1> QED BY <1>3, <1>5, <1>7

\* The invariant makes accesses agree with plain memory.
LEMMA InvLoads == MmuInv => LoadsAgree
<1> SUFFICES ASSUME MmuInv
             PROVE  LoadsAgree
  OBVIOUS
<1>1. ASSUME pc \in Running, NEW user \in BOOLEAN, NEW va \in prog.store \cup prog.load
      PROVE  /\ Accessible(va) /\ P!PlainPa(va) \notin FlushWords =>
                  ReadData(va, user) = P!PlainRead(va, user)
             /\ MayFetch(va) => Instr(va, user) = P!PlainRead(va, user)
  <2>1. va \in Used(prog)
    BY DEF Used
  <2> QED BY <1>1, <2>1, LoadAgrees, FetchAgrees
<1>2. ASSUME pc = "off", NEW pa \in prog.store
      PROVE  ReadData(pa, FALSE) = plain[pa] /\ Instr(pa, FALSE) = plain[pa]
  BY <1>2, OffAgrees
<1> QED BY <1>1, <1>2 DEF LoadsAgree

\* Every access gets what plain memory gives: a load the last word stored at the
\* address or a fault, as the mapping in force says, and so does a fetch from a page
\* that was cleaned and drained after its last store.
THEOREM LoadsAgreeCorrect == Spec => []LoadsAgree
BY MmuInvariant, InvLoads, PTL

=============================================================================
