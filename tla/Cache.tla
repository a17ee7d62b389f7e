------------------------------- MODULE Cache --------------------------------
(***************************************************************************)
(* cache.c: a set-associative write-back cache, looked up by virtual       *)
(* address, with round-robin replacement and one dirty bit per half line.  *)
(* The operations that reach memory take it as a parameter, and those that *)
(* change both return [cache, mem].                                        *)
(***************************************************************************)
EXTENDS Integers, FiniteSetsExt

CONSTANT LineWords         \* words of a line                         (code: 8)

FIRST == 1
LAST == 2

va_cache_align(va) == va - (va % LineWords)
va_cache_set(va, c) == (va \div LineWords) % c.set
va_cache_index(va) == va % LineWords

LineIndex == 0 .. LineWords - 1

\* The places of a cache: set and way.
Places(c) == (0 .. c.set - 1) \X (0 .. c.way - 1)

\* The half a word of a line belongs to.
Half(i) == IF i < LineWords \div 2 THEN FIRST ELSE LAST

NoLine == [valid |-> FALSE]

mmu_cache_init(way, set) ==
  [way |-> way, set |-> set,
   lines |-> [p \in (0 .. set - 1) \X (0 .. way - 1) |-> NoLine],
   cycle |-> [s \in 0 .. set - 1 |-> 0]]

\* mmu_cache_search: the places that hold va; the code takes the first.
Holding(c, va) ==
  {p \in Places(c) : /\ p[1] = va_cache_set(va, c)
                     /\ c.lines[p].valid
                     /\ c.lines[p].tag = va_cache_align(va)}
CacheHit(c, va) == Holding(c, va) # {}
mmu_cache_search(c, va) ==
  <<va_cache_set(va, c), Min({p[2] : p \in Holding(c, va)})>>

Lines(c) == {c.lines[p] : p \in {q \in Places(c) : c.lines[q].valid}}

CachedWord(c, va) == c.lines[mmu_cache_search(c, va)].data[va_cache_index(va)]

\* Seeded fault: only the first half is written when both are dirty.
WriteBackOneHalf(mem, l) ==
  [a \in DOMAIN mem |->
     IF l.valid /\ va_cache_align(a) = l.pa /\ l.dirty # {}
        /\ Half(va_cache_index(a)) = (IF FIRST \in l.dirty THEN FIRST ELSE LAST)
       THEN l.data[va_cache_index(a)]
       ELSE mem[a]]

\* mmu_cache_write_back: memory after the dirty halves of a line are written.
mmu_cache_write_back(mem, l) ==
  [a \in DOMAIN mem |->
     IF l.valid /\ va_cache_align(a) = l.pa /\ Half(va_cache_index(a)) \in l.dirty
       THEN l.data[va_cache_index(a)]
       ELSE mem[a]]

\* The line after it: its dirty bits are cleared.
Cleaned(l) == IF l.valid THEN [l EXCEPT !.dirty = {}] ELSE l

\* Write back the line at a place and leave line in it.
Replace(c, mem, p, line) ==
  [cache |-> [c EXCEPT !.lines[p] = line],
   mem   |-> mmu_cache_write_back(mem, c.lines[p])]

\* mmu_cache_alloc: the victim is written back before the new line is read.
mmu_cache_alloc(c, mem, va, pa) ==
  LET s == va_cache_set(va, c)
      base == va_cache_align(pa)
      written == mmu_cache_write_back(mem, c.lines[<<s, c.cycle[s]>>])
  IN [cache |->
        [c EXCEPT !.lines[<<s, c.cycle[s]>>] =
                      [valid |-> TRUE, tag |-> va_cache_align(va), pa |-> base, dirty |-> {},
                       data |-> [i \in LineIndex |-> written[base + i]]],
                  !.cycle[s] = (@ + 1) % c.way],
      mem |-> written]

\* update_cache of arm920t_mmu.c, a word written to a line that holds va.
update_cache(c, va, data) ==
  LET p == mmu_cache_search(c, va)
      i == va_cache_index(va)
      l == c.lines[p]
  IN [c EXCEPT !.lines[p] = [l EXCEPT !.data[i] = data, !.dirty = l.dirty \cup {Half(i)}]]

\* The maintenance operations, on one place.
CleanPlace(c, mem, p) == Replace(c, mem, p, Cleaned(c.lines[p]))

InvalidatePlace(c, mem, p) == Replace(c, mem, p, NoLine)

\* mmu_cache_clean and mmu_cache_invalidate, by virtual address.
mmu_cache_clean(c, mem, va) ==
  IF CacheHit(c, va) THEN CleanPlace(c, mem, mmu_cache_search(c, va))
                     ELSE [cache |-> c, mem |-> mem]
mmu_cache_invalidate(c, mem, va) ==
  IF CacheHit(c, va) THEN InvalidatePlace(c, mem, mmu_cache_search(c, va))
                     ELSE [cache |-> c, mem |-> mem]

\* mmu_cache_invalidate_all: the lines are written back set by set, way by way, so
\* that the last one that is dirty at an address decides.
DirtyPlaces(c, a) ==
  {p \in Places(c) : /\ c.lines[p].valid /\ c.lines[p].pa = va_cache_align(a)
                     /\ Half(va_cache_index(a)) \in c.lines[p].dirty}
Later(c, p, q) == (p[1] * c.way) + p[2] >= (q[1] * c.way) + q[2]
LastPlace(c, a) == CHOOSE p \in DirtyPlaces(c, a) : \A q \in DirtyPlaces(c, a) : Later(c, p, q)

mmu_cache_invalidate_all(c, mem) ==
  [cache |-> [c EXCEPT !.lines = [p \in Places(c) |-> NoLine]],
   mem   |-> [a \in DOMAIN mem |->
                IF DirtyPlaces(c, a) # {}
                  THEN c.lines[LastPlace(c, a)].data[va_cache_index(a)]
                  ELSE mem[a]]]

\* mmu_cache_soft_flush: the place is taken from the physical address.
mmu_cache_soft_flush(c, mem, pa) ==
  LET line == pa \div LineWords
  IN InvalidatePlace(c, mem, <<(line \div c.way) % c.set, line % c.way>>)
=============================================================================
