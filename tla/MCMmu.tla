------------------------------- MODULE MCMmu --------------------------------
(***************************************************************************)
(* Pages and lines of four words, five physical pages:                     *)
(*   page 0: the tables.  Word 0 covers virtual pages 0 and 1 with a table *)
(*           at word 2, word 1 maps pages 2 and 3 as a section; words 2    *)
(*           and 3 are the descriptors of pages 0 and 1.                   *)
(*   pages 1 and 4: data, the pages that virtual page 1 is mapped to       *)
(*   page 2: code and data                                                 *)
(*   page 3: the flush area                                                *)
(* Words 0 and 1 are data as well as a fault and a table descriptor.       *)
(***************************************************************************)
EXTENDS MmuGuest, SequencesExt

D(kind, base, c, b, ap, domain) ==
  [kind |-> kind, base |-> base, c |-> c, b |-> b, ap |-> ap, domain |-> domain]
NoDesc == [kind |-> "fault"]

\* Words 0 .. 6.
MCL1 == [w \in 0 .. 6 |-> CASE w = 1 -> D("table", 2, FALSE, FALSE, 0, 0)
                            [] w = 2 -> D("section", 2, TRUE, TRUE, 3, 0)
                            [] OTHER -> NoDesc]
MCL2 == [w \in 0 .. 6 |-> CASE w = 3 -> D("page", 0, TRUE, TRUE, 1, 0)
                            [] w = 4 -> D("page", 1, TRUE, FALSE, 2, 0)
                            [] w = 5 -> D("page", 4, FALSE, TRUE, 3, 0)
                            [] OTHER -> NoDesc]

MCLoaded == [a \in 0 .. 19 |-> CASE a = 0 -> 1 [] a = 1 -> 2 [] a = 2 -> 3 [] a = 3 -> 4
                                 [] OTHER -> 0]

To(page, readers, writers) == [page |-> page, read |-> readers, write |-> writers]
FreeMap == [d \in {0, 4, 5} |-> CASE d = 0 -> To(1, {}, {})
                                  [] d = 4 -> To(1, BOOLEAN, {FALSE})
                                  [] d = 5 -> To(4, BOOLEAN, BOOLEAN)]
MCMapOf == [d \in {0, 4, 5} |->
              [p \in 0 .. 4 |-> CASE p = 0 -> To(0, {FALSE}, {FALSE})
                                  [] p = 1 -> FreeMap[d]
                                  [] OTHER -> To(p, BOOLEAN, BOOLEAN)]]
Size(tlb, iway, iset, dway, dset) ==
  [tlb |-> tlb, iway |-> iway, iset |-> iset, dway |-> dway, dset |-> dset]
Remapped == [store |-> {4}, load |-> {3, 8, 12}, code |-> {}, descs |-> {0, 4, 5},
             controls |-> {{"M", "C"}}, size |-> Size(2, 1, 1, 1, 2)]
Coded == [store |-> {8, 11}, load |-> {4}, code |-> {1, 2}, descs |-> {},
          controls |-> {{"M", "C"}, {"M"}}, size |-> Size(1, 1, 1, 1, 1)]
Replacing == [store |-> {8}, load |-> {3, 4}, code |-> {}, descs |-> {},
              controls |-> {{"M", "C"}}, size |-> Size(2, 1, 1, 2, 1)]
MCPrograms == {Remapped, Coded, Replacing}
MCAccess == [d \in {0} |-> CLIENT]

\* Draining the buffer is writing its entries one after the other, and emptying a
\* cache is writing back its lines set by set, way by way.
ASSUME DrainIsFold ==
  \A w \in BoundedSeq([pa : 0 .. 1, data : 1 .. 2], 3) :
    LET m == [a \in 0 .. 2 |-> 0]
    IN mmu_wb_drain_all(w, m) = FoldLeft(LAMBDA n, e : [n EXCEPT ![e.pa] = e.data], m, w)

Row(pa, dirty, word) == [valid |-> TRUE, tag |-> 0, pa |-> pa, dirty |-> dirty,
                         data |-> [i \in LineIndex |-> word]]
ASSUME EmptyingIsFold ==
  \A f \in [{0, 1} \X {0, 1} -> {NoLine, Row(0, {FIRST}, 1), Row(0, {FIRST, LAST}, 2),
                                  Row(4, {LAST}, 3), Row(4, {}, 4)}] :
    LET m == [a \in 0 .. 7 |-> 0]
        c == [way |-> 2, set |-> 2, lines |-> f, cycle |-> [s \in {0, 1} |-> 0]]
        one(n, l) == [a \in 0 .. 7 |-> IF /\ l.valid /\ l.pa = va_cache_align(a)
                                          /\ Half(va_cache_index(a)) \in l.dirty
                                         THEN l.data[va_cache_index(a)] ELSE n[a]]
    IN mmu_cache_invalidate_all(c, m).mem =
         FoldLeft(one, m, <<f[<<0, 0>>], f[<<0, 1>>], f[<<1, 0>>], f[<<1, 1>>]>>)
=============================================================================
