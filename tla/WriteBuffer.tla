---------------------------- MODULE WriteBuffer -----------------------------
(***************************************************************************)
(* wb.c: the write buffer, a ring of WbNum entries that is emptied from    *)
(* its oldest entry.  An access is a word, so it takes one entry.          *)
(***************************************************************************)
EXTENDS Naturals, Sequences

CONSTANT WbNum             \* entries of the write buffer             (code: 8)

mmu_wb_init == <<>>

\* An entry reaches memory.
Put(mem, e) == [mem EXCEPT ![e.pa] = e.data]

\* Seeded fault: a full buffer keeps its oldest entry.
WriteBytesUnbounded(wb, mem, pa, data) ==
  [wb |-> Append(wb, [pa |-> pa, data |-> data]), mem |-> mem]

\* mmu_wb_write_bytes: a full buffer first gives up its oldest entry.
mmu_wb_write_bytes(wb, mem, pa, data) ==
  LET full == Len(wb) = WbNum
  IN [wb  |-> Append(IF full THEN Tail(wb) ELSE wb, [pa |-> pa, data |-> data]),
      mem |-> IF full THEN Put(mem, Head(wb)) ELSE mem]

\* The word at pa as the buffer holds it.
Buffered(wb, pa) == \E n \in DOMAIN wb : wb[n].pa = pa
LastBuffered(wb, pa) ==
  LET n == CHOOSE k \in DOMAIN wb :
             wb[k].pa = pa /\ \A j \in DOMAIN wb : wb[j].pa = pa => j <= k
  IN wb[n].data

\* mmu_wb_drain_all: memory after the entries were written from the oldest on, so
\* that the last one of an address stays; the buffer is then empty.
mmu_wb_drain_all(wb, mem) ==
  [a \in DOMAIN mem |-> IF Buffered(wb, a) THEN LastBuffered(wb, a) ELSE mem[a]]
=============================================================================
