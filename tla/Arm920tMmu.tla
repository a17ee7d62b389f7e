----------------------------- MODULE Arm920tMmu -----------------------------
(***************************************************************************)
(* arm920t_mmu.c: instruction fetches, data reads and data writes through  *)
(* the two TLBs, the two caches and the write buffer, and the coprocessor  *)
(* registers and operations that control them.  Accesses are aligned words *)
(* and the process identifier stays 0, so that mmu_pid_va_map changes no   *)
(* address.                                                                *)
(***************************************************************************)
EXTENDS Tlb, Cache, WriteBuffer

CONSTANTS Domains,         \* domains in use, of 0 .. 15
          FlushWords       \* physical words of the flush area
                           \*                (code: 0xe0000000 to 0xe7ffffff)

VARIABLES mem,             \* physical memory, behind mem_read and mem_write
          control,         \* the bits of mmu.control that are set: M is the
                           \* MMU, C the data cache, W the write buffer, S and
                           \* R the protection bits
          ttb,             \* mmu.translation_table_base
          dacr,            \* mmu.domain_access_control, per domain
          i_tlb, d_tlb, i_cache, d_cache, wb

regs == <<control, ttb, dacr>>
mmu  == <<mem, regs, i_tlb, d_tlb, i_cache, d_cache, wb>>

\* 0xDEADC0DE is left in both registers; its low bits are the access control of
\* the first domains, and no table is walked before the other is written.
ResetDacr == [d \in Domains |-> <<2, 3, 1, 3>>[d + 1]]

\* arm920t_mmu_init, on the memory the machine was loaded with.  The sizes
\* [tlb, iway, iset, dway, dset] are a constant of the code: TLBs of 64 entries
\* and caches of 64 ways and 8 sets.
MmuInit(loaded, size) ==
  /\ mem = loaded
  /\ control = {} /\ ttb = 0 /\ dacr = ResetDacr
  /\ i_tlb = mmu_tlb_init(size.tlb) /\ d_tlb = mmu_tlb_init(size.tlb)
  /\ i_cache = mmu_cache_init(size.iway, size.iset)
  /\ d_cache = mmu_cache_init(size.dway, size.dset)
  /\ wb = mmu_wb_init

\* A read in the flush area returns no word.
NODATA == -2

MMU_Enabled == "M" \in control
MMU_DCacheEnabled == "C" \in control
MMU_WBEnabled == "W" \in control

\* The outcome of translate for va in TLB t, the physical address (0 after a
\* translation fault, where none is used) and whether the access faults.
Translation(t, va) == translate(t, mem, ttb, va)
PaOf(tr, va) == IF tr.entry = NoEntry THEN 0 ELSE tlb_va_to_pa(tr.entry, va)
Faults(tr, user, read) ==
  tr.entry # NoEntry => ~check_access(control, dacr, tr.entry, user, read)

-----------------------------------------------------------------------------
(* arm920t_mmu_load_instr *)

\* A fetch: whether it faults, the physical address, and whether it reads memory
\* through the cache.
FetchOf(va, user) ==
  LET tr == Translation(i_tlb, va)
  IN IF MMU_Enabled
       THEN [tlb |-> tr.tlb, fault |-> Faults(tr, user, TRUE),
             pa |-> PaOf(tr, va), c |-> tr.entry # NoEntry /\ tr.entry.c]
       ELSE [tlb |-> i_tlb, fault |-> FALSE, pa |-> va, c |-> TRUE]

\* The instruction returned.
Instr(va, user) ==
  LET f == FetchOf(va, user)
  IN IF f.fault THEN FAULT
     ELSE IF CacheHit(i_cache, va) THEN CachedWord(i_cache, va)
     ELSE IF f.c THEN CachedWord(mmu_cache_alloc(i_cache, mem, va, f.pa).cache, va)
     ELSE mem[f.pa]

load_instr(va, user) ==
  LET f == FetchOf(va, user)
      fill == mmu_cache_alloc(i_cache, mem, va, f.pa)
  IN /\ i_tlb' = f.tlb
     /\ IF f.fault \/ CacheHit(i_cache, va) \/ ~f.c
          THEN UNCHANGED <<i_cache, mem>>
          ELSE i_cache' = fill.cache /\ mem' = fill.mem
     /\ UNCHANGED <<regs, d_tlb, d_cache, wb>>

-----------------------------------------------------------------------------
(* arm920t_mmu_read *)

\* How a read with the MMU on ends: with a fault, from the data cache, in the
\* flush area, by allocating a line or from memory.
ReadKind(tr, va, user) ==
  CASE Faults(tr, user, TRUE) -> "fault"
    [] ~Faults(tr, user, TRUE) /\ CacheHit(d_cache, va) -> "hit"
    [] OTHER -> IF PaOf(tr, va) \in FlushWords THEN "flush"
                ELSE IF tr.entry.c /\ MMU_DCacheEnabled THEN "alloc" ELSE "memory"

\* Memory as a read that misses the data cache finds it: if the page is buffered
\* the write buffer is drained first.
ReadSource(tr) == IF tr.entry.b THEN mmu_wb_drain_all(wb, mem) ELSE mem

\* The word returned; none in the flush area.
ReadData(va, user) ==
  LET tr == Translation(d_tlb, va)
      kind == ReadKind(tr, va, user)
  IN IF ~MMU_Enabled THEN mem[va]
     ELSE CASE kind = "hit" -> CachedWord(d_cache, va)
            [] kind = "alloc" -> CachedWord(mmu_cache_alloc(d_cache, ReadSource(tr), va,
                                                            PaOf(tr, va)).cache, va)
            [] kind = "memory" -> ReadSource(tr)[PaOf(tr, va)]
            [] kind = "fault" -> FAULT
            [] OTHER -> NODATA

read(va, user) ==
  LET tr == Translation(d_tlb, va)
      kind == IF MMU_Enabled THEN ReadKind(tr, va, user) ELSE "off"
      fill == mmu_cache_alloc(d_cache, ReadSource(tr), va, PaOf(tr, va))
      flush == mmu_cache_soft_flush(d_cache, mem, PaOf(tr, va))
  IN /\ d_tlb' = IF MMU_Enabled THEN tr.tlb ELSE d_tlb
     /\ \/ /\ kind \in {"off", "fault", "hit"}
           /\ UNCHANGED <<mem, d_cache, wb>>
        \/ /\ kind = "flush"
           /\ IF tr.entry.c THEN d_cache' = flush.cache /\ mem' = flush.mem
                            ELSE UNCHANGED <<d_cache, mem>>
           /\ UNCHANGED wb
        \/ /\ kind \in {"alloc", "memory"}
           /\ wb' = IF tr.entry.b THEN <<>> ELSE wb
           /\ IF kind = "alloc"
                THEN d_cache' = fill.cache /\ mem' = fill.mem
                ELSE mem' = ReadSource(tr) /\ UNCHANGED d_cache
     /\ UNCHANGED <<regs, i_tlb, i_cache>>

-----------------------------------------------------------------------------
(* arm920t_mmu_write *)

\* Seeded fault: only the data side is updated.
IcacheUnwritten(va, data) == i_cache

\* The instruction cache is written first, before any check.
IcacheWritten(va, data) ==
  IF CacheHit(i_cache, va) THEN update_cache(i_cache, va, data) ELSE i_cache

\* How a write with the MMU on ends.
WriteKind(tr, va, user) ==
  CASE Faults(tr, user, FALSE) -> "fault"
    [] ~Faults(tr, user, FALSE) /\ CacheHit(d_cache, va) -> "hit"
    [] OTHER -> IF ~tr.entry.b THEN "drain"
                ELSE IF MMU_WBEnabled THEN "buffer" ELSE "memory"

write(va, data, user) ==
  LET tr == Translation(d_tlb, va)
      kind == IF MMU_Enabled THEN WriteKind(tr, va, user) ELSE "off"
      pa == IF MMU_Enabled THEN PaOf(tr, va) ELSE va
      buffered == mmu_wb_write_bytes(wb, mem, pa, data)
  IN /\ i_cache' = IcacheWritten(va, data)
     /\ d_tlb' = IF MMU_Enabled THEN tr.tlb ELSE d_tlb
     /\ d_cache' = IF kind = "hit" THEN update_cache(d_cache, va, data) ELSE d_cache
     /\ \/ kind \in {"fault", "hit"} /\ UNCHANGED <<mem, wb>>
        \/ kind \in {"off", "memory"} /\ mem' = [mem EXCEPT ![pa] = data] /\ UNCHANGED wb
        \/ kind = "buffer" /\ wb' = buffered.wb /\ mem' = buffered.mem
        \/ kind = "drain" /\ mem' = [mmu_wb_drain_all(wb, mem) EXCEPT ![pa] = data]
                          /\ wb' = <<>>
     /\ UNCHANGED <<regs, i_tlb>>

-----------------------------------------------------------------------------
(* arm920t_mmu_mcr: the registers, arm920t_mmu_cache_ops and                 *)
(* arm920t_mmu_tlb_ops                                                       *)

\* Bits 3 to 6, the write buffer's among them, always end up set.
WriteControl(bits) == /\ control' = bits \cup {"W"}
                      /\ UNCHANGED <<mem, ttb, dacr, i_tlb, d_tlb, i_cache, d_cache, wb>>
WriteTtb(base) == /\ ttb' = base
                  /\ UNCHANGED <<mem, control, dacr, i_tlb, d_tlb, i_cache, d_cache, wb>>
WriteDacr(access) == /\ dacr' = access
                     /\ UNCHANGED <<mem, control, ttb, i_tlb, d_tlb, i_cache, d_cache, wb>>

\* An operation of cache.c on the instruction or on the data cache.
OnIcache(op) == /\ i_cache' = op.cache /\ mem' = op.mem
                /\ UNCHANGED <<regs, i_tlb, d_tlb, d_cache, wb>>
OnDcache(op) == /\ d_cache' = op.cache /\ mem' = op.mem
                /\ UNCHANGED <<regs, i_tlb, d_tlb, i_cache, wb>>

InvalidateIcache == OnIcache(mmu_cache_invalidate_all(i_cache, mem))
InvalidateIcacheEntry(va) == OnIcache(mmu_cache_invalidate(i_cache, mem, va))
InvalidateDcache == OnDcache(mmu_cache_invalidate_all(d_cache, mem))
InvalidateDcacheEntry(va) == OnDcache(mmu_cache_invalidate(d_cache, mem, va))
CleanDcacheEntry(va) == OnDcache(mmu_cache_clean(d_cache, mem, va))
CleanDcacheIndex(p) == OnDcache(CleanPlace(d_cache, mem, p))

\* A clean followed by an invalidation writes the line back once.
CleanInvalidateDcacheEntry(va) ==
  LET clean == mmu_cache_clean(d_cache, mem, va)
  IN OnDcache(mmu_cache_invalidate(clean.cache, clean.mem, va))
CleanInvalidateDcacheIndex(p) ==
  LET clean == CleanPlace(d_cache, mem, p)
  IN OnDcache(InvalidatePlace(clean.cache, clean.mem, p))

\* Both caches: the instruction cache is written back first.
InvalidateCaches ==
  LET i == mmu_cache_invalidate_all(i_cache, mem)
      d == mmu_cache_invalidate_all(d_cache, i.mem)
  IN /\ i_cache' = i.cache /\ d_cache' = d.cache /\ mem' = d.mem
     /\ UNCHANGED <<regs, i_tlb, d_tlb, wb>>

DrainWriteBuffer == /\ mem' = mmu_wb_drain_all(wb, mem) /\ wb' = <<>>
                    /\ UNCHANGED <<regs, i_tlb, d_tlb, i_cache, d_cache>>

OnTlbs(i, d) == /\ i_tlb' = i /\ d_tlb' = d
                /\ UNCHANGED <<mem, regs, i_cache, d_cache, wb>>
InvalidateTlbs == OnTlbs(mmu_tlb_invalidate_all(i_tlb), mmu_tlb_invalidate_all(d_tlb))
InvalidateItlb == OnTlbs(mmu_tlb_invalidate_all(i_tlb), d_tlb)
InvalidateDtlb == OnTlbs(i_tlb, mmu_tlb_invalidate_all(d_tlb))
InvalidateItlbEntry(va) == OnTlbs(mmu_tlb_invalidate_entry(i_tlb, va), d_tlb)
InvalidateDtlbEntry(va) == OnTlbs(i_tlb, mmu_tlb_invalidate_entry(d_tlb, va))

-----------------------------------------------------------------------------

\* The dirty lines of the data cache that hold the word at pa.
DirtyAt(pa) == {l \in Lines(d_cache) : /\ l.pa = va_cache_align(pa)
                                       /\ Half(va_cache_index(pa)) \in l.dirty}

\* The word at pa as the emulated machine holds it, wherever it is.
Current(pa) ==
  LET dirty == DirtyAt(pa)
  IN IF dirty # {} THEN (CHOOSE l \in dirty : TRUE).data[va_cache_index(pa)]
     ELSE IF Buffered(wb, pa) THEN LastBuffered(wb, pa)
     ELSE mem[pa]
=============================================================================
