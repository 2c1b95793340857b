------------------------------ MODULE KernMem ------------------------------
(***************************************************************************)
(* Kernel memory: the heap's region list (core/vm_pool.c, kmalloc and      *)
(* kfree of core/mm.c), demand paging (core/page_table.c, the data abort   *)
(* handler) and the frame pool's bitmap (core/frame_pool.c).               *)
(*                                                                         *)
(* Addresses are counted in pages from the heap's base; page 0 holds the   *)
(* region descriptors.  Frames are the heap's: PREALLOC_FRAME_NUM frames   *)
(* below them are marked used at boot and never come up again.             *)
(*                                                                         *)
(* A context is a task on some CPU.  Its kernel code can be preempted      *)
(* between any two of the steps below, the data abort handler cannot;      *)
(* nothing excludes two CPUs from each other.  CallsAlone and FreesWhole   *)
(* name two kinds of preemption that most properties do not survive.       *)
(***************************************************************************)
EXTENDS Integers, Sequences, FiniteSets

CONSTANTS
  Contexts, CpuOf,  \* tasks that use the heap, and the CPU each runs on
  CallsAlone,       \* TRUE: no call of kmalloc or kfree begins inside another on its CPU
  FreesWhole,       \* TRUE: no task of the CPU gets in between free_page's accesses
  PAGE_SIZE,        \* bytes in a page
  Sizes,            \* byte sizes asked of kmalloc
  NFrames,          \* HEAP_FRAME_NUM
  Unset,            \* frame ranges the unset inacc_ fields may stand for
  MaxRegions,       \* bound: regions clients hold
  MaxPage,          \* bound: pages of the heap, which allocate() does not check
  MaxSlot           \* bound: region descriptors

ASSUME KernMemAssumption ==
  /\ PAGE_SIZE \in Nat \ {0} /\ Sizes \subseteq Nat \ {0}
  /\ NFrames \in Nat \ {0} /\ MaxPage \in Nat /\ MaxSlot \in Nat /\ MaxRegions \in Nat
  /\ CallsAlone \in BOOLEAN /\ FreesWhole \in BOOLEAN
  /\ Unset \subseteq SUBSET (0..(NFrames - 1))

Pages == 0..MaxPage
Frames == 0..(NFrames - 1)
Slots == 0..MaxSlot
Unmapped == -1     \* a zero second-level descriptor
BadFrame == -2     \* the descriptor made from get_frame's error value
Null == -1
Ids == 1..MaxRegions

VARIABLES
  plast_region,             \* a slot
  startAddr, size,          \* the region descriptors, by slot: the first page and
  next, prev,               \*   the bytes asked for, and the links
  region_size_total,        \* in pages
  bitmap,                   \* frames marked used
  inacc,                    \* frames in inacc_baseFrameNo .. + inacc_nFrames
  pte,                      \* the second-level descriptors
  pc,                       \* where a context is (see the actions)
  want,                     \* the size or address of a call, the page being written
  pcur, i, pgnum,           \* locals of release()
  snap, frame,              \* the bitmap byte that was read, the frame it is about
  via,                      \* history: the region the page is written through
  chain,                    \* history: slots whose descriptors are linked
  held,                     \* history: regions clients hold
  wrote,                    \* history: pages written through a region
  mem,                      \* history: the region last written through, by frame
  inOrder,                  \* history: only regions at the end of the list were freed
  enough                    \* history: get_frame always found a frame

listVars == <<plast_region, startAddr, size, next, prev, region_size_total, chain, inOrder>>
frameVars == <<bitmap, inacc, pte, snap, frame, enough>>
callVars == <<want, pcur, i, pgnum>>
dataVars == <<via, held, wrote, mem>>
memVars == <<listVars, frameVars, pc, callVars, dataVars>>

-----------------------------------------------------------------------------
(* init_kernmem(): writing the first descriptor has mapped page 0.  The      *)
(* framepool is a local of start_kernel whose inacc_ fields nobody sets.     *)

MemInit ==
  /\ plast_region = 0 /\ region_size_total = 1
  /\ startAddr = [s \in Slots |-> 0]
  /\ size = [s \in Slots |-> IF s = 0 THEN PAGE_SIZE ELSE 0]
  /\ next = [s \in Slots |-> Null] /\ prev = [s \in Slots |-> Null]
  /\ bitmap = {0} /\ inacc \in Unset
  /\ pte = [p \in Pages |-> IF p = 0 THEN 0 ELSE Unmapped]
  /\ pc = [t \in Contexts |-> "run"]
  /\ want = [t \in Contexts |-> 0] /\ pcur = [t \in Contexts |-> 0]
  /\ i = [t \in Contexts |-> 0] /\ pgnum = [t \in Contexts |-> 0]
  /\ snap = [t \in Contexts |-> {}] /\ frame = [t \in Contexts |-> BadFrame]
  /\ via = [t \in Contexts |-> 0]
  /\ chain = {0} /\ held = {} /\ wrote = {} /\ mem = [f \in Frames |-> 0]
  /\ inOrder = TRUE /\ enough = TRUE

\* Inside the data abort handler, which runs with interrupts masked, inside
\* free_page, and inside allocate() or release().
InHandler(t) == pc[t] \in {"mark", "map"}
InFree(t) == pc[t] \in {"clear", "drop"}
Allocating(t) == pc[t] \in {"advance", "fill", "grow", "return"}
InCall(t) == Allocating(t) \/ pc[t] \in {"find", "free", "clear", "drop", "last", "forward"}

\* A step of t at p: nobody on its CPU is where t would not get the CPU from.
At(t, p) ==
  /\ pc[t] = p
  /\ \A u \in Contexts \ {t} :
       CpuOf[u] = CpuOf[t] => ~InHandler(u) /\ (FreesWhole => ~InFree(u))
Enter(t) ==
  /\ At(t, "run")
  /\ CallsAlone => \A u \in Contexts : CpuOf[u] = CpuOf[t] => ~InCall(u)

Goto(t, p) == pc' = [pc EXCEPT ![t] = p]
\* The return of a call, whose locals are gone.
Leave(t) ==
  /\ Goto(t, "run")
  /\ want' = [want EXCEPT ![t] = 0] /\ pcur' = [pcur EXCEPT ![t] = 0]
  /\ i' = [i EXCEPT ![t] = 0] /\ pgnum' = [pgnum EXCEPT ![t] = 0]

-----------------------------------------------------------------------------
(* allocate()                                                                *)

\* Pages of a request: a multiple of the page size, rounded up.
PagesFor(bytes) == (bytes \div PAGE_SIZE) + (IF bytes % PAGE_SIZE # 0 THEN 1 ELSE 0)

\* The bound on regions, with those being allocated, and a name (history) for a
\* new one.
RegionsBounded == Cardinality(held) + Cardinality({t \in Contexts : Allocating(t)}) < MaxRegions
FreshId == CHOOSE id \in Ids : \A r \in held : r.id # id

\* The slot behind plast_region is linked ...
LinkSlot(t, bytes) ==
  /\ Enter(t)
  /\ plast_region < MaxSlot /\ region_size_total + PagesFor(bytes) <= MaxPage + 1
  /\ RegionsBounded
  /\ next' = [next EXCEPT ![plast_region] = plast_region + 1]
  /\ prev' = [prev EXCEPT ![plast_region + 1] = plast_region]
  /\ chain' = chain \cup {plast_region + 1}
  /\ want' = [want EXCEPT ![t] = bytes] /\ Goto(t, "advance")
  /\ UNCHANGED <<plast_region, startAddr, size, region_size_total, inOrder, frameVars,
                 pcur, i, pgnum, dataVars>>

\* ... becomes the last (a NULL here takes a preempted call; it goes no further) ...
Advance(t) ==
  /\ At(t, "advance") /\ next[plast_region] # Null
  /\ plast_region' = next[plast_region] /\ Goto(t, "fill")
  /\ UNCHANGED <<startAddr, size, next, prev, region_size_total, chain, inOrder, frameVars,
                 callVars, dataVars>>

\* ... and is filled in: the region starts where the regions in use end.
FillSlot(t) ==
  /\ At(t, "fill")
  /\ startAddr' = [startAddr EXCEPT ![plast_region] = region_size_total]
  /\ size' = [size EXCEPT ![plast_region] = want[t]]
  /\ next' = [next EXCEPT ![plast_region] = Null]
  /\ Goto(t, "grow")
  /\ UNCHANGED <<plast_region, prev, region_size_total, chain, inOrder, frameVars, callVars,
                 dataVars>>

\* Mutant: the size is rounded down.
GrowByWholePages(t) ==
  /\ At(t, "grow")
  /\ region_size_total' = region_size_total + want[t] \div PAGE_SIZE
  /\ Goto(t, "return")
  /\ UNCHANGED <<plast_region, startAddr, size, next, prev, chain, inOrder, frameVars, callVars,
                 dataVars>>

Grow(t) ==
  /\ At(t, "grow")
  /\ region_size_total' = region_size_total + PagesFor(want[t])
  /\ Goto(t, "return")
  /\ UNCHANGED <<plast_region, startAddr, size, next, prev, chain, inOrder, frameVars, callVars,
                 dataVars>>

\* The return of plast_region->startAddr.
Return(t) ==
  /\ At(t, "return")
  /\ held' = held \cup
       {[id |-> FreshId, start |-> startAddr[plast_region], pages |-> PagesFor(want[t])]}
  /\ Leave(t)
  /\ UNCHANGED <<listVars, frameVars, via, wrote, mem>>

allocate(t) ==
  (\E bytes \in Sizes : LinkSlot(t, bytes)) \/ Advance(t) \/ FillSlot(t) \/ Grow(t) \/ Return(t)

-----------------------------------------------------------------------------
(* release()                                                                 *)

PagesOf(start, n) == start..(start + n - 1)

\* A client that is done with a region gives its address.  (The page of the
\* descriptors, start 0, is nobody's to free.)
GiveBack(t, r) ==
  /\ Enter(t) /\ r \in held /\ r.start # 0
  /\ \A u \in Contexts : via[u] # r.id
  /\ held' = held \ {r}
  /\ wrote' = {w \in wrote : w[1] # r.id}
  /\ mem' = [f \in Frames |-> IF mem[f] = r.id THEN 0 ELSE mem[f]]
  /\ want' = [want EXCEPT ![t] = r.start] /\ pcur' = [pcur EXCEPT ![t] = 0]
  /\ Goto(t, "find")
  /\ UNCHANGED <<listVars, frameVars, i, pgnum, via>>

Seek(t) ==
  /\ At(t, "find") /\ pcur[t] # Null /\ startAddr[pcur[t]] # want[t]
  /\ pcur' = [pcur EXCEPT ![t] = next[pcur[t]]]
  /\ UNCHANGED <<listVars, frameVars, pc, want, i, pgnum, dataVars>>

\* The first descriptor with this start address.
Unlink(t) ==
  LET s == pcur[t]
  IN  /\ At(t, "find") /\ s # Null /\ startAddr[s] = want[t]
      /\ next' = [next EXCEPT ![prev[s]] = next[s]]
      /\ prev' = IF next[s] # Null THEN [prev EXCEPT ![next[s]] = prev[s]] ELSE prev
      /\ chain' = chain \ {s}
      /\ inOrder' = (inOrder /\ next[s] = Null)
      /\ pgnum' = [pgnum EXCEPT ![t] = PagesFor(size[s])] /\ pcur' = [pcur EXCEPT ![t] = 0]
      /\ Goto(t, "free")
      /\ UNCHANGED <<plast_region, startAddr, size, region_size_total, frameVars, want, i,
                     dataVars>>

\* free_page() of the next page.  It reads the descriptor; release_frame refuses
\* the inaccessible range, or reads the bitmap's byte; ...
PageOf(t) == want[t] + i[t]
FrameOf(t) == IF PageOf(t) \in Pages THEN pte[PageOf(t)] ELSE Unmapped

ReadFrame(t) ==
  /\ At(t, "free") /\ i[t] < pgnum[t]
  /\ IF FrameOf(t) \in Frames \ inacc
     THEN /\ snap' = [snap EXCEPT ![t] = bitmap] /\ frame' = [frame EXCEPT ![t] = FrameOf(t)]
          /\ Goto(t, "clear")
     ELSE Goto(t, "drop") /\ UNCHANGED <<snap, frame>>
  /\ UNCHANGED <<listVars, bitmap, inacc, pte, enough, callVars, dataVars>>

\* Mutant: frames stay marked.
ForgetFrame(t) ==
  /\ At(t, "clear")
  /\ UNCHANGED bitmap
  /\ snap' = [snap EXCEPT ![t] = {}] /\ frame' = [frame EXCEPT ![t] = BadFrame]
  /\ Goto(t, "drop")
  /\ UNCHANGED <<listVars, inacc, pte, enough, callVars, dataVars>>

\* ... writes the byte back without the frame's bit ...
release_frame(t) ==
  /\ At(t, "clear")
  /\ bitmap' = snap[t] \ {frame[t]}
  /\ snap' = [snap EXCEPT ![t] = {}] /\ frame' = [frame EXCEPT ![t] = BadFrame]
  /\ Goto(t, "drop")
  /\ UNCHANGED <<listVars, inacc, pte, enough, callVars, dataVars>>

\* ... and the descriptor is cleared in any case.
ClearPte(t) ==
  /\ At(t, "drop")
  /\ pte' = [pte EXCEPT ![PageOf(t)] = Unmapped]
  /\ i' = [i EXCEPT ![t] = i[t] + 1]
  /\ Goto(t, "free")
  /\ UNCHANGED <<listVars, bitmap, inacc, snap, frame, enough, want, pcur, pgnum, dataVars>>

\* The total shrinks by the pages, wherever in the heap they are.
Shrink(t) ==
  /\ At(t, "free") /\ i[t] = pgnum[t]
  /\ region_size_total' = region_size_total - pgnum[t]
  /\ Goto(t, "last")
  /\ UNCHANGED <<plast_region, startAddr, size, next, prev, chain, inOrder, frameVars, callVars,
                 dataVars>>

\* If the last region is gone, the new last one is looked for from the start.
CheckLast(t) ==
  /\ At(t, "last")
  /\ IF startAddr[plast_region] = want[t]
     THEN plast_region' = 0 /\ Goto(t, "forward") /\ UNCHANGED callVars
     ELSE Leave(t) /\ UNCHANGED plast_region
  /\ UNCHANGED <<startAddr, size, next, prev, region_size_total, chain, inOrder, frameVars,
                 dataVars>>

Forward(t) ==
  /\ At(t, "forward")
  /\ IF next[plast_region] # Null
     THEN plast_region' = next[plast_region] /\ UNCHANGED <<pc, callVars>>
     ELSE Leave(t) /\ UNCHANGED plast_region
  /\ UNCHANGED <<startAddr, size, next, prev, region_size_total, chain, inOrder, frameVars,
                 dataVars>>

release(t) ==
  \/ \E r \in held : GiveBack(t, r)
  \/ Seek(t) \/ Unlink(t) \/ ReadFrame(t) \/ release_frame(t) \/ ClearPte(t) \/ Shrink(t)
  \/ CheckLast(t) \/ Forward(t)

-----------------------------------------------------------------------------
(* A client's store, with the data abort it may cause.                       *)

Touch(t, r, p) ==
  /\ At(t, "run") /\ r \in held /\ p \in PagesOf(r.start, r.pages) \cap Pages
  /\ <<r.id, p>> \notin wrote
  /\ want' = [want EXCEPT ![t] = p] /\ via' = [via EXCEPT ![t] = r.id]
  /\ Goto(t, "store")
  /\ UNCHANGED <<listVars, frameVars, pcur, i, pgnum, held, wrote, mem>>

\* Mutant: frames are handed out by their number in use.
FrameByCount(used, f) ==
  IF Frames \subseteq used THEN f = BadFrame ELSE f = Cardinality(used)

\* get_frame()'s search: the first clear bit, or -1.
FirstFree(used, f) ==
  IF Frames \subseteq used THEN f = BadFrame
  ELSE f \in Frames \ used /\ \A g \in Frames \ used : f <= g

\* The translation fault, and what get_frame() reads in its handler.
ScanBitmap(t) ==
  /\ At(t, "store") /\ pte[want[t]] = Unmapped
  /\ snap' = [snap EXCEPT ![t] = bitmap]
  /\ \E f \in 0..NFrames \cup {BadFrame} :
       /\ FirstFree(bitmap, f) /\ frame' = [frame EXCEPT ![t] = f]
       /\ enough' = (enough /\ f # BadFrame)
  /\ Goto(t, "mark")
  /\ UNCHANGED <<listVars, bitmap, inacc, pte, callVars, dataVars>>

\* The store of the byte that was read, with one more bit: the frames of a small
\* heap share one byte.
get_frame(t) ==
  /\ At(t, "mark")
  /\ bitmap' = IF frame[t] = BadFrame THEN bitmap ELSE snap[t] \cup {frame[t]}
  /\ snap' = [snap EXCEPT ![t] = {}]
  /\ Goto(t, "map")
  /\ UNCHANGED <<listVars, inacc, pte, frame, enough, callVars, dataVars>>

\* The rest of handle_fault(), whatever get_frame returned, and the return to the
\* instruction that faulted.
handle_fault(t) ==
  /\ At(t, "map")
  /\ pte' = [pte EXCEPT ![want[t]] = frame[t]]
  /\ frame' = [frame EXCEPT ![t] = BadFrame]
  /\ Goto(t, "store")
  /\ UNCHANGED <<listVars, bitmap, inacc, snap, enough, callVars, dataVars>>

\* The store itself; through a descriptor made of -1 it goes nowhere.
Store(t) ==
  LET f == pte[want[t]]
  IN  /\ At(t, "store") /\ f # Unmapped
      /\ mem' = IF f \in Frames THEN [mem EXCEPT ![f] = via[t]] ELSE mem
      /\ wrote' = wrote \cup {<<via[t], want[t]>>}
      /\ via' = [via EXCEPT ![t] = 0]
      /\ Leave(t)
      /\ UNCHANGED <<listVars, frameVars, held>>

-----------------------------------------------------------------------------
Write(t) == \/ \E r \in held, p \in Pages : Touch(t, r, p)
            \/ ScanBitmap(t) \/ get_frame(t) \/ handle_fault(t) \/ Store(t)

MemNext == \E t \in Contexts : allocate(t) \/ release(t) \/ Write(t)

MemSpec == MemInit /\ [][MemNext]_memVars

-----------------------------------------------------------------------------
(* Properties *)

Descriptors == Frames \cup {Unmapped, BadFrame}
Places == {"run", "advance", "fill", "grow", "return", "find", "free", "clear", "drop", "last",
           "forward", "store", "mark", "map"}

\* The heap's bookkeeping ranges over what its structures declare (struct vmpool,
\* struct region_desc, struct framepool, the page table), and a call's locals over
\* what the code puts there.
ListTypes ==
  /\ plast_region \in Slots /\ region_size_total \in Int
  /\ startAddr \in [Slots -> Int] /\ size \in [Slots -> Nat]
  /\ next \in [Slots -> Slots \cup {Null}] /\ prev \in [Slots -> Slots \cup {Null}]
  /\ chain \subseteq Slots /\ inOrder \in BOOLEAN
FrameTypes ==
  /\ bitmap \subseteq Frames /\ inacc \subseteq Frames
  /\ pte \in [Pages -> Descriptors]
  /\ snap \in [Contexts -> SUBSET Frames]
  /\ frame \in [Contexts -> Frames \cup {BadFrame}]
  /\ enough \in BOOLEAN
CallTypes ==
  /\ pc \in [Contexts -> Places]
  /\ want \in [Contexts -> Int] /\ pcur \in [Contexts -> Slots \cup {Null}]
  /\ i \in [Contexts -> Nat] /\ pgnum \in [Contexts -> Nat]
  /\ \A t \in Contexts : Allocating(t) => want[t] \in Sizes
  /\ \A t \in Contexts : pc[t] \in {"store", "mark", "map"} => want[t] \in Pages
  /\ \A r \in held : r.start \in Int /\ r.pages \in Nat

MemTypeOK == ListTypes /\ FrameTypes /\ CallTypes

Mapped == {pte[p] : p \in Pages} \cap Frames
Claimed == {frame[t] : t \in {u \in Contexts : pc[u] = "map"}} \cap Frames
Dropped == {FrameOf(t) : t \in {u \in Contexts : pc[u] = "drop"}} \ inacc

\* No frame backs two pages, whatever order regions are freed in and wherever else
\* a page fault interrupts kmalloc and kfree (get_frame, handle_fault, free_page).
FramesPrivate == \A p, q \in Pages : p # q /\ pte[p] = pte[q] => pte[p] \notin Frames

\* The bitmap agrees with the page table, also when frames have run out: every
\* mapped frame is marked, but for one that free_page is about to unmap, and a
\* marked frame that is not mapped is one release_frame refused (get_frame,
\* release_frame, free_page).
FramesAccounted ==
  /\ (Mapped \ Dropped) \cup Claimed \subseteq bitmap
  /\ bitmap \subseteq (Mapped \ Dropped) \cup Claimed \cup inacc

\* The descriptor allocate() links behind the last one is never in use
\* (plast_region + 1), whatever order regions are freed in.
DescriptorsDistinct ==
  (\A t \in Contexts : ~InCall(t)) => \A s \in chain : s <= plast_region

\* Two regions that are held at the same time share no page (allocate, release) ...
Apart ==
  \A r, s \in held : r # s => PagesOf(r.start, r.pages) \cap PagesOf(s.start, s.pages) = {}

\* ... as long as no region was freed before one allocated later, by whichever task.
RegionsDisjoint == inOrder => Apart

\* As long as moreover no frame was missing, clients read back what they wrote
\* until they free the region, across each other's calls and page faults (kmalloc,
\* kfree, demand paging).
DataKept ==
  inOrder /\ enough => \A w \in wrote : pte[w[2]] \in Frames /\ mem[pte[w[2]]] = w[1]
=============================================================================
