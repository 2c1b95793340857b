--------------------------- MODULE KernMemProofs ---------------------------
(***************************************************************************)
(* The theorems about kernel memory, for any number of tasks, pages,       *)
(* frames and requests, and regions freed in any order, on one CPU:        *)
(*   - if free_page() is not preempted, frames stay private and accounted  *)
(*     for (FrameInv), whatever else preempts what;                        *)
(*   - if kmalloc() and kfree() do not preempt each other, the region list *)
(*     keeps its shape (ListInv), and regions stay apart until one is      *)
(*     freed from the middle (PackInv);                                    *)
(*   - with both, clients keep their data until then, or until a page      *)
(*     fault finds no frame (NameInv, Backed, DataKept).                   *)
(***************************************************************************)
EXTENDS KernMem, FiniteSetTheorems, TLAPS

OneProcessor == \A t, u \in Contexts : CpuOf[t] = CpuOf[u]

USE KernMemAssumption

\* Unmapped and BadFrame are not frames (get_frame's -1, an empty PTE).
LEMMA FrameConstants ==
  /\ Unmapped \notin Frames /\ BadFrame \notin Frames /\ Unmapped # BadFrame
  /\ Frames \subseteq Int /\ 0 \in Frames /\ 0 \in Pages
BY DEF Frames, Unmapped, BadFrame, Pages

\* Null is no slot; slot 0 is there (the descriptor page's own).
LEMMA SlotConstants == Null \notin Slots /\ 0 \in Slots /\ Slots \subseteq Nat
BY DEF Null, Slots

\* A size is rounded up to a number of pages, and never to none (allocate, release).
LEMMA PagesForType == ASSUME NEW n \in Nat PROVE PagesFor(n) \in Nat
BY DEF PagesFor

LEMMA PagesForPositive == ASSUME NEW n \in Nat \ {0} PROVE PagesFor(n) \in Nat \ {0}
<1>1. n \div PAGE_SIZE \in Nat /\ n % PAGE_SIZE \in Nat
  OBVIOUS
<1>2. n = PAGE_SIZE * (n \div PAGE_SIZE) + (n % PAGE_SIZE)
  OBVIOUS
<1>3. n \div PAGE_SIZE # 0 \/ n % PAGE_SIZE # 0
  BY <1>1, <1>2
<1> QED
  BY <1>1, <1>3 DEF PagesFor

-----------------------------------------------------------------------------
(* Types.                                                                    *)

\* Calls of allocate() keep the types (allocate).
LEMMA AllocateTypes ==
  ASSUME MemTypeOK, NEW t \in Contexts, allocate(t)
  PROVE  MemTypeOK'
<1> USE DEF Goto, Leave, Allocating
<1>1. ListTypes /\ FrameTypes /\ CallTypes
  BY DEF MemTypeOK
<1>2. ASSUME NEW bytes \in Sizes, LinkSlot(t, bytes) PROVE MemTypeOK'
  <2>1. plast_region + 1 \in Slots
    BY <1>1, <1>2 DEF LinkSlot, ListTypes, Slots
  <2>2. ListTypes'
    BY <1>1, <1>2, <2>1 DEF LinkSlot, ListTypes
  <2>3. FrameTypes'
    BY <1>1, <1>2 DEF LinkSlot, FrameTypes, frameVars
  <2>4. CallTypes'
    BY <1>1, <1>2 DEF LinkSlot, CallTypes, dataVars, Places
  <2> QED
    BY <2>2, <2>3, <2>4 DEF MemTypeOK
<1>3. CASE Advance(t)
  <2>1. ListTypes'
    BY <1>1, <1>3 DEF Advance, ListTypes
  <2>2. FrameTypes'
    BY <1>1, <1>3 DEF Advance, FrameTypes, frameVars
  <2>3. CallTypes'
    BY <1>1, <1>3 DEF Advance, At, CallTypes, dataVars, callVars, Places
  <2> QED
    BY <2>1, <2>2, <2>3 DEF MemTypeOK
<1>4. CASE FillSlot(t)
  <2>0. want[t] \in Nat
    BY <1>1, <1>4 DEF FillSlot, At, CallTypes
  <2>1. ListTypes'
    BY <1>1, <1>4, <2>0 DEF FillSlot, ListTypes
  <2>2. FrameTypes'
    BY <1>1, <1>4 DEF FillSlot, FrameTypes, frameVars
  <2>3. CallTypes'
    BY <1>1, <1>4 DEF FillSlot, At, CallTypes, dataVars, callVars, Places
  <2> QED
    BY <2>1, <2>2, <2>3 DEF MemTypeOK
<1>5. CASE Grow(t)
  <2>0. PagesFor(want[t]) \in Nat
    BY <1>1, <1>5, PagesForType DEF Grow, At, CallTypes
  <2>1. ListTypes'
    BY <1>1, <1>5, <2>0 DEF Grow, ListTypes
  <2>2. FrameTypes'
    BY <1>1, <1>5 DEF Grow, FrameTypes, frameVars
  <2>3. CallTypes'
    BY <1>1, <1>5 DEF Grow, At, CallTypes, dataVars, callVars, Places
  <2> QED
    BY <2>1, <2>2, <2>3 DEF MemTypeOK
<1>6. CASE Return(t)
  <2>0. PagesFor(want[t]) \in Nat /\ startAddr[plast_region] \in Int
    BY <1>1, <1>6, PagesForType DEF Return, At, CallTypes, ListTypes
  <2>1. ListTypes'
    BY <1>1, <1>6 DEF Return, ListTypes, listVars
  <2>2. FrameTypes'
    BY <1>1, <1>6 DEF Return, FrameTypes, frameVars
  <2>3. \A r \in held' : r.start \in Int /\ r.pages \in Nat
    BY <1>1, <1>6, <2>0 DEF Return, CallTypes
  <2>4. CallTypes'
    <3>1. /\ pc' \in [Contexts -> Places] /\ want' \in [Contexts -> Int]
          /\ pcur' \in [Contexts -> Slots \cup {Null}]
          /\ i' \in [Contexts -> Nat] /\ pgnum' \in [Contexts -> Nat]
      BY <1>1, <1>6, SlotConstants DEF Return, CallTypes, Places
    <3>2. \A u \in Contexts : pc'[u] # "run" => pc'[u] = pc[u] /\ want'[u] = want[u]
      BY <1>1, <1>6 DEF Return, CallTypes
    <3> QED
      BY <1>1, <2>3, <3>1, <3>2 DEF CallTypes
  <2> QED
    BY <2>1, <2>2, <2>4 DEF MemTypeOK
<1> QED
  BY <1>2, <1>3, <1>4, <1>5, <1>6 DEF allocate

\* Calls of release() keep the types (release, release_frame, free_page).
LEMMA ReleaseTypes ==
  ASSUME MemTypeOK, NEW t \in Contexts, release(t)
  PROVE  MemTypeOK'
<1> USE DEF Goto, Leave, Allocating
<1>1. ListTypes /\ FrameTypes /\ CallTypes
  BY DEF MemTypeOK
<1>2. ASSUME NEW r \in held, GiveBack(t, r) PROVE MemTypeOK'
  <2>1. ListTypes' /\ FrameTypes'
    BY <1>1, <1>2 DEF GiveBack, ListTypes, FrameTypes, listVars, frameVars
  <2>2. r.start \in Int /\ 0 \in Slots
    BY <1>1, SlotConstants DEF CallTypes
  <2>3. CallTypes'
    BY <1>1, <1>2, <2>2 DEF GiveBack, CallTypes, Places
  <2> QED
    BY <2>1, <2>3 DEF MemTypeOK
<1>3. CASE Seek(t)
  <2>1. ListTypes' /\ FrameTypes'
    BY <1>1, <1>3 DEF Seek, ListTypes, FrameTypes, listVars, frameVars
  <2>2. next[pcur[t]] \in Slots \cup {Null}
    BY <1>1, <1>3 DEF Seek, ListTypes, CallTypes
  <2>3. CallTypes'
    BY <1>1, <1>3, <2>2 DEF Seek, CallTypes, dataVars
  <2> QED
    BY <2>1, <2>3 DEF MemTypeOK
<1>4. CASE Unlink(t)
  <2>1. pcur[t] \in Slots
    BY <1>1, <1>4 DEF Unlink, CallTypes
  <2>2. PagesFor(size[pcur[t]]) \in Nat /\ 0 \in Slots
    BY <1>1, <2>1, PagesForType, SlotConstants DEF ListTypes
  <2>3. ListTypes'
    BY <1>1, <1>4, <2>1 DEF Unlink, ListTypes
  <2>4. FrameTypes'
    BY <1>1, <1>4 DEF Unlink, FrameTypes, frameVars
  <2>5. CallTypes'
    BY <1>1, <1>4, <2>2 DEF Unlink, CallTypes, dataVars, Places
  <2> QED
    BY <2>3, <2>4, <2>5 DEF MemTypeOK
<1>5. CASE ReadFrame(t)
  <2>1. ListTypes'
    BY <1>1, <1>5 DEF ReadFrame, ListTypes, listVars
  <2>2. FrameTypes'
    BY <1>1, <1>5 DEF ReadFrame, FrameTypes
  <2>3. CallTypes'
    BY <1>1, <1>5 DEF ReadFrame, CallTypes, callVars, dataVars, Places
  <2> QED
    BY <2>1, <2>2, <2>3 DEF MemTypeOK
<1>6. CASE release_frame(t)
  <2>1. ListTypes'
    BY <1>1, <1>6 DEF release_frame, ListTypes, listVars
  <2>2. FrameTypes'
    BY <1>1, <1>6 DEF release_frame, FrameTypes
  <2>3. CallTypes'
    BY <1>1, <1>6 DEF release_frame, CallTypes, callVars, dataVars, Places
  <2> QED
    BY <2>1, <2>2, <2>3 DEF MemTypeOK
<1>7. CASE ClearPte(t)
  <2>1. ListTypes'
    BY <1>1, <1>7 DEF ClearPte, ListTypes, listVars
  <2>2. FrameTypes'
    BY <1>1, <1>7 DEF ClearPte, FrameTypes, Descriptors
  <2>3. CallTypes'
    BY <1>1, <1>7 DEF ClearPte, CallTypes, dataVars, Places
  <2> QED
    BY <2>1, <2>2, <2>3 DEF MemTypeOK
<1>8. CASE Shrink(t)
  <2>1. ListTypes'
    BY <1>1, <1>8 DEF Shrink, ListTypes, CallTypes
  <2>2. FrameTypes'
    BY <1>1, <1>8 DEF Shrink, FrameTypes, frameVars
  <2>3. CallTypes'
    BY <1>1, <1>8 DEF Shrink, CallTypes, callVars, dataVars, Places
  <2> QED
    BY <2>1, <2>2, <2>3 DEF MemTypeOK
<1>9. CASE CheckLast(t)
  <2>1. ListTypes'
    BY <1>1, <1>9, SlotConstants DEF CheckLast, ListTypes
  <2>2. FrameTypes'
    BY <1>1, <1>9 DEF CheckLast, FrameTypes, frameVars
  <2>3. CallTypes'
    BY <1>1, <1>9, SlotConstants DEF CheckLast, CallTypes, callVars, dataVars, Places
  <2> QED
    BY <2>1, <2>2, <2>3 DEF MemTypeOK
<1>10. CASE Forward(t)
  <2>1. ListTypes'
    BY <1>1, <1>10 DEF Forward, ListTypes
  <2>2. FrameTypes'
    BY <1>1, <1>10 DEF Forward, FrameTypes, frameVars
  <2>3. CallTypes'
    BY <1>1, <1>10, SlotConstants DEF Forward, CallTypes, callVars, dataVars, Places
  <2> QED
    BY <2>1, <2>2, <2>3 DEF MemTypeOK
<1> QED
  BY <1>2, <1>3, <1>4, <1>5, <1>6, <1>7, <1>8, <1>9, <1>10 DEF release

\* Stores and page faults keep the types (get_frame, handle_fault).
LEMMA WriteTypes ==
  ASSUME MemTypeOK, NEW t \in Contexts, Write(t)
  PROVE  MemTypeOK'
<1> USE DEF Goto, Leave, Allocating
<1>1. ListTypes /\ FrameTypes /\ CallTypes
  BY DEF MemTypeOK
<1>2. ASSUME NEW r \in held, NEW p \in Pages, Touch(t, r, p) PROVE MemTypeOK'
  <2>1. ListTypes' /\ FrameTypes'
    BY <1>1, <1>2 DEF Touch, ListTypes, FrameTypes, listVars, frameVars
  <2>2. CallTypes'
    BY <1>1, <1>2 DEF Touch, CallTypes, Places, Pages
  <2> QED
    BY <2>1, <2>2 DEF MemTypeOK
<1>3. CASE ScanBitmap(t)
  <2>1. ListTypes'
    BY <1>1, <1>3 DEF ScanBitmap, ListTypes, listVars
  <2>2. PICK f \in Frames \cup {BadFrame} : /\ frame' = [frame EXCEPT ![t] = f]
                                            /\ enough' = (enough /\ f # BadFrame)
    BY <1>3 DEF ScanBitmap, FirstFree
  <2>3. FrameTypes'
    BY <1>1, <1>3, <2>2 DEF ScanBitmap, FrameTypes
  <2>4. CallTypes'
    BY <1>1, <1>3 DEF ScanBitmap, At, CallTypes, callVars, dataVars, Places
  <2> QED
    BY <2>1, <2>3, <2>4 DEF MemTypeOK
<1>4. CASE get_frame(t)
  <2>1. ListTypes'
    BY <1>1, <1>4 DEF get_frame, ListTypes, listVars
  <2>2. FrameTypes'
    BY <1>1, <1>4 DEF get_frame, FrameTypes
  <2>3. CallTypes'
    BY <1>1, <1>4 DEF get_frame, At, CallTypes, callVars, dataVars, Places
  <2> QED
    BY <2>1, <2>2, <2>3 DEF MemTypeOK
<1>5. CASE handle_fault(t)
  <2>1. ListTypes'
    BY <1>1, <1>5 DEF handle_fault, ListTypes, listVars
  <2>2. FrameTypes'
    BY <1>1, <1>5 DEF handle_fault, FrameTypes, Descriptors
  <2>3. CallTypes'
    BY <1>1, <1>5 DEF handle_fault, At, CallTypes, callVars, dataVars, Places
  <2> QED
    BY <2>1, <2>2, <2>3 DEF MemTypeOK
<1>6. CASE Store(t)
  <2>1. ListTypes' /\ FrameTypes'
    BY <1>1, <1>6 DEF Store, ListTypes, FrameTypes, listVars, frameVars
  <2>2. CallTypes'
    BY <1>1, <1>6, SlotConstants DEF Store, CallTypes, Places
  <2> QED
    BY <2>1, <2>2 DEF MemTypeOK
<1> QED
  BY <1>2, <1>3, <1>4, <1>5, <1>6 DEF Write

\* The bookkeeping keeps its types, whatever preempts what.
THEOREM MemTypeCorrect == MemSpec => []MemTypeOK
<1>1. MemInit => MemTypeOK
  <2> SUFFICES ASSUME MemInit PROVE MemTypeOK
    OBVIOUS
  <2>1. ListTypes
    BY SlotConstants DEF MemInit, ListTypes
  <2>2. pte \in [Pages -> Descriptors]
    BY FrameConstants DEF MemInit, Descriptors
  <2>3. FrameTypes
    BY <2>2, FrameConstants DEF MemInit, FrameTypes, Frames
  <2>4. CallTypes
    BY SlotConstants DEF MemInit, CallTypes, Places, Allocating
  <2> QED
    BY <2>1, <2>3, <2>4 DEF MemTypeOK
<1>2. MemTypeOK /\ [MemNext]_memVars => MemTypeOK'
  <2> SUFFICES ASSUME MemTypeOK, [MemNext]_memVars PROVE MemTypeOK'
    OBVIOUS
  <2>1. ASSUME NEW t \in Contexts, allocate(t) \/ release(t) \/ Write(t) PROVE MemTypeOK'
    BY <2>1, AllocateTypes, ReleaseTypes, WriteTypes
  <2>2. CASE UNCHANGED memVars
    BY <2>2 DEF memVars, listVars, frameVars, callVars, dataVars, MemTypeOK, ListTypes,
       FrameTypes, CallTypes, Allocating
  <2> QED
    BY <2>1, <2>2 DEF MemNext
<1> QED
  BY <1>1, <1>2, PTL DEF MemSpec

-----------------------------------------------------------------------------
(* Frames.  While a context is in the handler or inside free_page, what it   *)
(* read of bitmap and page table is still true.                              *)

InSection(t) == InHandler(t) \/ InFree(t)

SectionsAlone == \A t, u \in Contexts : InSection(t) /\ InSection(u) => t = u
SectionFacts ==
  \A t \in Contexts :
    /\ InHandler(t) => pte[want[t]] = Unmapped
    /\ pc[t] = "mark" => snap[t] = bitmap /\ frame[t] \notin bitmap
    /\ pc[t] = "map" => frame[t] \notin Mapped
    /\ pc[t] = "clear" =>
         snap[t] = bitmap /\ frame[t] = FrameOf(t) /\ FrameOf(t) \in Frames \ inacc

FrameInv == MemTypeOK /\ FramesPrivate /\ FramesAccounted /\ SectionsAlone /\ SectionFacts

\* Whoever gets a step finds nobody else of its CPU in such a section (the masked
\* handler, FreesWhole).
LEMMA OthersOut ==
  ASSUME OneProcessor, FreesWhole, NEW t \in Contexts, NEW p, At(t, p)
  PROVE  pc[t] = p /\ \A u \in Contexts \ {t} : ~InSection(u)
BY DEF At, OneProcessor, InSection

\* Steps outside the sections that leave bitmap and page table alone.
LEMMA FramesUntouched ==
  ASSUME FrameInv, MemTypeOK', UNCHANGED <<bitmap, inacc, pte, snap, frame>>,
         \A u \in Contexts :
            \/ pc'[u] = pc[u] /\ want'[u] = want[u] /\ i'[u] = i[u]
            \/ ~InSection(u) /\ ~InSection(u)'
  PROVE  FrameInv'
<1> USE DEF InSection, InHandler, InFree
<1>1. FramesPrivate' /\ Mapped' = Mapped
  BY DEF FrameInv, FramesPrivate, Mapped
<1>2. {u \in Contexts : pc'[u] = "map"} = {u \in Contexts : pc[u] = "map"}
  OBVIOUS
<1>3. Claimed' = Claimed
  BY <1>2 DEF Claimed
<1>4. {u \in Contexts : pc'[u] = "drop"} = {u \in Contexts : pc[u] = "drop"}
  OBVIOUS
<1>5. \A u \in Contexts : InSection(u) => FrameOf(u)' = FrameOf(u) /\ want'[u] = want[u]
  BY DEF FrameOf, PageOf
<1>6. \A u \in Contexts : InSection(u)' => InSection(u) /\ pc'[u] = pc[u]
  OBVIOUS
<1>7. Dropped' = Dropped
  BY <1>4, <1>5 DEF Dropped
<1>8. FramesAccounted'
  BY <1>1, <1>3, <1>7 DEF FrameInv, FramesAccounted
<1>9. SectionsAlone'
  BY <1>6 DEF FrameInv, SectionsAlone
<1>10. SectionFacts'
  <2> SUFFICES ASSUME NEW u \in Contexts, InSection(u)'
               PROVE  /\ InHandler(u)' => pte[want'[u]] = Unmapped
                      /\ pc'[u] = "mark" => snap[u] = bitmap /\ frame[u] \notin bitmap
                      /\ pc'[u] = "map" => frame[u] \notin Mapped
                      /\ pc'[u] = "clear" => /\ snap[u] = bitmap /\ frame[u] = FrameOf(u)'
                                             /\ FrameOf(u)' \in Frames \ inacc
    BY <1>1 DEF SectionFacts
  <2>1. InSection(u) /\ pc'[u] = pc[u]
    BY <1>6
  <2>2. FrameOf(u)' = FrameOf(u) /\ want'[u] = want[u]
    BY <1>5, <2>1
  <2> QED
    BY <2>1, <2>2 DEF FrameInv, SectionFacts
<1> QED
  BY <1>1, <1>8, <1>9, <1>10 DEF FrameInv

\* The handler remembers the first free frame it found (get_frame).
LEMMA ScanBitmapFrames ==
  ASSUME FrameInv, MemTypeOK', OneProcessor, FreesWhole, NEW t \in Contexts, ScanBitmap(t)
  PROVE  FrameInv'
<1> USE DEF ScanBitmap, Goto, InSection, InHandler, InFree
<1>1. MemTypeOK /\ FramesPrivate /\ FramesAccounted
  BY DEF FrameInv
<1>2. /\ pc[t] = "store" /\ pc' = [pc EXCEPT ![t] = "mark"]
      /\ \A u \in Contexts : ~InSection(u)
      /\ UNCHANGED <<bitmap, inacc, pte, want, i>>
  BY OthersOut DEF callVars
<1>3. pc \in [Contexts -> Places] /\ bitmap \subseteq Frames
      /\ frame \in [Contexts -> Frames \cup {BadFrame}] /\ snap \in [Contexts -> SUBSET Frames]
  BY <1>1 DEF MemTypeOK, FrameTypes, CallTypes
<1>4. PICK f : f \in (Frames \ bitmap) \cup {BadFrame} /\ frame' = [frame EXCEPT ![t] = f]
  BY DEF FirstFree
<1>5. f \notin bitmap
  BY <1>3, <1>4, FrameConstants
<1>6. FramesPrivate' /\ Mapped' = Mapped
  BY <1>1, <1>2 DEF FramesPrivate, Mapped
<1>7. Claimed = {} /\ Claimed' = {} /\ Dropped = {} /\ Dropped' = {}
  BY <1>2, <1>3 DEF Claimed, Dropped
<1>8. FramesAccounted'
  BY <1>1, <1>2, <1>6, <1>7 DEF FramesAccounted
<1>9. SectionsAlone'
  BY <1>2, <1>3 DEF SectionsAlone
<1>10. SectionFacts'
  BY <1>2, <1>3, <1>4, <1>5 DEF SectionFacts
<1> QED
  BY <1>6, <1>8, <1>9, <1>10 DEF FrameInv

\* Marking the frame found: nobody else took it meanwhile (get_frame).
LEMMA GetFrameFrames ==
  ASSUME FrameInv, MemTypeOK', OneProcessor, FreesWhole, NEW t \in Contexts, get_frame(t)
  PROVE  FrameInv'
<1> USE DEF get_frame, Goto, InSection, InHandler, InFree
<1>1. MemTypeOK /\ FramesPrivate /\ FramesAccounted /\ SectionFacts
  BY DEF FrameInv
<1>2. /\ pc[t] = "mark" /\ pc' = [pc EXCEPT ![t] = "map"]
      /\ \A u \in Contexts \ {t} : ~InSection(u)
      /\ UNCHANGED <<inacc, pte, want, i, frame>>
  BY OthersOut DEF callVars
<1>3. pc \in [Contexts -> Places] /\ bitmap \subseteq Frames
      /\ frame \in [Contexts -> Frames \cup {BadFrame}]
  BY <1>1 DEF MemTypeOK, FrameTypes, CallTypes
<1>4. /\ snap[t] = bitmap /\ frame[t] \notin bitmap /\ pte[want[t]] = Unmapped
  BY <1>1, <1>2 DEF SectionFacts
<1>5. bitmap' = bitmap \cup ({frame[t]} \cap Frames)
  BY <1>3, <1>4, FrameConstants
<1>6. FramesPrivate' /\ Mapped' = Mapped
  BY <1>1, <1>2 DEF FramesPrivate, Mapped
<1>7. /\ {u \in Contexts : pc[u] = "map"} = {} /\ {u \in Contexts : pc'[u] = "map"} = {t}
      /\ {u \in Contexts : pc[u] = "drop"} = {} /\ {u \in Contexts : pc'[u] = "drop"} = {}
  BY <1>2, <1>3
<1>8. Claimed = {} /\ Claimed' = {frame[t]} \cap Frames /\ Dropped = {} /\ Dropped' = {}
  BY <1>2, <1>7 DEF Claimed, Dropped
<1>9. FramesAccounted'
  BY <1>1, <1>2, <1>5, <1>6, <1>8 DEF FramesAccounted
<1>10. frame[t] \notin Mapped
  BY <1>1, <1>4, <1>8 DEF FramesAccounted
<1>11. SectionsAlone'
  BY <1>2, <1>3 DEF SectionsAlone
<1>12. SectionFacts'
  BY <1>2, <1>3, <1>4, <1>6, <1>10 DEF SectionFacts
<1> QED
  BY <1>6, <1>9, <1>11, <1>12 DEF FrameInv

\* Mapping the marked frame: no page has it yet (handle_fault).
LEMMA HandleFaultFrames ==
  ASSUME FrameInv, MemTypeOK', OneProcessor, FreesWhole, NEW t \in Contexts, handle_fault(t)
  PROVE  FrameInv'
<1> USE DEF handle_fault, Goto, InSection, InHandler, InFree
<1> DEFINE w == want[t]
           f == frame[t]
<1>1. MemTypeOK /\ FramesPrivate /\ FramesAccounted /\ SectionFacts
  BY DEF FrameInv
<1>2. /\ pc[t] = "map" /\ pc' = [pc EXCEPT ![t] = "store"]
      /\ \A u \in Contexts \ {t} : ~InSection(u)
      /\ UNCHANGED <<bitmap, inacc, want, i>>
      /\ pte' = [pte EXCEPT ![w] = f]
  BY OthersOut DEF callVars
<1>3. pc \in [Contexts -> Places] /\ bitmap \subseteq Frames /\ pte \in [Pages -> Descriptors]
      /\ frame \in [Contexts -> Frames \cup {BadFrame}] /\ w \in Pages
  BY <1>1, <1>2 DEF MemTypeOK, FrameTypes, CallTypes
<1>4. f \notin Mapped /\ pte[w] = Unmapped /\ f \in Frames \cup {BadFrame}
  BY <1>1, <1>2, <1>3 DEF SectionFacts
<1>5. /\ {u \in Contexts : pc[u] = "map"} = {t} /\ {u \in Contexts : pc'[u] = "map"} = {}
      /\ {u \in Contexts : pc[u] = "drop"} = {} /\ {u \in Contexts : pc'[u] = "drop"} = {}
  BY <1>2, <1>3
<1>6. Claimed = {f} \cap Frames /\ Claimed' = {} /\ Dropped = {} /\ Dropped' = {}
  BY <1>2, <1>5 DEF Claimed, Dropped
<1> HIDE DEF w, f
<1>7. pte'[w] = f /\ \A p \in Pages \ {w} : pte'[p] = pte[p]
  BY <1>2, <1>3
<1>8. FramesPrivate'
  BY <1>1, <1>4, <1>7, <1>3 DEF FramesPrivate, Mapped
<1>9. Mapped' = Mapped \cup ({f} \cap Frames)
  <2>1. Mapped' \subseteq Mapped \cup ({f} \cap Frames)
    BY <1>7 DEF Mapped
  <2>2. ASSUME NEW g \in Mapped PROVE g \in Mapped'
    <3>1. PICK p \in Pages : pte[p] = g /\ g \in Frames
      BY DEF Mapped
    <3>2. p # w
      BY <3>1, <1>4, FrameConstants
    <3> QED
      BY <3>1, <3>2, <1>7 DEF Mapped
  <2>3. {f} \cap Frames \subseteq Mapped'
    BY <1>3, <1>7 DEF Mapped
  <2> QED
    BY <2>1, <2>2, <2>3
<1>10. FramesAccounted'
  BY <1>1, <1>2, <1>6, <1>9 DEF FramesAccounted
<1>11. SectionsAlone'
  BY <1>2, <1>3 DEF SectionsAlone
<1>12. SectionFacts'
  BY <1>2, <1>3 DEF SectionFacts
<1> QED
  BY <1>8, <1>10, <1>11, <1>12 DEF FrameInv

\* release_frame() reads the bitmap's byte, or refuses the frame (free_page).
LEMMA ReadFrameFrames ==
  ASSUME FrameInv, MemTypeOK', OneProcessor, FreesWhole, NEW t \in Contexts, ReadFrame(t)
  PROVE  FrameInv'
<1> USE DEF ReadFrame, Goto, InSection, InHandler, InFree
<1>1. MemTypeOK /\ FramesPrivate /\ FramesAccounted
  BY DEF FrameInv
<1>2. /\ pc[t] = "free" /\ \A u \in Contexts : ~InSection(u)
      /\ UNCHANGED <<bitmap, inacc, pte, want, i>>
  BY OthersOut DEF callVars
<1>3. pc \in [Contexts -> Places] /\ frame \in [Contexts -> Frames \cup {BadFrame}]
      /\ snap \in [Contexts -> SUBSET Frames]
  BY <1>1 DEF MemTypeOK, FrameTypes, CallTypes
<1>4. FramesPrivate' /\ Mapped' = Mapped /\ \A u \in Contexts : FrameOf(u)' = FrameOf(u)
  BY <1>1, <1>2 DEF FramesPrivate, Mapped, FrameOf, PageOf
<1>5. Claimed = {} /\ Dropped = {}
  BY <1>2 DEF Claimed, Dropped
<1>6. CASE FrameOf(t) \in Frames \ inacc
  <2>1. /\ pc' = [pc EXCEPT ![t] = "clear"] /\ snap' = [snap EXCEPT ![t] = bitmap]
        /\ frame' = [frame EXCEPT ![t] = FrameOf(t)]
    BY <1>6
  <2>2. {u \in Contexts : pc'[u] = "map"} = {} /\ {u \in Contexts : pc'[u] = "drop"} = {}
    BY <1>2, <1>3, <2>1
  <2>3. Claimed' = {} /\ Dropped' = {}
    BY <2>2 DEF Claimed, Dropped
  <2>4. FramesAccounted'
    BY <1>1, <1>2, <1>4, <1>5, <2>3 DEF FramesAccounted
  <2>5. SectionsAlone'
    BY <1>2, <1>3, <2>1 DEF SectionsAlone
  <2>6. SectionFacts'
    BY <1>2, <1>3, <1>4, <1>6, <2>1 DEF SectionFacts
  <2> QED
    BY <1>4, <2>4, <2>5, <2>6 DEF FrameInv
<1>7. CASE FrameOf(t) \notin Frames \ inacc
  <2>1. pc' = [pc EXCEPT ![t] = "drop"] /\ frame' = frame
    BY <1>7
  <2>2. {u \in Contexts : pc'[u] = "map"} = {} /\ {u \in Contexts : pc'[u] = "drop"} = {t}
    BY <1>2, <1>3, <2>1
  <2>3. Claimed' = {} /\ Dropped' = {FrameOf(t)} \ inacc
    BY <1>2, <1>4, <2>2 DEF Claimed, Dropped
  <2>4. Mapped \ Dropped' = Mapped
    BY <1>7, <2>3 DEF Mapped
  <2>5. FramesAccounted'
    BY <1>1, <1>2, <1>4, <1>5, <2>3, <2>4 DEF FramesAccounted
  <2>6. SectionsAlone'
    BY <1>2, <1>3, <2>1 DEF SectionsAlone
  <2>7. SectionFacts'
    BY <1>2, <1>3, <2>1 DEF SectionFacts
  <2> QED
    BY <1>4, <2>5, <2>6, <2>7 DEF FrameInv
<1> QED
  BY <1>6, <1>7

\* The byte goes back without the frame's bit: no other frame's mark is lost
\* (release_frame).
LEMMA ReleaseFrameFrames ==
  ASSUME FrameInv, MemTypeOK', OneProcessor, FreesWhole, NEW t \in Contexts, release_frame(t)
  PROVE  FrameInv'
<1> USE DEF release_frame, Goto, InSection, InHandler, InFree
<1> DEFINE f == FrameOf(t)
<1>1. MemTypeOK /\ FramesPrivate /\ FramesAccounted /\ SectionFacts
  BY DEF FrameInv
<1>2. /\ pc[t] = "clear" /\ pc' = [pc EXCEPT ![t] = "drop"]
      /\ \A u \in Contexts \ {t} : ~InSection(u)
      /\ UNCHANGED <<inacc, pte, want, i>>
      /\ bitmap' = snap[t] \ {frame[t]}
  BY OthersOut DEF callVars
<1>3. pc \in [Contexts -> Places]
  BY <1>1 DEF MemTypeOK, CallTypes
<1>4. bitmap' = bitmap \ {f} /\ f \in Frames \ inacc
  BY <1>1, <1>2 DEF SectionFacts
<1>5. FramesPrivate' /\ Mapped' = Mapped /\ FrameOf(t)' = f
  BY <1>1, <1>2 DEF FramesPrivate, Mapped, FrameOf, PageOf
<1>6. /\ {u \in Contexts : pc[u] = "map"} = {} /\ {u \in Contexts : pc'[u] = "map"} = {}
      /\ {u \in Contexts : pc[u] = "drop"} = {} /\ {u \in Contexts : pc'[u] = "drop"} = {t}
  BY <1>2, <1>3
<1>7. Claimed = {} /\ Claimed' = {} /\ Dropped = {} /\ Dropped' = {f} \ inacc
  <2>1. Claimed = {} /\ Claimed' = {} /\ Dropped = {}
    BY <1>6 DEF Claimed, Dropped
  <2>2. Dropped' = {FrameOf(t)'} \ inacc'
    BY <1>6 DEF Dropped
  <2> QED
    BY <1>2, <1>5, <2>1, <2>2
<1> HIDE DEF f
<1>8. FramesAccounted'
  BY <1>1, <1>2, <1>4, <1>5, <1>7 DEF FramesAccounted
<1>9. SectionsAlone'
  BY <1>2, <1>3 DEF SectionsAlone
<1>10. SectionFacts'
  BY <1>2, <1>3 DEF SectionFacts
<1> QED
  BY <1>5, <1>8, <1>9, <1>10 DEF FrameInv

\* The page loses its frame, which no other page has (free_page).
LEMMA ClearPteFrames ==
  ASSUME FrameInv, MemTypeOK', OneProcessor, FreesWhole, NEW t \in Contexts, ClearPte(t)
  PROVE  FrameInv'
<1> USE DEF ClearPte, Goto, InSection, InHandler, InFree
<1> DEFINE p == PageOf(t)
           f == FrameOf(t)
<1>1. MemTypeOK /\ FramesPrivate /\ FramesAccounted
  BY DEF FrameInv
<1>2. /\ pc[t] = "drop" /\ pc' = [pc EXCEPT ![t] = "free"]
      /\ \A u \in Contexts \ {t} : ~InSection(u)
      /\ UNCHANGED <<inacc, bitmap>>
      /\ pte' = [pte EXCEPT ![p] = Unmapped]
  BY OthersOut
<1>3. pc \in [Contexts -> Places] /\ pte \in [Pages -> Descriptors]
  BY <1>1 DEF MemTypeOK, CallTypes, FrameTypes
<1>4. f = IF p \in Pages THEN pte[p] ELSE Unmapped
  BY DEF FrameOf
<1>5. /\ {u \in Contexts : pc[u] = "map"} = {} /\ {u \in Contexts : pc'[u] = "map"} = {}
      /\ {u \in Contexts : pc[u] = "drop"} = {t} /\ {u \in Contexts : pc'[u] = "drop"} = {}
  BY <1>2, <1>3
<1>6. Claimed = {} /\ Claimed' = {} /\ Dropped = {f} \ inacc /\ Dropped' = {}
  BY <1>5 DEF Claimed, Dropped
<1> HIDE DEF p, f
<1>7. \A q \in Pages : pte'[q] = IF q = p THEN Unmapped ELSE pte[q]
  BY <1>2, <1>3
<1>8. FramesPrivate'
  BY <1>1, <1>7, FrameConstants DEF FramesPrivate
<1>9. Mapped' = Mapped \ {f}
  <2>1. ASSUME NEW g \in Mapped' PROVE g \in Mapped /\ g # f
    <3>1. PICK q \in Pages : pte'[q] = g /\ g \in Frames
      BY <2>1 DEF Mapped
    <3>2. q # p /\ pte[q] = g
      BY <1>7, <3>1, FrameConstants
    <3>3. p \in Pages => pte[p] # pte[q]
      BY <1>1, <3>1, <3>2 DEF FramesPrivate
    <3> QED
      BY <1>4, <3>1, <3>2, <3>3, FrameConstants DEF Mapped
  <2>2. ASSUME NEW g \in Mapped, g # f PROVE g \in Mapped'
    <3>1. PICK q \in Pages : pte[q] = g /\ g \in Frames
      BY DEF Mapped
    <3>2. q # p
      BY <1>4, <2>2, <3>1
    <3> QED
      BY <1>7, <3>1, <3>2 DEF Mapped
  <2> QED
    BY <2>1, <2>2
<1>10. FramesAccounted'
  BY <1>1, <1>2, <1>6, <1>9 DEF FramesAccounted
<1>11. SectionsAlone'
  BY <1>2, <1>3 DEF SectionsAlone
<1>12. SectionFacts'
  BY <1>2, <1>3 DEF SectionFacts
<1> QED
  BY <1>8, <1>10, <1>11, <1>12 DEF FrameInv

\* The region list is nothing to the frames (allocate, release, the clients' stores).
LEMMA ListStepsFrames ==
  ASSUME FrameInv, MemTypeOK', NEW t \in Contexts,
         \/ allocate(t) \/ Seek(t) \/ Unlink(t) \/ Shrink(t) \/ CheckLast(t) \/ Forward(t)
         \/ (\E r \in held : GiveBack(t, r)) \/ (\E r \in held, p \in Pages : Touch(t, r, p))
         \/ Store(t)
  PROVE  FrameInv'
<1>1. pc \in [Contexts -> Places] /\ want \in [Contexts -> Int] /\ i \in [Contexts -> Nat]
  BY DEF FrameInv, MemTypeOK, CallTypes
<1>2. ~InSection(t) /\ ~InSection(t)'
  BY <1>1 DEF allocate, LinkSlot, Advance, FillSlot, Grow, Return, Seek, Unlink, Shrink,
     CheckLast, Forward, GiveBack, Touch, Store, Enter, At, Goto, Leave, InSection, InHandler,
     InFree
<1>3. \A u \in Contexts \ {t} : pc'[u] = pc[u] /\ want'[u] = want[u] /\ i'[u] = i[u]
  BY <1>1 DEF allocate, LinkSlot, Advance, FillSlot, Grow, Return, Seek, Unlink, Shrink,
     CheckLast, Forward, GiveBack, Touch, Store, Goto, Leave, callVars
<1>4. UNCHANGED <<bitmap, inacc, pte, snap, frame>>
  BY DEF allocate, LinkSlot, Advance, FillSlot, Grow, Return, Seek, Unlink, Shrink,
     CheckLast, Forward, GiveBack, Touch, Store, frameVars
<1> QED
  BY <1>2, <1>3, <1>4, FramesUntouched

\* The frames' invariant is inductive for any number of tasks on one CPU.
THEOREM MemFrameInvariant ==
  ASSUME OneProcessor, FreesWhole
  PROVE  MemSpec => []FrameInv
<1>1. MemInit /\ MemTypeOK => FrameInv
  <2> SUFFICES ASSUME MemInit, MemTypeOK PROVE FrameInv
    OBVIOUS
  <2>1. \A t \in Contexts : pc[t] = "run"
    BY DEF MemInit
  <2>2. Claimed = {} /\ Dropped = {}
    BY <2>1 DEF Claimed, Dropped
  <2>3. FramesPrivate /\ FramesAccounted
    BY <2>2, FrameConstants DEF MemInit, FramesPrivate, FramesAccounted, Mapped
  <2>4. SectionsAlone /\ SectionFacts
    BY <2>1 DEF SectionsAlone, SectionFacts, InSection, InHandler, InFree
  <2> QED
    BY <2>3, <2>4 DEF FrameInv
<1>2. FrameInv /\ MemTypeOK' /\ [MemNext]_memVars => FrameInv'
  <2> SUFFICES ASSUME FrameInv, MemTypeOK', [MemNext]_memVars PROVE FrameInv'
    OBVIOUS
  <2>1. ASSUME NEW t \in Contexts, allocate(t) PROVE FrameInv'
    BY <2>1, ListStepsFrames
  <2>2. ASSUME NEW t \in Contexts, release(t) PROVE FrameInv'
    BY <2>2, ListStepsFrames, ReadFrameFrames, ReleaseFrameFrames, ClearPteFrames DEF release
  <2>3. ASSUME NEW t \in Contexts, Write(t) PROVE FrameInv'
    BY <2>3, ListStepsFrames, ScanBitmapFrames, GetFrameFrames, HandleFaultFrames DEF Write
  <2>4. CASE UNCHANGED memVars
    BY <2>4, FramesUntouched DEF memVars, frameVars, callVars
  <2> QED
    BY <2>1, <2>2, <2>3, <2>4 DEF MemNext
<1> QED
  BY <1>1, <1>2, MemTypeCorrect, PTL DEF MemSpec

\* No frame backs two pages, in whatever order regions are freed and wherever tasks
\* preempt each other but inside free_page() (get_frame, handle_fault, free_page).
THEOREM MemFramesPrivate ==
  ASSUME OneProcessor, FreesWhole
  PROVE  MemSpec => []FramesPrivate
<1>1. FrameInv => FramesPrivate
  BY DEF FrameInv
<1> QED
  BY <1>1, MemFrameInvariant, PTL

\* Bitmap and page table agree, but for a frame that free_page() is about to unmap
\* and frames release_frame() refuses, also when frames run out.
THEOREM MemFramesAccounted ==
  ASSUME OneProcessor, FreesWhole
  PROVE  MemSpec => []FramesAccounted
<1>1. FrameInv => FramesAccounted
  BY DEF FrameInv
<1> QED
  BY <1>1, MemFrameInvariant, PTL

-----------------------------------------------------------------------------
(* The region list, when calls do not preempt each other.                    *)

CallsExclusive == \A t, u \in Contexts : InCall(t) /\ InCall(u) => t = u

\* The linked slots but for one that allocate() has yet to fill in.
Filled == {s \in chain : \A t \in Contexts : /\ pc[t] = "advance" => s # plast_region + 1
                                             /\ pc[t] = "fill" => s # plast_region}

IsTop(s) == \A u \in chain : u <= s

\* Links go to the next slot in use and back.
LinkedOn(s) ==
  IF next[s] = Null THEN IsTop(s)
  ELSE /\ next[s] \in chain /\ s < next[s] /\ prev[next[s]] = s
       /\ \A u \in chain : u <= s \/ next[s] <= u
Links ==
  /\ 0 \in chain /\ startAddr[0] = 0 /\ size[0] = PAGE_SIZE
  /\ \A s \in Filled : LinkedOn(s)
  /\ \A s \in chain \ {0} : prev[s] \in Filled /\ next[prev[s]] = s

\* Where plast_region is, by where the call is.
LastFacts ==
  \A t \in Contexts :
    /\ pc[t] = "advance" => /\ plast_region \in chain /\ plast_region + 1 \in chain
                            /\ next[plast_region] = plast_region + 1
                            /\ IsTop(plast_region + 1)
    /\ pc[t] \in {"fill", "grow", "return"} => plast_region \in chain \ {0} /\ IsTop(plast_region)
    /\ pc[t] = "find" => /\ plast_region \in chain /\ IsTop(plast_region)
                         /\ want[t] # 0 /\ pcur[t] \in chain \cup {Null}
    /\ pc[t] \in {"free", "clear", "drop", "last"} =>
         IsTop(plast_region) /\ (plast_region \in chain \/ startAddr[plast_region] = want[t])
    /\ pc[t] = "forward" => plast_region \in chain
AtRest == \A t \in Contexts : ~InCall(t)
LastAtRest == AtRest => plast_region \in chain /\ IsTop(plast_region)

ListInv == CallsExclusive /\ Links /\ LastFacts /\ LastAtRest

CallPlaces == {"advance", "fill", "grow", "return", "find", "free", "clear", "drop", "last",
               "forward"}

\* Being in a call is a matter of the place.
LEMMA InCallPlaces ==
  /\ \A t \in Contexts : InCall(t) <=> pc[t] \in CallPlaces
  /\ \A t \in Contexts : InCall(t)' <=> pc'[t] \in CallPlaces
BY DEF InCall, Allocating, CallPlaces

\* The step of a call is that of the only call.
LEMMA OnlyCall ==
  ASSUME MemTypeOK, CallsExclusive, NEW t \in Contexts, InCall(t),
         NEW p \in Places, pc' = [pc EXCEPT ![t] = p]
  PROVE  /\ \A u \in Contexts \ {t} : pc[u] \notin CallPlaces /\ pc'[u] \notin CallPlaces
         /\ pc'[t] = p /\ CallsExclusive'
BY InCallPlaces DEF MemTypeOK, CallTypes, CallsExclusive

\* A call begins when there is none.
LEMMA FirstCall ==
  ASSUME MemTypeOK, OneProcessor, CallsAlone, NEW t \in Contexts, Enter(t),
         NEW p \in Places, pc' = [pc EXCEPT ![t] = p]
  PROVE  /\ AtRest /\ pc[t] \notin CallPlaces
         /\ \A u \in Contexts \ {t} : pc[u] \notin CallPlaces /\ pc'[u] \notin CallPlaces
         /\ pc'[t] = p /\ CallsExclusive'
BY InCallPlaces DEF MemTypeOK, CallTypes, CallsExclusive, Enter, OneProcessor, AtRest

\* Steps outside the calls.
LEMMA ListUntouched ==
  ASSUME ListInv, UNCHANGED <<plast_region, startAddr, size, next, prev, chain>>,
         \A u \in Contexts :
            \/ pc'[u] = pc[u] /\ want'[u] = want[u] /\ pcur'[u] = pcur[u]
            \/ pc[u] \notin CallPlaces /\ pc'[u] \notin CallPlaces
  PROVE  ListInv'
<1>1. \A u \in Contexts : pc'[u] \in CallPlaces \/ pc[u] \in CallPlaces =>
         pc'[u] = pc[u] /\ want'[u] = want[u] /\ pcur'[u] = pcur[u]
  OBVIOUS
<1>2. Filled' = Filled
  BY <1>1 DEF Filled, CallPlaces
<1>3. Links'
  BY <1>2 DEF ListInv, Links, LinkedOn, IsTop
<1>4. CallsExclusive'
  BY <1>1, InCallPlaces DEF ListInv, CallsExclusive
<1>5. LastFacts'
  BY <1>1 DEF ListInv, LastFacts, IsTop, CallPlaces
<1>6. LastAtRest'
  BY <1>1, InCallPlaces DEF ListInv, LastAtRest, AtRest, IsTop
<1> QED
  BY <1>3, <1>4, <1>5, <1>6 DEF ListInv

\* Steps of the call that leave the list alone.
LEMMA ListKept ==
  ASSUME MemTypeOK, ListInv, UNCHANGED <<plast_region, startAddr, size, next, prev, chain>>,
         NEW t \in Contexts, NEW p \in Places, InCall(t), pc' = [pc EXCEPT ![t] = p],
         \/ pc[t] = "grow" /\ p = "return"
         \/ pc[t] = "return" /\ p = "run"
         \/ pc[t] = "find" /\ p = "find" /\ want' = want
              /\ pcur'[t] \in chain \cup {Null}
         \/ pc[t] \in {"free", "clear", "drop"} /\ p \in {"free", "clear", "drop", "last"}
              /\ want' = want
  PROVE  ListInv'
<1>1. /\ \A u \in Contexts \ {t} : pc[u] \notin CallPlaces /\ pc'[u] \notin CallPlaces
      /\ pc'[t] = p /\ CallsExclusive'
  BY OnlyCall DEF ListInv
<1>2. \A u \in Contexts : pc[u] \notin {"advance", "fill"} /\ pc'[u] \notin {"advance", "fill"}
  BY <1>1 DEF CallPlaces
<1>3. Filled' = chain /\ Filled = chain
  BY <1>2 DEF Filled
<1>4. Links'
  BY <1>3 DEF ListInv, Links, LinkedOn, IsTop
<1>5. LastFacts'
  BY <1>1 DEF ListInv, LastFacts, IsTop, CallPlaces
<1>6. LastAtRest'
  <2>1. CASE p = "run"
    BY <2>1, <1>1 DEF ListInv, LastFacts, LastAtRest, IsTop
  <2>2. CASE p # "run"
    <3>1. p \in CallPlaces
      BY <2>2 DEF CallPlaces
    <3> QED
      BY <1>1, <3>1, InCallPlaces DEF LastAtRest, AtRest
  <2> QED
    BY <2>1, <2>2
<1> QED
  BY <1>1, <1>4, <1>5, <1>6 DEF ListInv

\* The slot linked is beyond every slot in use (allocate).
LEMMA LinkSlotList ==
  ASSUME MemTypeOK, ListInv, OneProcessor, CallsAlone, NEW t \in Contexts,
         NEW bytes \in Sizes, LinkSlot(t, bytes)
  PROVE  ListInv' /\ Filled' = Filled
<1> DEFINE l == plast_region
<1>0. "advance" \in Places /\ pc' = [pc EXCEPT ![t] = "advance"] /\ Enter(t)
  BY DEF Places, LinkSlot, Goto
<1>1. /\ AtRest /\ pc[t] \notin CallPlaces
      /\ \A u \in Contexts \ {t} : pc[u] \notin CallPlaces /\ pc'[u] \notin CallPlaces
      /\ pc'[t] = "advance" /\ CallsExclusive'
  BY <1>0, FirstCall
<1>2. /\ l \in Slots /\ l + 1 \in Slots /\ chain \subseteq Slots
      /\ next' = [next EXCEPT ![l] = l + 1] /\ prev' = [prev EXCEPT ![l + 1] = l]
      /\ chain' = chain \cup {l + 1} /\ plast_region' = l /\ startAddr' = startAddr /\ size' = size
  BY DEF LinkSlot, MemTypeOK, ListTypes, Slots
<1>3. next \in [Slots -> Slots \cup {Null}] /\ prev \in [Slots -> Slots \cup {Null}]
  BY DEF MemTypeOK, ListTypes
<1>4. l \in chain /\ IsTop(l) /\ Links
  BY <1>1 DEF ListInv, LastAtRest
<1> HIDE DEF l
<1>5. l + 1 \notin chain /\ l \in Nat /\ \A u \in chain : u \in Nat /\ u # l + 1
  BY <1>2, <1>4, SlotConstants DEF IsTop
<1>6. Filled = chain
  BY <1>1 DEF Filled, CallPlaces
<1>7. Filled' = chain
  <2>1. \A u \in Contexts : pc'[u] # "fill" /\ (pc'[u] = "advance" => u = t)
    BY <1>1 DEF CallPlaces
  <2>2. Filled' = {s \in chain' : s # l + 1}
    BY <1>1, <1>2, <2>1 DEF Filled
  <2> QED
    BY <1>2, <1>5, <2>2
<1>8. \A s \in chain : next'[s] = IF s = l THEN l + 1 ELSE next[s]
  BY <1>2, <1>3
<1>9. prev'[l + 1] = l /\ \A s \in chain : prev'[s] = prev[s]
  BY <1>2, <1>3, <1>5
<1>10. \A s \in chain : LinkedOn(s)'
  <2> TAKE s \in chain
  <2>1. CASE s = l
    <3>1. next'[s] = l + 1 /\ l + 1 # Null /\ l + 1 \in chain' /\ s < l + 1 /\ prev'[l + 1] = s
      BY <1>2, <1>5, <1>8, <1>9, <2>1 DEF Null
    <3>2. \A u \in chain' : u <= s \/ l + 1 <= u
      BY <1>2, <1>4, <1>5, <2>1 DEF IsTop
    <3> QED
      BY <3>1, <3>2 DEF LinkedOn
  <2>2. CASE s # l
    <3>1. LinkedOn(s) /\ next'[s] = next[s]
      BY <1>4, <1>6, <1>8, <2>2 DEF Links
    <3>2. next[s] # Null
      BY <1>4, <1>5, <2>2, <3>1 DEF LinkedOn, IsTop
    <3>3. /\ next[s] \in chain /\ s < next[s] /\ prev[next[s]] = s
          /\ \A u \in chain : u <= s \/ next[s] <= u
      BY <3>1, <3>2 DEF LinkedOn
    <3>4. next[s] <= l
      BY <1>4, <3>3 DEF IsTop
    <3>5. next[s] <= l + 1
      BY <1>5, <3>3, <3>4
    <3> QED
      BY <1>2, <1>9, <3>1, <3>2, <3>3, <3>5 DEF LinkedOn
  <2> QED
    BY <2>1, <2>2
<1>11. Links'
  <2>1. 0 \in chain' /\ startAddr'[0] = 0 /\ size'[0] = PAGE_SIZE
    BY <1>2, <1>4 DEF Links
  <2>2. ASSUME NEW s \in chain' \ {0} PROVE prev'[s] \in chain /\ next'[prev'[s]] = s
    <3>1. CASE s = l + 1
      BY <1>4, <1>8, <1>9, <3>1
    <3>2. CASE s \in chain
      <4>1. prev[s] \in chain /\ next[prev[s]] = s
        BY <1>4, <1>6, <3>2 DEF Links
      <4>2. prev[s] # l
        <5>1. LinkedOn(l)
          BY <1>4, <1>6 DEF Links
        <5>2. next[l] = Null
          <6> SUFFICES ASSUME next[l] # Null PROVE FALSE
            OBVIOUS
          <6>1. next[l] \in chain /\ l < next[l]
            BY <5>1 DEF LinkedOn
          <6>2. next[l] <= l /\ next[l] \in Nat
            BY <1>4, <1>5, <6>1 DEF IsTop
          <6> QED
            BY <1>5, <6>1, <6>2
        <5> QED
          BY <1>2, <3>2, <4>1, <5>2, SlotConstants
      <4> QED
        BY <1>8, <1>9, <3>2, <4>1, <4>2
    <3> QED
      BY <1>2, <3>1, <3>2
  <2> QED
    BY <1>7, <1>10, <2>1, <2>2 DEF Links
<1>12. LastFacts'
  <2>1. plast_region' \in chain' /\ l + 1 \in chain' /\ next'[l] = l + 1 /\ plast_region' = l
    BY <1>2, <1>4, <1>8
  <2>2. \A u \in chain' : u <= l + 1
    BY <1>2, <1>4, <1>5 DEF IsTop
  <2> QED
    BY <1>1, <2>1, <2>2 DEF LastFacts, CallPlaces, IsTop
<1>13. LastAtRest'
  BY <1>1, InCallPlaces DEF LastAtRest, AtRest, CallPlaces
<1> QED
  BY <1>1, <1>6, <1>7, <1>11, <1>12, <1>13 DEF ListInv

\* plast_region moves on to the slot just linked (allocate).
LEMMA AdvanceList ==
  ASSUME MemTypeOK, ListInv, NEW t \in Contexts, Advance(t)
  PROVE  ListInv' /\ Filled' = Filled
<1> DEFINE l == plast_region
<1>1. /\ pc[t] = "advance" /\ plast_region' = next[l] /\ pc' = [pc EXCEPT ![t] = "fill"]
      /\ UNCHANGED <<startAddr, size, next, prev, chain>>
  BY DEF Advance, At, Goto
<1>2. /\ \A u \in Contexts \ {t} : pc[u] \notin CallPlaces /\ pc'[u] \notin CallPlaces
      /\ pc'[t] = "fill" /\ CallsExclusive'
  <2>1. InCall(t) /\ "fill" \in Places
    BY <1>1, InCallPlaces DEF CallPlaces, Places
  <2> QED
    BY <1>1, <2>1, OnlyCall DEF ListInv
<1>3. /\ l + 1 \in chain /\ next[l] = l + 1 /\ IsTop(l + 1) /\ l \in Slots /\ chain \subseteq Slots
  BY <1>1 DEF ListInv, LastFacts, MemTypeOK, ListTypes
<1>4. Filled' = chain \ {l + 1} /\ Filled = chain \ {l + 1}
  <2>1. \A u \in Contexts : /\ pc[u] # "fill" /\ (pc[u] = "advance" => u = t)
                            /\ pc'[u] # "advance" /\ (pc'[u] = "fill" => u = t)
    BY <1>1, <1>2 DEF CallPlaces
  <2> QED
    BY <1>1, <1>2, <1>3, <2>1 DEF Filled
<1>5. Links'
  BY <1>1, <1>4 DEF ListInv, Links, LinkedOn, IsTop
<1>6. l + 1 # 0
  BY <1>3, SlotConstants
<1>7. LastFacts'
  BY <1>1, <1>2, <1>3, <1>6 DEF LastFacts, CallPlaces, IsTop
<1>8. LastAtRest'
  BY <1>2, InCallPlaces DEF LastAtRest, AtRest, CallPlaces
<1> QED
  BY <1>2, <1>4, <1>5, <1>7, <1>8 DEF ListInv

\* The new descriptor ends the list (allocate).
LEMMA FillSlotList ==
  ASSUME MemTypeOK, ListInv, NEW t \in Contexts, FillSlot(t)
  PROVE  ListInv' /\ Filled = chain \ {plast_region} /\ Filled' = chain
<1>0. PICK l : l = plast_region
  OBVIOUS
<1>1. /\ pc[t] = "fill" /\ pc' = [pc EXCEPT ![t] = "grow"]
      /\ startAddr' = [startAddr EXCEPT ![l] = region_size_total]
      /\ size' = [size EXCEPT ![l] = want[t]]
      /\ next' = [next EXCEPT ![l] = Null]
      /\ UNCHANGED <<plast_region, prev, chain>>
  BY <1>0 DEF FillSlot, At, Goto
<1>2. /\ \A u \in Contexts \ {t} : pc[u] \notin CallPlaces /\ pc'[u] \notin CallPlaces
      /\ pc'[t] = "grow" /\ CallsExclusive'
  <2>1. InCall(t) /\ "grow" \in Places
    BY <1>1, InCallPlaces DEF CallPlaces, Places
  <2> QED
    BY <1>1, <2>1, OnlyCall DEF ListInv
<1>3. /\ l \in chain \ {0} /\ IsTop(l) /\ Links
  BY <1>0, <1>1 DEF ListInv, LastFacts
<1>4. /\ next \in [Slots -> Slots \cup {Null}] /\ startAddr \in [Slots -> Int]
      /\ size \in [Slots -> Nat] /\ chain \subseteq Slots
  BY DEF MemTypeOK, ListTypes
<1>5. Filled' = chain /\ Filled = chain \ {l}
  <2>1. \A u \in Contexts : /\ pc[u] # "advance" /\ (pc[u] = "fill" => u = t)
                            /\ pc'[u] # "advance" /\ pc'[u] # "fill"
    BY <1>1, <1>2 DEF CallPlaces
  <2> QED
    BY <1>0, <1>1, <1>2, <1>3, <2>1 DEF Filled
<1>6. /\ next'[l] = Null /\ \A s \in chain \ {l} : next'[s] = next[s]
      /\ startAddr'[0] = startAddr[0] /\ size'[0] = size[0]
  BY <1>1, <1>3, <1>4, SlotConstants
<1>7. Links'
  <2>1. LinkedOn(l)'
    BY <1>1, <1>3, <1>6 DEF LinkedOn, IsTop
  <2>2. ASSUME NEW s \in chain \ {l} PROVE LinkedOn(s)'
    <3>1. LinkedOn(s) /\ next'[s] = next[s]
      BY <1>3, <1>5, <1>6 DEF Links
    <3> QED
      BY <1>1, <3>1 DEF LinkedOn, IsTop
  <2>3. ASSUME NEW s \in chain \ {0} PROVE prev[s] \in chain /\ next'[prev[s]] = s
    <3>1. prev[s] \in chain \ {l} /\ next[prev[s]] = s
      BY <1>3, <1>5 DEF Links
    <3> QED
      BY <1>6, <3>1
  <2> QED
    BY <1>1, <1>3, <1>5, <1>6, <2>1, <2>2, <2>3 DEF Links
<1>8. LastFacts'
  BY <1>0, <1>1, <1>2, <1>3 DEF LastFacts, CallPlaces, IsTop
<1>9. LastAtRest'
  BY <1>2, InCallPlaces DEF LastAtRest, AtRest, CallPlaces
<1> QED
  BY <1>0, <1>2, <1>5, <1>7, <1>8, <1>9 DEF ListInv

\* The descriptor's neighbours are joined (release).
LEMMA UnlinkList ==
  ASSUME MemTypeOK, ListInv, NEW t \in Contexts, Unlink(t)
  PROVE  ListInv' /\ Filled = chain /\ Filled' = chain'
<1>0. PICK s, a, b : s = pcur[t] /\ a = prev[s] /\ b = next[s]
  OBVIOUS
<1>1. /\ pc[t] = "find" /\ pc' = [pc EXCEPT ![t] = "free"] /\ s # Null /\ startAddr[s] = want[t]
      /\ next' = [next EXCEPT ![a] = b]
      /\ prev' = IF b # Null THEN [prev EXCEPT ![b] = a] ELSE prev
      /\ chain' = chain \ {s}
      /\ UNCHANGED <<plast_region, startAddr, size, want>>
  BY <1>0 DEF Unlink, At, Goto
<1>2. /\ \A u \in Contexts \ {t} : pc[u] \notin CallPlaces /\ pc'[u] \notin CallPlaces
      /\ pc'[t] = "free" /\ CallsExclusive'
  <2>1. InCall(t) /\ "free" \in Places
    BY <1>1, InCallPlaces DEF CallPlaces, Places
  <2> QED
    BY <1>1, <2>1, OnlyCall DEF ListInv
<1>3. Filled' = chain' /\ Filled = chain
  <2>1. \A u \in Contexts : /\ pc[u] \notin {"advance", "fill"} /\ pc'[u] \notin {"advance", "fill"}
    BY <1>1, <1>2 DEF CallPlaces
  <2> QED
    BY <2>1 DEF Filled
<1>4. /\ plast_region \in chain /\ IsTop(plast_region) /\ want[t] # 0 /\ s \in chain
      /\ Links
  BY <1>0, <1>1 DEF ListInv, LastFacts
<1>5. /\ next \in [Slots -> Slots \cup {Null}] /\ prev \in [Slots -> Slots \cup {Null}]
      /\ chain \subseteq Slots /\ chain \subseteq Nat
  BY SlotConstants DEF MemTypeOK, ListTypes
<1>6. s # 0 /\ a \in chain /\ next[a] = s /\ LinkedOn(a) /\ LinkedOn(s)
  BY <1>0, <1>1, <1>3, <1>4 DEF Links
<1>7. a < s /\ \A u \in chain : u <= a \/ s <= u
  BY <1>5, <1>6, <1>4, SlotConstants DEF LinkedOn
<1>8. a \in chain' /\ a # s
  BY <1>1, <1>5, <1>6, <1>7
<1>9. next'[a] = b /\ \A u \in chain \ {a} : next'[u] = next[u]
  BY <1>1, <1>5, <1>6
<1>10. ASSUME b = Null PROVE Links'
  <2>1. IsTop(s)
    BY <1>0, <1>6, <1>10 DEF LinkedOn
  <2>2. prev' = prev
    BY <1>1, <1>10
  <2>3. LinkedOn(a)'
    <3>1. \A u \in chain' : u <= a
      BY <1>1, <1>5, <1>7, <2>1, <1>4 DEF IsTop
    <3> QED
      BY <1>9, <1>10, <3>1 DEF LinkedOn, IsTop
  <2>4. ASSUME NEW u \in chain', u # a PROVE LinkedOn(u)'
    <3>1. u \in chain /\ u # s /\ next'[u] = next[u] /\ LinkedOn(u)
      BY <1>1, <1>3, <1>4, <1>9, <2>4 DEF Links
    <3>2. next[u] # s
      BY <1>5, <1>6, <2>4, <3>1, <1>4, SlotConstants DEF LinkedOn, Links
    <3> QED
      BY <1>1, <2>2, <3>1, <3>2 DEF LinkedOn, IsTop
  <2>5. ASSUME NEW u \in chain' \ {0} PROVE prev'[u] \in chain' /\ next'[prev'[u]] = u
    <3>1. u \in chain /\ u # s /\ prev[u] \in chain /\ next[prev[u]] = u
      BY <1>1, <1>3, <1>4 DEF Links
    <3>2. prev[u] # s
      BY <1>0, <1>5, <1>10, <3>1, SlotConstants
    <3>3. prev[u] # a
      BY <1>6, <3>1
    <3> QED
      BY <1>1, <1>9, <2>2, <3>1, <3>2, <3>3
  <2>6. 0 \in chain' /\ startAddr'[0] = 0 /\ size'[0] = PAGE_SIZE
    BY <1>1, <1>4, <1>6 DEF Links
  <2> QED
    BY <1>3, <2>3, <2>4, <2>5, <2>6 DEF Links
<1>11. ASSUME b # Null PROVE Links'
  <2>1. b \in chain /\ s < b /\ prev[b] = s /\ \A u \in chain : u <= s \/ b <= u
    BY <1>0, <1>6, <1>11 DEF LinkedOn
  <2>2. b \in chain' /\ b # s /\ prev'[b] = a /\ \A u \in chain \ {b} : prev'[u] = prev[u]
    <3>1. b # s /\ b \in chain'
      <4>1. b \in Nat /\ s \in Nat
        BY <1>4, <1>5, <2>1
      <4>2. b # s
        BY <2>1, <4>1
      <4> QED
        BY <1>1, <2>1, <4>2
    <3>2. prev' = [prev EXCEPT ![b] = a]
      BY <1>1, <1>11
    <3>3. b \in Slots /\ \A u \in chain : u \in Slots
      BY <1>5, <2>1
    <3>4. prev'[b] = a
      BY <1>5, <3>2, <3>3
    <3>5. \A u \in chain \ {b} : prev'[u] = prev[u]
      BY <1>5, <3>2, <3>3
    <3> QED
      BY <3>1, <3>4, <3>5
  <2>3. LinkedOn(a)'
    <3>1. a < b
      BY <1>5, <1>6, <1>7, <1>4, <2>1
    <3>2. \A u \in chain' : u <= a \/ b <= u
      BY <1>1, <1>5, <1>7, <2>1, <1>4
    <3> QED
      BY <1>9, <1>11, <2>2, <3>1, <3>2 DEF LinkedOn
  <2>4. ASSUME NEW u \in chain', u # a PROVE LinkedOn(u)'
    <3>1. u \in chain /\ u # s /\ next'[u] = next[u] /\ LinkedOn(u)
      BY <1>1, <1>3, <1>4, <1>9, <2>4 DEF Links
    <3>2. next[u] # s
      BY <1>5, <1>6, <2>4, <3>1, <1>4, SlotConstants DEF LinkedOn, Links
    <3>3. next[u] # b
      BY <1>5, <1>11, <2>1, <3>1, SlotConstants DEF LinkedOn
    <3> QED
      BY <1>1, <2>2, <3>1, <3>2, <3>3 DEF LinkedOn, IsTop
  <2>5. ASSUME NEW u \in chain' \ {0} PROVE prev'[u] \in chain' /\ next'[prev'[u]] = u
    <3>1. u \in chain /\ u # s /\ prev[u] \in chain /\ next[prev[u]] = u
      BY <1>1, <1>3, <1>4 DEF Links
    <3>2. CASE u = b
      BY <1>8, <1>9, <2>2, <3>2
    <3>3. CASE u # b
      <4>1. prev[u] # s
        BY <1>0, <3>1, <3>3
      <4>2. prev[u] # a
        BY <1>6, <3>1
      <4> QED
        BY <1>1, <1>9, <2>2, <3>1, <3>3, <4>1, <4>2
    <3> QED
      BY <3>2, <3>3
  <2>6. 0 \in chain' /\ startAddr'[0] = 0 /\ size'[0] = PAGE_SIZE
    BY <1>1, <1>4, <1>6 DEF Links
  <2> QED
    BY <1>3, <2>3, <2>4, <2>5, <2>6 DEF Links
<1>12. Links'
  BY <1>10, <1>11
<1>13. LastFacts'
  <2>1. \A u \in chain' : u <= plast_region'
    BY <1>1, <1>4 DEF IsTop
  <2>2. plast_region' \in chain' \/ startAddr'[plast_region'] = want'[t]
    BY <1>1, <1>4
  <2> QED
    BY <1>2, <2>1, <2>2 DEF LastFacts, CallPlaces, IsTop
<1>14. LastAtRest'
  BY <1>2, InCallPlaces DEF LastAtRest, AtRest, CallPlaces
<1> QED
  BY <1>2, <1>3, <1>12, <1>13, <1>14 DEF ListInv

\* The search for the new last region (release).
LEMMA CheckLastList ==
  ASSUME MemTypeOK, ListInv, NEW t \in Contexts, CheckLast(t)
  PROVE  ListInv'
<1>1. PICK p \in {"forward", "run"} :
        /\ pc' = [pc EXCEPT ![t] = p] /\ pc[t] = "last"
        /\ UNCHANGED <<startAddr, size, next, prev, chain>>
        /\ \/ p = "forward" /\ plast_region' = 0
           \/ p = "run" /\ plast_region' = plast_region /\ startAddr[plast_region] # want[t]
  BY DEF CheckLast, At, Goto, Leave
<1>2. /\ \A u \in Contexts \ {t} : pc[u] \notin CallPlaces /\ pc'[u] \notin CallPlaces
      /\ pc'[t] = p /\ CallsExclusive'
  <2>1. InCall(t) /\ p \in Places
    BY <1>1, InCallPlaces DEF CallPlaces, Places
  <2> QED
    BY <1>1, <2>1, OnlyCall DEF ListInv
<1>3. Filled' = chain /\ Filled = chain
  BY <1>1, <1>2 DEF Filled, CallPlaces
<1>4. Links'
  BY <1>1, <1>3 DEF ListInv, Links, LinkedOn, IsTop
<1>5. IsTop(plast_region) /\ (plast_region \in chain \/ startAddr[plast_region] = want[t])
  BY <1>1 DEF ListInv, LastFacts
<1>6. LastFacts'
  BY <1>1, <1>2 DEF ListInv, Links, LastFacts, CallPlaces
<1>7. LastAtRest'
  <2>1. CASE p = "run"
    BY <2>1, <1>1, <1>5 DEF LastAtRest, IsTop
  <2>2. CASE p = "forward"
    BY <2>2, <1>2, InCallPlaces DEF LastAtRest, AtRest, CallPlaces
  <2> QED
    BY <2>1, <2>2
<1> QED
  BY <1>2, <1>4, <1>6, <1>7 DEF ListInv

LEMMA ForwardList ==
  ASSUME MemTypeOK, ListInv, NEW t \in Contexts, Forward(t)
  PROVE  ListInv'
<1>1. PICK p \in {"forward", "run"} :
        /\ pc' = [pc EXCEPT ![t] = p] /\ pc[t] = "forward"
        /\ UNCHANGED <<startAddr, size, next, prev, chain>>
        /\ \/ p = "forward" /\ plast_region' = next[plast_region] /\ next[plast_region] # Null
           \/ p = "run" /\ plast_region' = plast_region /\ next[plast_region] = Null
  <2>1. pc[t] = "forward" => pc = [pc EXCEPT ![t] = "forward"]
    BY DEF MemTypeOK, CallTypes
  <2> QED
    BY <2>1 DEF Forward, At, Goto, Leave
<1>2. /\ \A u \in Contexts \ {t} : pc[u] \notin CallPlaces /\ pc'[u] \notin CallPlaces
      /\ pc'[t] = p /\ CallsExclusive'
  <2>1. InCall(t) /\ p \in Places
    BY <1>1, InCallPlaces DEF CallPlaces, Places
  <2> QED
    BY <1>1, <2>1, OnlyCall DEF ListInv
<1>3. Filled' = chain /\ Filled = chain
  BY <1>1, <1>2 DEF Filled, CallPlaces
<1>4. Links'
  BY <1>1, <1>3 DEF ListInv, Links, LinkedOn, IsTop
<1>5. plast_region \in chain /\ LinkedOn(plast_region)
  BY <1>1, <1>3 DEF ListInv, LastFacts, Links
<1>6. LastFacts'
  BY <1>1, <1>2, <1>5 DEF LastFacts, LinkedOn, CallPlaces
<1>7. LastAtRest'
  <2>1. CASE p = "run"
    BY <2>1, <1>1, <1>5 DEF LastAtRest, LinkedOn, IsTop
  <2>2. CASE p = "forward"
    BY <2>2, <1>2, InCallPlaces DEF LastAtRest, AtRest, CallPlaces
  <2> QED
    BY <2>1, <2>2
<1> QED
  BY <1>2, <1>4, <1>6, <1>7 DEF ListInv

\* A call of kfree begins.
LEMMA GiveBackList ==
  ASSUME MemTypeOK, ListInv, OneProcessor, CallsAlone, NEW t \in Contexts,
         NEW r \in held, GiveBack(t, r)
  PROVE  ListInv'
<1>1. /\ Enter(t) /\ pc' = [pc EXCEPT ![t] = "find"] /\ want'[t] # 0 /\ pcur'[t] = 0
      /\ UNCHANGED <<plast_region, startAddr, size, next, prev, chain>>
  BY DEF GiveBack, Goto, listVars, MemTypeOK, CallTypes
<1>2. /\ AtRest /\ pc[t] \notin CallPlaces
      /\ \A u \in Contexts \ {t} : pc[u] \notin CallPlaces /\ pc'[u] \notin CallPlaces
      /\ pc'[t] = "find" /\ CallsExclusive'
  <2>1. "find" \in Places
    BY DEF Places
  <2> QED
    BY <1>1, <2>1, FirstCall
<1>3. Filled' = chain /\ Filled = chain
  BY <1>1, <1>2 DEF Filled, CallPlaces
<1>4. Links'
  BY <1>1, <1>3 DEF ListInv, Links, LinkedOn, IsTop
<1>5. LastFacts'
  BY <1>1, <1>2 DEF ListInv, LastAtRest, Links, LastFacts, IsTop, CallPlaces
<1>6. LastAtRest'
  BY <1>2, InCallPlaces DEF LastAtRest, AtRest, CallPlaces
<1> QED
  BY <1>2, <1>4, <1>5, <1>6 DEF ListInv

\* The steps of the calls that leave the list as it is.
LEMMA CallStepsList ==
  ASSUME MemTypeOK, ListInv, NEW t \in Contexts,
         \/ Grow(t) \/ Return(t) \/ Seek(t) \/ ReadFrame(t) \/ release_frame(t)
         \/ ClearPte(t) \/ Shrink(t)
  PROVE  ListInv'
<1>1. CASE Seek(t)
  <2>1. /\ pc[t] = "find" /\ pcur[t] # Null /\ pcur' = [pcur EXCEPT ![t] = next[pcur[t]]]
        /\ pc' = pc /\ want' = want
        /\ UNCHANGED <<plast_region, startAddr, size, next, prev, chain>>
    BY <1>1 DEF Seek, At, listVars
  <2>2. pcur[t] \in chain
    BY <2>1 DEF ListInv, LastFacts
  <2>3. Filled = chain
    <3>1. \A u \in Contexts : pc[u] \notin {"advance", "fill"}
      BY <2>1, InCallPlaces DEF ListInv, CallsExclusive, CallPlaces
    <3> QED
      BY <3>1 DEF Filled
  <2>4. pcur'[t] \in chain \cup {Null}
    BY <2>1, <2>2, <2>3 DEF ListInv, Links, LinkedOn, MemTypeOK, CallTypes
  <2>5. pc' = [pc EXCEPT ![t] = "find"] /\ InCall(t) /\ "find" \in Places
    BY <2>1, InCallPlaces DEF MemTypeOK, CallTypes, CallPlaces, Places
  <2> QED
    BY <2>1, <2>4, <2>5, ListKept
<1>2. CASE ~Seek(t)
  <2>1. PICK p \in Places :
          /\ pc' = [pc EXCEPT ![t] = p]
          /\ UNCHANGED <<plast_region, startAddr, size, next, prev, chain>>
          /\ \/ pc[t] = "grow" /\ p = "return"
             \/ pc[t] = "return" /\ p = "run"
             \/ /\ pc[t] \in {"free", "clear", "drop"} /\ want' = want
                /\ p \in {"free", "clear", "drop", "last"}
    BY <1>2 DEF Grow, Return, ReadFrame, release_frame, ClearPte, Shrink, At, Goto, Leave,
                listVars, callVars, Places
  <2>2. InCall(t)
    BY <2>1, InCallPlaces DEF CallPlaces
  <2> QED
    BY <2>1, <2>2, ListKept
<1> QED
  BY <1>1, <1>2

LEMMA WriteStepsList ==
  ASSUME MemTypeOK, ListInv, NEW t \in Contexts, Write(t)
  PROVE  ListInv'
<1>1. /\ UNCHANGED <<plast_region, startAddr, size, next, prev, chain>>
      /\ \E p \in {"run", "store", "mark", "map"} : pc' = [pc EXCEPT ![t] = p]
      /\ pc[t] \in {"run", "store", "mark", "map"}
      /\ \A u \in Contexts \ {t} : want'[u] = want[u] /\ pcur'[u] = pcur[u]
  BY DEF Write, Touch, ScanBitmap, get_frame, handle_fault, Store, At, Goto, Leave, listVars,
         callVars, MemTypeOK, CallTypes
<1>2. \A u \in Contexts :
        \/ pc'[u] = pc[u] /\ want'[u] = want[u] /\ pcur'[u] = pcur[u]
        \/ pc[u] \notin CallPlaces /\ pc'[u] \notin CallPlaces
  BY <1>1 DEF MemTypeOK, CallTypes, CallPlaces
<1> QED
  BY <1>1, <1>2, ListUntouched

LEMMA StepList ==
  ASSUME MemTypeOK, ListInv, OneProcessor, CallsAlone, MemNext
  PROVE  ListInv'
<1>1. PICK t \in Contexts : allocate(t) \/ release(t) \/ Write(t)
  BY DEF MemNext
<1>2. CASE allocate(t)
  BY <1>2, LinkSlotList, AdvanceList, FillSlotList, CallStepsList DEF allocate
<1>3. CASE release(t)
  BY <1>3, GiveBackList, UnlinkList, CheckLastList, ForwardList, CallStepsList DEF release
<1>4. CASE Write(t)
  BY <1>4, WriteStepsList
<1> QED
  BY <1>1, <1>2, <1>3, <1>4

\* On one processor, when no call of kmalloc or kfree begins inside another, the
\* region list is a list in the order of the slots and plast_region is its end
\* between the calls (vm_pool.c: allocate, release).
THEOREM MemListInvariant ==
  ASSUME OneProcessor, CallsAlone
  PROVE  MemSpec => []ListInv
<1>1. MemInit => ListInv
  <2>1. SUFFICES ASSUME MemInit PROVE ListInv
    OBVIOUS
  <2>2. \A t \in Contexts : pc[t] = "run"
    BY <2>1 DEF MemInit
  <2>3. CallsExclusive /\ LastFacts
    BY <2>2, InCallPlaces DEF CallsExclusive, LastFacts, CallPlaces
  <2>4. Links
    BY <2>1, SlotConstants DEF MemInit, Links, Filled, LinkedOn, IsTop
  <2>5. LastAtRest
    BY <2>1 DEF MemInit, LastAtRest, IsTop
  <2> QED
    BY <2>3, <2>4, <2>5 DEF ListInv
<1>2. MemTypeOK /\ ListInv /\ [MemNext]_memVars => ListInv'
  <2>1. MemTypeOK /\ ListInv /\ UNCHANGED memVars => ListInv'
    BY ListUntouched DEF memVars, listVars, callVars
  <2> QED
    BY <2>1, StepList
<1> QED
  BY <1>1, <1>2, MemTypeCorrect, PTL DEF MemSpec

\* The slot after plast_region, which allocate() links next, is never one in use.
THEOREM MemDescriptorsDistinct ==
  ASSUME OneProcessor, CallsAlone
  PROVE  MemSpec => []DescriptorsDistinct
<1>1. ListInv => DescriptorsDistinct
  BY DEF ListInv, LastAtRest, AtRest, IsTop, DescriptorsDistinct
<1> QED
  BY <1>1, MemListInvariant, PTL

-----------------------------------------------------------------------------
(* Regions, as long as none has been freed from the middle.                  *)

\* Where a slot's region ends.
SlotEnd(s) == startAddr[s] + PagesFor(size[s])

\* The regions in use follow one another in the order of the slots ...
Packed ==
  /\ \A s \in Filled : size[s] # 0
  /\ \A s, u \in Filled : s < u => SlotEnd(s) <= startAddr[u]

\* ... and end before region_size_total, but while a call is about to change it.
TotalBounds == \A s \in Filled : SlotEnd(s) <= region_size_total
TotalPlaces == {"grow", "free", "clear", "drop"}
TotalFacts ==
  /\ (\A t \in Contexts : pc[t] \notin TotalPlaces) => TotalBounds
  /\ \A t \in Contexts :
       /\ pc[t] = "grow" => /\ startAddr[plast_region] = region_size_total
                            /\ \A s \in Filled \ {plast_region} : SlotEnd(s) <= region_size_total
       /\ pc[t] \in {"grow", "return"} => size[plast_region] = want[t]
       /\ pc[t] \in {"free", "clear", "drop"} =>
            /\ want[t] + pgnum[t] <= region_size_total
            /\ \A s \in Filled : SlotEnd(s) <= want[t]

\* A region that is held is that of a slot in use, and no two are of the same.
HeldFacts ==
  /\ \A r \in held : \E s \in Filled : startAddr[s] = r.start /\ PagesFor(size[s]) = r.pages
  /\ \A r, q \in held : r.start = q.start => r = q
  /\ \A t \in Contexts :
       /\ pc[t] \in {"grow", "return"} => \A r \in held : r.start # startAddr[plast_region]
       /\ pc[t] = "find" => \A r \in held : r.start # want[t]

Pack == Packed /\ TotalFacts /\ HeldFacts
PackInv == inOrder => Pack

PackPlaces == {"grow", "return", "find", "free", "clear", "drop"}

\* The slots in use are the linked ones when no call is between linking and filling.
LEMMA FilledSame ==
  ASSUME UNCHANGED chain,
         \A u \in Contexts : pc[u] \notin {"advance", "fill"} /\ pc'[u] \notin {"advance", "fill"}
  PROVE  Filled' = Filled /\ Filled = chain
BY DEF Filled

\* What is added to or subtracted from addresses is a number.
LEMMA SlotTypes ==
  ASSUME ListTypes
  PROVE  /\ Filled \subseteq chain /\ chain \subseteq Nat
         /\ \A s \in chain : /\ startAddr[s] \in Int /\ size[s] \in Nat
                             /\ PagesFor(size[s]) \in Nat /\ SlotEnd(s) \in Int
<1>1. Filled \subseteq chain /\ chain \subseteq Slots /\ chain \subseteq Nat
  BY SlotConstants DEF Filled, ListTypes
<1>2. ASSUME NEW s \in chain
      PROVE  /\ startAddr[s] \in Int /\ size[s] \in Nat
             /\ PagesFor(size[s]) \in Nat /\ SlotEnd(s) \in Int
  <2>1. startAddr[s] \in Int /\ size[s] \in Nat
    BY <1>1 DEF ListTypes
  <2>2. PagesFor(size[s]) \in Nat
    BY <2>1, PagesForType
  <2> QED
    BY <2>1, <2>2 DEF SlotEnd
<1> QED
  BY <1>1, <1>2

\* Steps that neither move regions nor change who holds them.
LEMMA PackUntouched ==
  ASSUME Pack, UNCHANGED <<startAddr, size, region_size_total, held>>, Filled' = Filled,
         \A u \in Contexts : pc'[u] \in PackPlaces =>
            /\ want'[u] = want[u] /\ pgnum'[u] = pgnum[u]
            /\ \/ pc[u] = pc'[u]
               \/ pc[u] \in {"free", "clear", "drop"} /\ pc'[u] \in {"free", "clear", "drop"},
         \A u \in Contexts : pc'[u] \in {"grow", "return"} => plast_region' = plast_region,
         \A u \in Contexts : pc[u] \in TotalPlaces => pc'[u] \in TotalPlaces
  PROVE  Pack'
<1>1. /\ \A s : SlotEnd(s)' = SlotEnd(s)
      /\ \A s : startAddr'[s] = startAddr[s] /\ size'[s] = size[s]
      /\ held' = held /\ region_size_total' = region_size_total
  BY DEF SlotEnd
<1>2. Packed'
  BY <1>1 DEF Pack, Packed
<1>3. TotalFacts'
  BY <1>1 DEF Pack, TotalFacts, TotalBounds, PackPlaces, TotalPlaces
<1>4. HeldFacts'
  BY <1>1 DEF Pack, HeldFacts, PackPlaces
<1> QED
  BY <1>2, <1>3, <1>4 DEF Pack

\* The steps of calls among these.
LEMMA CallStepsPack ==
  ASSUME MemTypeOK, ListInv, PackInv, NEW t \in Contexts,
         \/ Advance(t) \/ Seek(t) \/ ReadFrame(t) \/ release_frame(t) \/ ClearPte(t)
         \/ CheckLast(t) \/ Forward(t)
  PROVE  PackInv'
<1>1. PICK p \in Places :
        /\ pc' = [pc EXCEPT ![t] = p] /\ pc[t] \in CallPlaces
        /\ UNCHANGED <<startAddr, size, region_size_total, held, inOrder, chain>>
        /\ \/ pc[t] = "advance" /\ p = "fill" /\ Advance(t)
           \/ pc[t] = "find" /\ p = "find" /\ want' = want /\ pgnum' = pgnum
           \/ /\ pc[t] \in {"free", "clear", "drop"} /\ p \in {"free", "clear", "drop"}
              /\ want' = want /\ pgnum' = pgnum
           \/ pc[t] \in {"last", "forward"} /\ p \in {"forward", "run"}
  <2>1. CASE Advance(t)
    BY <2>1 DEF Advance, At, Goto, dataVars, CallPlaces, Places
  <2>2. CASE Seek(t)
    <3>1. pc' = [pc EXCEPT ![t] = "find"]
      BY <2>2 DEF Seek, At, MemTypeOK, CallTypes
    <3> QED
      BY <2>2, <3>1 DEF Seek, At, listVars, dataVars, CallPlaces, Places
  <2>3. CASE ReadFrame(t) \/ release_frame(t) \/ ClearPte(t)
    BY <2>3 DEF ReadFrame, release_frame, ClearPte, At, Goto, listVars, callVars, dataVars,
                CallPlaces, Places
  <2>4. CASE CheckLast(t)
    BY <2>4 DEF CheckLast, At, Goto, Leave, dataVars, CallPlaces, Places
  <2>5. CASE Forward(t)
    <3>1. pc[t] = "forward" => pc = [pc EXCEPT ![t] = "forward"]
      BY DEF MemTypeOK, CallTypes
    <3> QED
      BY <2>5, <3>1 DEF Forward, At, Goto, Leave, dataVars, CallPlaces, Places
  <2> QED
    BY <2>1, <2>2, <2>3, <2>4, <2>5
<1>2. /\ \A u \in Contexts \ {t} : pc[u] \notin CallPlaces /\ pc'[u] \notin CallPlaces
      /\ pc'[t] = p
  BY <1>1, InCallPlaces, OnlyCall DEF ListInv
<1>3. Filled' = Filled
  <2>1. CASE Advance(t)
    BY <2>1, AdvanceList
  <2>2. CASE pc[t] # "advance"
    BY <1>1, <1>2, <2>2, FilledSame DEF CallPlaces
  <2> QED
    BY <1>1, <2>1, <2>2
<1>4. SUFFICES ASSUME inOrder PROVE Pack'
  BY <1>1 DEF PackInv
<1>5. \A u \in Contexts : pc'[u] \in PackPlaces \cup TotalPlaces => u = t
  BY <1>2 DEF PackPlaces, TotalPlaces, CallPlaces
<1>6. \A u \in Contexts : pc'[u] \in PackPlaces =>
            /\ want'[u] = want[u] /\ pgnum'[u] = pgnum[u]
            /\ \/ pc[u] = pc'[u]
               \/ pc[u] \in {"free", "clear", "drop"} /\ pc'[u] \in {"free", "clear", "drop"}
  BY <1>1, <1>2, <1>5 DEF PackPlaces
<1>7. \A u \in Contexts : pc'[u] \notin {"grow", "return"}
  BY <1>1, <1>2 DEF CallPlaces
<1>8. \A u \in Contexts : pc[u] \in TotalPlaces => pc'[u] \in TotalPlaces
  BY <1>1, <1>2 DEF TotalPlaces, CallPlaces
<1> QED
  BY <1>1, <1>3, <1>4, <1>6, <1>7, <1>8, PackUntouched DEF PackInv

\* A call of kmalloc begins: the new slot is not in use yet.
LEMMA LinkSlotPack ==
  ASSUME MemTypeOK, ListInv, PackInv, OneProcessor, CallsAlone, NEW t \in Contexts,
         NEW bytes \in Sizes, LinkSlot(t, bytes)
  PROVE  PackInv'
<1>1. /\ Enter(t) /\ pc' = [pc EXCEPT ![t] = "advance"] /\ "advance" \in Places
      /\ UNCHANGED <<startAddr, size, region_size_total, held, inOrder>>
  BY DEF LinkSlot, Goto, dataVars, Places
<1>2. /\ \A u \in Contexts : pc[u] \notin CallPlaces
      /\ pc'[t] = "advance" /\ \A u \in Contexts \ {t} : pc'[u] \notin CallPlaces
  BY <1>1, FirstCall
<1>3. Filled' = Filled
  BY LinkSlotList
<1>4. SUFFICES ASSUME inOrder PROVE Pack'
  BY <1>1 DEF PackInv
<1>5. \A u \in Contexts : pc'[u] \notin PackPlaces /\ pc[u] \notin TotalPlaces
  BY <1>2 DEF PackPlaces, TotalPlaces, CallPlaces
<1>6. {"grow", "return"} \subseteq PackPlaces
  BY DEF PackPlaces
<1> QED
  BY <1>1, <1>3, <1>4, <1>5, <1>6, PackUntouched DEF PackInv

\* Stores and the data abort handler leave the regions alone.
LEMMA WriteStepsPack ==
  ASSUME MemTypeOK, ListInv, PackInv, NEW t \in Contexts, Write(t)
  PROVE  PackInv'
<1>1. /\ UNCHANGED <<plast_region, startAddr, size, region_size_total, chain, held, inOrder>>
      /\ \E p \in {"run", "store", "mark", "map"} : pc' = [pc EXCEPT ![t] = p]
      /\ pc[t] \in {"run", "store", "mark", "map"}
      /\ \A u \in Contexts \ {t} : want'[u] = want[u] /\ pgnum'[u] = pgnum[u]
  <2>1. want \in [Contexts -> Int] /\ pgnum \in [Contexts -> Nat]
    BY DEF MemTypeOK, CallTypes
  <2>2. CASE \E r \in held, p \in Pages : Touch(t, r, p)
    BY <2>1, <2>2 DEF Touch, At, Goto, listVars
  <2>3. CASE ScanBitmap(t) \/ get_frame(t) \/ handle_fault(t)
    BY <2>3 DEF ScanBitmap, get_frame, handle_fault, At, Goto, listVars, callVars, dataVars
  <2>4. CASE Store(t)
    BY <2>1, <2>4 DEF Store, At, Goto, Leave, listVars
  <2> QED
    BY <2>2, <2>3, <2>4 DEF Write
<1>2. /\ \A u \in Contexts \ {t} : pc'[u] = pc[u]
      /\ pc'[t] \in {"run", "store", "mark", "map"}
  BY <1>1 DEF MemTypeOK, CallTypes
<1>3. Filled' = Filled
  <2>1. \A u \in Contexts : /\ pc'[u] = "advance" <=> pc[u] = "advance"
                            /\ pc'[u] = "fill" <=> pc[u] = "fill"
    BY <1>1, <1>2
  <2> QED
    BY <1>1, <2>1 DEF Filled
<1>4. SUFFICES ASSUME inOrder PROVE Pack'
  BY <1>1 DEF PackInv
<1>5. \A u \in Contexts : pc[u] \in PackPlaces \cup TotalPlaces
                            \/ pc'[u] \in PackPlaces \cup TotalPlaces =>
        u # t /\ pc'[u] = pc[u] /\ want'[u] = want[u] /\ pgnum'[u] = pgnum[u]
  BY <1>1, <1>2 DEF PackPlaces, TotalPlaces
<1> QED
  BY <1>1, <1>3, <1>4, <1>5, PackUntouched DEF PackInv

\* The new region starts where the others end (allocate).
LEMMA FillSlotPack ==
  ASSUME MemTypeOK, ListInv, PackInv, NEW t \in Contexts, FillSlot(t)
  PROVE  PackInv'
<1>0. PICK l, n : l = plast_region /\ n = region_size_total
  OBVIOUS
<1>1. /\ pc[t] = "fill" /\ pc' = [pc EXCEPT ![t] = "grow"]
      /\ startAddr' = [startAddr EXCEPT ![l] = n]
      /\ size' = [size EXCEPT ![l] = want[t]]
      /\ UNCHANGED <<plast_region, region_size_total, chain, held, inOrder, want>>
  BY <1>0 DEF FillSlot, At, Goto, callVars, dataVars
<1>2. /\ \A u \in Contexts \ {t} : pc[u] \notin CallPlaces /\ pc'[u] \notin CallPlaces
      /\ pc'[t] = "grow"
  <2>1. InCall(t) /\ "grow" \in Places
    BY <1>1, InCallPlaces DEF CallPlaces, Places
  <2> QED
    BY <1>1, <2>1, OnlyCall DEF ListInv
<1>3. Filled = chain \ {l} /\ Filled' = chain /\ l \in chain /\ IsTop(l)
  BY <1>0, <1>1, FillSlotList DEF ListInv, LastFacts
<1>4. SUFFICES ASSUME inOrder PROVE Pack'
  BY <1>1 DEF PackInv
<1>5. /\ startAddr \in [Slots -> Int] /\ size \in [Slots -> Nat] /\ chain \subseteq Slots
      /\ n \in Int /\ want[t] \in Sizes /\ want[t] \in Nat \ {0}
  BY <1>0, <1>1 DEF MemTypeOK, ListTypes, CallTypes, Allocating
<1>6. /\ startAddr'[l] = n /\ size'[l] = want[t]
      /\ \A s \in chain \ {l} : startAddr'[s] = startAddr[s] /\ size'[s] = size[s]
  BY <1>1, <1>3, <1>5
<1>7. \A s \in chain \ {l} : SlotEnd(s)' = SlotEnd(s)
  BY <1>6 DEF SlotEnd
<1>8. \A s \in chain \ {l} : SlotEnd(s) <= n
  <2>1. \A u \in Contexts : pc[u] \notin TotalPlaces
    BY <1>1, <1>2 DEF TotalPlaces, CallPlaces
  <2> QED
    BY <1>0, <1>3, <1>4, <2>1 DEF PackInv, Pack, TotalFacts, TotalBounds
<1>9. Packed'
  <2>1. \A s \in chain : size'[s] # 0
    BY <1>3, <1>4, <1>5, <1>6 DEF PackInv, Pack, Packed
  <2>2. ASSUME NEW s \in chain, NEW u \in chain, s < u PROVE SlotEnd(s)' <= startAddr'[u]
    <3>1. s # l
      BY <1>3, <2>2, SlotTypes DEF IsTop, MemTypeOK
    <3>2. CASE u = l
      BY <1>6, <1>7, <1>8, <3>1, <3>2
    <3>3. CASE u # l
      BY <1>3, <1>4, <1>6, <1>7, <2>2, <3>1, <3>3 DEF PackInv, Pack, Packed
    <3> QED
      BY <3>2, <3>3
  <2> QED
    BY <1>3, <2>1, <2>2 DEF Packed
<1>10. TotalFacts'
  BY <1>0, <1>1, <1>2, <1>3, <1>6, <1>7, <1>8 DEF TotalFacts, TotalPlaces, CallPlaces
<1>11. HeldFacts'
  <2>1. ASSUME NEW r \in held
        PROVE  /\ \E s \in chain : startAddr'[s] = r.start /\ PagesFor(size[s])' = r.pages
               /\ r.start # n
    <3>1. PICK s \in chain \ {l} : startAddr[s] = r.start /\ PagesFor(size[s]) = r.pages
      BY <1>3, <1>4 DEF PackInv, Pack, HeldFacts
    <3>2. PagesFor(size[s]) \in Nat \ {0} /\ startAddr[s] \in Int
      BY <1>3, <1>4, <1>5, <3>1, PagesForPositive DEF PackInv, Pack, Packed
    <3>3. startAddr[s] + PagesFor(size[s]) <= n
      BY <1>8, <3>1 DEF SlotEnd
    <3>4. r.start # n
      BY <1>5, <3>1, <3>2, <3>3
    <3> QED
      BY <1>6, <3>1, <3>4
  <2> QED
    BY <1>0, <1>1, <1>2, <1>3, <1>4, <1>6, <2>1 DEF PackInv, Pack, HeldFacts, CallPlaces
<1> QED
  BY <1>9, <1>10, <1>11 DEF Pack

\* The total is the new region's end (allocate).
LEMMA GrowPack ==
  ASSUME MemTypeOK, ListInv, PackInv, NEW t \in Contexts, Grow(t)
  PROVE  PackInv'
<1>1. /\ pc[t] = "grow" /\ pc' = [pc EXCEPT ![t] = "return"]
      /\ region_size_total' = region_size_total + PagesFor(want[t])
      /\ UNCHANGED <<plast_region, startAddr, size, chain, held, inOrder, want>>
  BY DEF Grow, At, Goto, callVars, dataVars
<1>2. /\ \A u \in Contexts \ {t} : pc[u] \notin CallPlaces /\ pc'[u] \notin CallPlaces
      /\ pc'[t] = "return"
  <2>1. InCall(t) /\ "return" \in Places
    BY <1>1, InCallPlaces DEF CallPlaces, Places
  <2> QED
    BY <1>1, <2>1, OnlyCall DEF ListInv
<1>3. Filled' = Filled
  BY <1>1, <1>2, FilledSame DEF CallPlaces
<1>4. SUFFICES ASSUME inOrder PROVE Pack'
  BY <1>1 DEF PackInv
<1>5. /\ \A s : SlotEnd(s)' = SlotEnd(s)
      /\ \A s : startAddr'[s] = startAddr[s] /\ size'[s] = size[s]
  BY <1>1 DEF SlotEnd
<1>6. TotalBounds'
  <2>1. /\ startAddr[plast_region] = region_size_total /\ size[plast_region] = want[t]
        /\ \A s \in Filled \ {plast_region} : SlotEnd(s) <= region_size_total
    BY <1>1, <1>4 DEF PackInv, Pack, TotalFacts
  <2>2. SlotEnd(plast_region) = region_size_total'
    BY <1>1, <2>1 DEF SlotEnd
  <2>3. region_size_total \in Int /\ want[t] \in Nat /\ PagesFor(want[t]) \in Nat
    BY <1>1, PagesForType DEF MemTypeOK, ListTypes, CallTypes, Allocating
  <2>4. \A s \in Filled : SlotEnd(s) \in Int
    BY SlotTypes DEF MemTypeOK
  <2> QED
    BY <1>1, <1>3, <1>5, <2>1, <2>2, <2>3, <2>4 DEF TotalBounds
<1>7. Packed'
  BY <1>3, <1>4, <1>5 DEF PackInv, Pack, Packed
<1>8. TotalFacts'
  BY <1>1, <1>2, <1>4, <1>5, <1>6 DEF PackInv, Pack, TotalFacts, CallPlaces
<1>9. HeldFacts'
  BY <1>1, <1>2, <1>3, <1>4, <1>5 DEF PackInv, Pack, HeldFacts, CallPlaces
<1> QED
  BY <1>7, <1>8, <1>9 DEF Pack

\* The new region is handed out (allocate).
LEMMA ReturnPack ==
  ASSUME MemTypeOK, ListInv, PackInv, NEW t \in Contexts, Return(t)
  PROVE  PackInv'
<1> DEFINE new == [id |-> FreshId, start |-> startAddr[plast_region],
                   pages |-> PagesFor(want[t])]
<1>1. /\ pc[t] = "return" /\ pc' = [pc EXCEPT ![t] = "run"] /\ held' = held \cup {new}
      /\ UNCHANGED <<plast_region, startAddr, size, region_size_total, chain, inOrder>>
  BY DEF Return, At, Goto, Leave, listVars
<1>2. /\ \A u \in Contexts : pc'[u] \notin CallPlaces
      /\ \A u \in Contexts \ {t} : pc[u] \notin CallPlaces
  <2>1. InCall(t) /\ "run" \in Places
    BY <1>1, InCallPlaces DEF CallPlaces, Places
  <2>2. "run" \notin CallPlaces
    BY DEF CallPlaces
  <2> QED
    BY <1>1, <2>1, <2>2, OnlyCall DEF ListInv
<1>3. Filled' = Filled /\ Filled = chain /\ plast_region \in chain
  BY <1>1, <1>2, FilledSame DEF CallPlaces, ListInv, LastFacts
<1>4. SUFFICES ASSUME inOrder PROVE Pack'
  BY <1>1 DEF PackInv
<1>5. /\ \A s : SlotEnd(s)' = SlotEnd(s)
      /\ \A s : startAddr'[s] = startAddr[s] /\ size'[s] = size[s]
  BY <1>1 DEF SlotEnd
<1>6. TotalBounds
  BY <1>1, <1>2, <1>4 DEF PackInv, Pack, TotalFacts, TotalPlaces, CallPlaces
<1>7. Packed'
  BY <1>3, <1>4, <1>5 DEF PackInv, Pack, Packed
<1>8. TotalFacts'
  BY <1>1, <1>2, <1>3, <1>5, <1>6 DEF TotalFacts, TotalBounds, CallPlaces
<1>9. HeldFacts'
  <2>1. /\ new.start = startAddr[plast_region] /\ new.pages = PagesFor(size[plast_region])
        /\ \A r \in held : r.start # new.start
    BY <1>1, <1>4 DEF PackInv, Pack, TotalFacts, HeldFacts
  <2> HIDE DEF new
  <2>2. \A r \in held' : \E s \in Filled : startAddr[s] = r.start /\ PagesFor(size[s]) = r.pages
    BY <1>1, <1>3, <1>4, <2>1 DEF PackInv, Pack, HeldFacts
  <2>3. \A r, q \in held' : r.start = q.start => r = q
    BY <1>1, <1>4, <2>1 DEF PackInv, Pack, HeldFacts
  <2> QED
    BY <1>1, <1>2, <1>3, <2>2, <2>3 DEF HeldFacts, CallPlaces
<1> QED
  BY <1>7, <1>8, <1>9 DEF Pack

\* A region is given back; the others start elsewhere (release).
LEMMA GiveBackPack ==
  ASSUME MemTypeOK, ListInv, PackInv, OneProcessor, CallsAlone, NEW t \in Contexts,
         NEW r \in held, GiveBack(t, r)
  PROVE  PackInv'
<1>1. /\ Enter(t) /\ pc' = [pc EXCEPT ![t] = "find"] /\ want'[t] = r.start
      /\ held' = held \ {r}
      /\ UNCHANGED <<plast_region, startAddr, size, region_size_total, chain, inOrder>>
  BY DEF GiveBack, Goto, listVars, MemTypeOK, CallTypes
<1>2. /\ \A u \in Contexts : pc[u] \notin CallPlaces
      /\ \A u \in Contexts \ {t} : pc'[u] \notin CallPlaces
      /\ pc'[t] = "find"
  <2>1. "find" \in Places
    BY DEF Places
  <2> QED
    BY <1>1, <2>1, FirstCall
<1>3. Filled' = Filled
  BY <1>1, <1>2, FilledSame DEF CallPlaces
<1>4. SUFFICES ASSUME inOrder PROVE Pack'
  BY <1>1 DEF PackInv
<1>5. /\ \A s : SlotEnd(s)' = SlotEnd(s)
      /\ \A s : startAddr'[s] = startAddr[s] /\ size'[s] = size[s]
  BY <1>1 DEF SlotEnd
<1>6. TotalBounds
  BY <1>2, <1>4 DEF PackInv, Pack, TotalFacts, TotalPlaces, CallPlaces
<1>7. Packed'
  BY <1>3, <1>4, <1>5 DEF PackInv, Pack, Packed
<1>8. TotalFacts'
  BY <1>1, <1>2, <1>3, <1>5, <1>6 DEF TotalFacts, TotalBounds, CallPlaces
<1>9. HeldFacts'
  BY <1>1, <1>2, <1>3, <1>4, <1>5 DEF PackInv, Pack, HeldFacts, CallPlaces
<1> QED
  BY <1>7, <1>8, <1>9 DEF Pack

\* The region that is freed was the last: the others end where it starts (release).
LEMMA UnlinkPack ==
  ASSUME MemTypeOK, ListInv, PackInv, NEW t \in Contexts, Unlink(t)
  PROVE  PackInv'
<1>0. PICK s : s = pcur[t]
  OBVIOUS
<1>1. /\ pc[t] = "find" /\ pc' = [pc EXCEPT ![t] = "free"]
      /\ s # Null /\ startAddr[s] = want[t] /\ chain' = chain \ {s}
      /\ inOrder' = (inOrder /\ next[s] = Null) /\ pgnum'[t] = PagesFor(size[s])
      /\ UNCHANGED <<plast_region, startAddr, size, region_size_total, held, want>>
  BY <1>0 DEF Unlink, At, Goto, dataVars, MemTypeOK, CallTypes
<1>2. /\ \A u \in Contexts \ {t} : pc[u] \notin CallPlaces /\ pc'[u] \notin CallPlaces
      /\ pc'[t] = "free"
  <2>1. InCall(t) /\ "free" \in Places
    BY <1>1, InCallPlaces DEF CallPlaces, Places
  <2> QED
    BY <1>1, <2>1, OnlyCall DEF ListInv
<1>3. Filled = chain /\ Filled' = chain \ {s} /\ s \in chain
  BY <1>0, <1>1, UnlinkList DEF ListInv, LastFacts
<1>4. SUFFICES ASSUME inOrder, next[s] = Null PROVE Pack'
  BY <1>1 DEF PackInv
<1>5. /\ \A u : SlotEnd(u)' = SlotEnd(u)
      /\ \A u : startAddr'[u] = startAddr[u] /\ size'[u] = size[u]
  BY <1>1 DEF SlotEnd
<1>6. \A u \in chain \ {s} : u < s
  <2>1. IsTop(s)
    BY <1>3, <1>4 DEF ListInv, Links, LinkedOn
  <2> QED
    BY <1>3, <2>1, SlotTypes DEF IsTop, MemTypeOK
<1>7. SlotEnd(s) <= region_size_total
  BY <1>1, <1>2, <1>3, <1>4 DEF PackInv, Pack, TotalFacts, TotalBounds, TotalPlaces, CallPlaces
<1>8. Packed'
  BY <1>3, <1>4, <1>5 DEF PackInv, Pack, Packed
<1>9. TotalFacts'
  <2>1. want[t] + PagesFor(size[s]) <= region_size_total
    BY <1>1, <1>7 DEF SlotEnd
  <2>2. \A u \in chain \ {s} : SlotEnd(u) <= want[t]
    BY <1>1, <1>3, <1>4, <1>6 DEF PackInv, Pack, Packed
  <2> QED
    BY <1>1, <1>2, <1>3, <1>5, <2>1, <2>2 DEF TotalFacts, TotalPlaces, CallPlaces
<1>10. HeldFacts'
  <2>1. \A r \in held : \E u \in chain \ {s} : startAddr[u] = r.start /\ PagesFor(size[u]) = r.pages
    BY <1>1, <1>3, <1>4 DEF PackInv, Pack, HeldFacts
  <2> QED
    BY <1>1, <1>2, <1>3, <1>4, <2>1 DEF PackInv, Pack, HeldFacts, CallPlaces
<1> QED
  BY <1>8, <1>9, <1>10 DEF Pack

\* The total shrinks to no less than where the region started (release).
LEMMA ShrinkPack ==
  ASSUME MemTypeOK, ListInv, PackInv, NEW t \in Contexts, Shrink(t)
  PROVE  PackInv'
<1>1. /\ pc[t] = "free" /\ pc' = [pc EXCEPT ![t] = "last"]
      /\ region_size_total' = region_size_total - pgnum[t]
      /\ UNCHANGED <<plast_region, startAddr, size, chain, held, inOrder>>
  BY DEF Shrink, At, Goto, dataVars
<1>2. /\ \A u \in Contexts \ {t} : pc[u] \notin CallPlaces /\ pc'[u] \notin CallPlaces
      /\ pc'[t] = "last"
  <2>1. InCall(t) /\ "last" \in Places
    BY <1>1, InCallPlaces DEF CallPlaces, Places
  <2> QED
    BY <1>1, <2>1, OnlyCall DEF ListInv
<1>3. Filled' = Filled
  BY <1>1, <1>2, FilledSame DEF CallPlaces
<1>4. SUFFICES ASSUME inOrder PROVE Pack'
  BY <1>1 DEF PackInv
<1>5. /\ \A s : SlotEnd(s)' = SlotEnd(s)
      /\ \A s : startAddr'[s] = startAddr[s] /\ size'[s] = size[s]
  BY <1>1 DEF SlotEnd
<1>6. TotalBounds'
  <2>1. /\ want[t] + pgnum[t] <= region_size_total
        /\ \A s \in Filled : SlotEnd(s) <= want[t]
    BY <1>1, <1>4 DEF PackInv, Pack, TotalFacts
  <2>2. region_size_total \in Int /\ want[t] \in Int /\ pgnum[t] \in Nat
    BY DEF MemTypeOK, ListTypes, CallTypes
  <2>3. want[t] <= region_size_total'
    BY <1>1, <2>1, <2>2
  <2>4. region_size_total' \in Int /\ \A s \in Filled : SlotEnd(s) \in Int
    BY <1>1, <2>2, SlotTypes DEF MemTypeOK
  <2> QED
    BY <1>3, <1>5, <2>1, <2>2, <2>3, <2>4 DEF TotalBounds
<1>7. Packed'
  BY <1>3, <1>4, <1>5 DEF PackInv, Pack, Packed
<1>8. TotalFacts'
  BY <1>2, <1>6 DEF TotalFacts, CallPlaces
<1>9. HeldFacts'
  BY <1>1, <1>2, <1>3, <1>4, <1>5 DEF PackInv, Pack, HeldFacts, CallPlaces
<1> QED
  BY <1>7, <1>8, <1>9 DEF Pack

LEMMA StepPack ==
  ASSUME MemTypeOK, ListInv, PackInv, OneProcessor, CallsAlone, MemNext
  PROVE  PackInv'
<1>1. PICK t \in Contexts : allocate(t) \/ release(t) \/ Write(t)
  BY DEF MemNext
<1>2. CASE allocate(t)
  BY <1>2, LinkSlotPack, CallStepsPack, FillSlotPack, GrowPack, ReturnPack DEF allocate
<1>3. CASE release(t)
  BY <1>3, GiveBackPack, UnlinkPack, ShrinkPack, CallStepsPack DEF release
<1>4. CASE Write(t)
  BY <1>4, WriteStepsPack
<1> QED
  BY <1>1, <1>2, <1>3, <1>4

\* Between any two steps of kmalloc and kfree, and until a region is freed from the
\* middle, the regions lie one behind the other in the order of their slots and end
\* where region_size_total says (allocate, release).
THEOREM MemPackInvariant ==
  ASSUME OneProcessor, CallsAlone
  PROVE  MemSpec => []PackInv
<1>1. MemInit => PackInv
  <2> SUFFICES ASSUME MemInit PROVE Pack
    BY DEF PackInv
  <2>1. \A t \in Contexts : pc[t] = "run"
    BY DEF MemInit
  <2>2. Filled = {0} /\ startAddr[0] = 0 /\ size[0] = PAGE_SIZE /\ region_size_total = 1
    BY <2>1, SlotConstants DEF MemInit, Filled
  <2>3. SlotEnd(0) = 1
    BY <2>2 DEF SlotEnd, PagesFor
  <2>4. Packed
    BY <2>2 DEF Packed
  <2>5. TotalFacts
    BY <2>1, <2>2, <2>3 DEF TotalFacts, TotalBounds
  <2>6. HeldFacts
    BY <2>1 DEF MemInit, HeldFacts
  <2> QED
    BY <2>4, <2>5, <2>6 DEF Pack
<1>2. MemTypeOK /\ ListInv /\ PackInv /\ [MemNext]_memVars => PackInv'
  <2>1. ASSUME PackInv, UNCHANGED memVars PROVE PackInv'
    <3>1. Filled' = Filled
      BY <2>1 DEF memVars, listVars, Filled
    <3>2. UNCHANGED <<plast_region, startAddr, size, region_size_total, held, inOrder, pc, want,
                      pgnum>>
      BY <2>1 DEF memVars, listVars, callVars, dataVars
    <3>3. Pack => Pack'
      BY <3>1, <3>2, PackUntouched
    <3> QED
      BY <2>1, <3>2, <3>3 DEF PackInv
  <2> QED
    BY <2>1, StepPack
<1> QED
  BY <1>1, <1>2, MemTypeCorrect, MemListInvariant, PTL DEF MemSpec

\* Regions of slots in use share no page.
LEMMA PackApart ==
  ASSUME MemTypeOK, Pack
  PROVE  Apart
<1>1. SUFFICES ASSUME NEW r \in held, NEW q \in held, r # q
              PROVE  PagesOf(r.start, r.pages) \cap PagesOf(q.start, q.pages) = {}
  BY DEF Apart
<1>2. PICK s \in Filled : startAddr[s] = r.start /\ PagesFor(size[s]) = r.pages
  BY DEF Pack, HeldFacts
<1>3. PICK u \in Filled : startAddr[u] = q.start /\ PagesFor(size[u]) = q.pages
  BY DEF Pack, HeldFacts
<1>4. s # u
  BY <1>1, <1>2, <1>3 DEF Pack, HeldFacts
<1>5. s < u \/ u < s
  BY <1>4, SlotTypes DEF MemTypeOK
<1>6. r.start + r.pages <= q.start \/ q.start + q.pages <= r.start
  BY <1>2, <1>3, <1>5 DEF Pack, Packed, SlotEnd
<1>7. r.start \in Int /\ r.pages \in Nat /\ q.start \in Int /\ q.pages \in Nat
  BY DEF MemTypeOK, CallTypes
<1> QED
  BY <1>6, <1>7 DEF PagesOf

\* Until a region is freed from the middle, regions that are held share no page,
\* however the calls of several tasks follow one another (allocate, release).
THEOREM MemRegionsDisjoint ==
  ASSUME OneProcessor, CallsAlone
  PROVE  MemSpec => []RegionsDisjoint
<1>1. MemTypeOK /\ PackInv => RegionsDisjoint
  BY PackApart DEF PackInv, RegionsDisjoint
<1> QED
  BY <1>1, MemTypeCorrect, MemPackInvariant, PTL

-----------------------------------------------------------------------------
(* What clients wrote.                                                       *)

\* There is a name for the region being allocated.
Named ==
  /\ IsFiniteSet(held) /\ \A r \in held : r.id \in Ids
  /\ \A t \in Contexts : Allocating(t) => Cardinality(held) < MaxRegions
NamesUnique == \A r, q \in held : r.id = q.id => r = q

\* A page is written through a region that is held.
Owned(w) == /\ w[2] \in Pages
            /\ \E r \in held : w[1] = r.id /\ w[2] \in PagesOf(r.start, r.pages)
Writing == {"store", "mark", "map"}
WritesOwned ==
  /\ via \in [Contexts -> Int]
  /\ \A w \in wrote : Owned(w)
  /\ \A t \in Contexts : pc[t] \in Writing => Owned(<<via[t], want[t]>>)

NameInv == Named /\ NamesUnique /\ WritesOwned

\* While regions are fewer than their names, one is left (allocate).
LEMMA NameLeft ==
  ASSUME IsFiniteSet(held), Cardinality(held) < MaxRegions
  PROVE  FreshId \in Ids /\ \A r \in held : r.id # FreshId
<1> DEFINE names == {r.id : r \in held}
           name == [r \in held |-> r.id]
<1>1. name \in Surjection(held, names)
  BY DEF Surjection
<1> HIDE DEF name
<1>2. IsFiniteSet(names) /\ Cardinality(names) <= Cardinality(held)
  BY <1>1, FS_Surjection
<1>3. Cardinality(Ids) = MaxRegions /\ MaxRegions \in Nat
  <2>1. MaxRegions \in Nat
    OBVIOUS
  <2>2. Cardinality(1..MaxRegions) = IF 1 > MaxRegions THEN 0 ELSE MaxRegions - 1 + 1
    BY <2>1, FS_Interval
  <2> QED
    BY <2>1, <2>2 DEF Ids
<1>4. Cardinality(held) \in Nat /\ Cardinality(names) \in Nat
  BY <1>2, FS_CardinalityType
<1>5. ~(Ids \subseteq names)
  <2>1. ASSUME Ids \subseteq names PROVE Cardinality(Ids) <= Cardinality(names)
    BY <1>2, <2>1, FS_Subset
  <2> QED
    BY <1>2, <1>3, <1>4, <2>1
<1>6. \E id \in Ids : \A r \in held : r.id # id
  BY <1>5
<1> QED
  BY <1>6 DEF FreshId

\* Steps that leave the regions and what was written through them alone.
LEMMA NamesUntouched ==
  ASSUME NameInv, UNCHANGED <<held, wrote, via>>,
         \A u \in Contexts : pc'[u] \in Writing => pc[u] \in Writing /\ want'[u] = want[u],
         \A u \in Contexts : Allocating(u)' => Allocating(u)
  PROVE  NameInv'
<1>1. Named' /\ NamesUnique'
  BY DEF NameInv, Named, NamesUnique
<1>2. \A w : Owned(w)' <=> Owned(w)
  BY DEF Owned
<1>3. \A u \in Contexts : pc'[u] \in Writing => Owned(<<via[u], want[u]>>)'
  <2> SUFFICES ASSUME NEW u \in Contexts, pc'[u] \in Writing
               PROVE  Owned(<<via[u], want[u]>>)'
    OBVIOUS
  <2>1. Owned(<<via'[u], want'[u]>>)
    BY DEF NameInv, WritesOwned
  <2> QED
    BY <2>1 DEF Owned
<1>4. WritesOwned'
  BY <1>2, <1>3 DEF NameInv, WritesOwned
<1> QED
  BY <1>1, <1>4 DEF NameInv

\* The calls give a new region a name of its own, and forget the writes through one
\* given back.
LEMMA LinkSlotNames ==
  ASSUME MemTypeOK, NameInv, OneProcessor, CallsAlone, NEW t \in Contexts,
         NEW bytes \in Sizes, LinkSlot(t, bytes)
  PROVE  NameInv'
<1>1. /\ Enter(t) /\ pc' = [pc EXCEPT ![t] = "advance"] /\ "advance" \in Places
      /\ RegionsBounded /\ UNCHANGED <<held, wrote, via>>
      /\ \A u \in Contexts \ {t} : want'[u] = want[u]
  BY DEF LinkSlot, Goto, dataVars, Places, MemTypeOK, CallTypes
<1>2. AtRest /\ pc'[t] = "advance" /\ \A u \in Contexts \ {t} : pc'[u] = pc[u]
  BY <1>1, FirstCall DEF MemTypeOK, CallTypes
<1>3. Cardinality(held) < MaxRegions
  <2>1. Cardinality({u \in Contexts : Allocating(u)}) = 0
    <3>1. {u \in Contexts : Allocating(u)} = {}
      BY <1>2 DEF AtRest, InCall
    <3> QED
      BY <3>1, FS_EmptySet
  <2>2. Cardinality(held) \in Nat
    BY FS_CardinalityType DEF NameInv, Named
  <2> QED
    BY <1>1, <2>1, <2>2 DEF RegionsBounded
<1>4. Named'
  BY <1>1, <1>3 DEF NameInv, Named
<1>5. NamesUnique'
  BY <1>1 DEF NameInv, NamesUnique
<1>6. WritesOwned'
  BY <1>1, <1>2 DEF NameInv, WritesOwned, Owned, Writing
<1> QED
  BY <1>4, <1>5, <1>6 DEF NameInv

LEMMA ReturnNames ==
  ASSUME MemTypeOK, ListInv, NameInv, NEW t \in Contexts, Return(t)
  PROVE  NameInv'
<1> DEFINE new == [id |-> FreshId, start |-> startAddr[plast_region],
                   pages |-> PagesFor(want[t])]
<1>1. /\ pc[t] = "return" /\ pc' = [pc EXCEPT ![t] = "run"] /\ held' = held \cup {new}
      /\ UNCHANGED <<wrote, via>> /\ \A u \in Contexts \ {t} : want'[u] = want[u]
  BY DEF Return, At, Goto, Leave, MemTypeOK, CallTypes
<1>2. /\ \A u \in Contexts : pc'[u] \notin CallPlaces
      /\ pc'[t] = "run" /\ \A u \in Contexts \ {t} : pc'[u] = pc[u]
  <2>1. InCall(t) /\ "run" \in Places
    BY <1>1, InCallPlaces DEF CallPlaces, Places
  <2>2. "run" \notin CallPlaces
    BY DEF CallPlaces
  <2> QED
    BY <1>1, <2>1, <2>2, OnlyCall DEF ListInv, MemTypeOK, CallTypes
<1>3. FreshId \in Ids /\ \A r \in held : r.id # FreshId
  <2>1. IsFiniteSet(held) /\ Cardinality(held) < MaxRegions
    BY <1>1 DEF NameInv, Named, Allocating
  <2> QED
    BY <2>1, NameLeft
<1>4. new.id = FreshId
  OBVIOUS
<1> HIDE DEF new
<1>5. Named'
  <2>1. IsFiniteSet(held')
    BY <1>1, FS_AddElement DEF NameInv, Named
  <2>2. \A u \in Contexts : ~Allocating(u)'
    BY <1>2, InCallPlaces DEF InCall
  <2> QED
    BY <1>1, <1>3, <1>4, <2>1, <2>2 DEF NameInv, Named
<1>6. NamesUnique'
  BY <1>1, <1>3, <1>4 DEF NameInv, NamesUnique
<1>7. WritesOwned'
  BY <1>1, <1>2 DEF NameInv, WritesOwned, Owned, Writing
<1> QED
  BY <1>5, <1>6, <1>7 DEF NameInv

LEMMA GiveBackNames ==
  ASSUME MemTypeOK, NameInv, OneProcessor, CallsAlone, NEW t \in Contexts,
         NEW r \in held, GiveBack(t, r)
  PROVE  NameInv'
<1>1. /\ Enter(t) /\ pc' = [pc EXCEPT ![t] = "find"] /\ "find" \in Places
      /\ held' = held \ {r} /\ wrote' = {w \in wrote : w[1] # r.id} /\ via' = via
      /\ \A u \in Contexts : via[u] # r.id
      /\ \A u \in Contexts \ {t} : want'[u] = want[u]
  BY DEF GiveBack, Goto, Places, MemTypeOK, CallTypes
<1>2. AtRest /\ pc'[t] = "find" /\ \A u \in Contexts \ {t} : pc'[u] = pc[u]
  BY <1>1, FirstCall DEF MemTypeOK, CallTypes
<1>3. Named'
  <2>1. IsFiniteSet(held')
    BY <1>1, FS_RemoveElement DEF NameInv, Named
  <2>2. \A u \in Contexts : ~Allocating(u)'
    BY <1>2 DEF AtRest, InCall, Allocating
  <2> QED
    BY <1>1, <2>1, <2>2 DEF NameInv, Named
<1>4. NamesUnique'
  BY <1>1 DEF NameInv, NamesUnique
<1>5. WritesOwned'
  BY <1>1, <1>2 DEF NameInv, WritesOwned, Owned, Writing
<1> QED
  BY <1>3, <1>4, <1>5 DEF NameInv

\* A client writes through a region it holds.
LEMMA WriteNames ==
  ASSUME MemTypeOK, NameInv, NEW t \in Contexts, Write(t)
  PROVE  NameInv'
<1>1. CASE \E r \in held, p \in Pages : Touch(t, r, p)
  <2>1. PICK r \in held, p \in Pages : Touch(t, r, p)
    BY <1>1
  <2>2. /\ pc' = [pc EXCEPT ![t] = "store"] /\ want'[t] = p /\ via' = [via EXCEPT ![t] = r.id]
        /\ p \in PagesOf(r.start, r.pages) /\ UNCHANGED <<held, wrote>>
        /\ \A u \in Contexts \ {t} : want'[u] = want[u]
    BY <2>1 DEF Touch, Goto, MemTypeOK, CallTypes
  <2>3. /\ pc'[t] = "store" /\ \A u \in Contexts \ {t} : pc'[u] = pc[u]
        /\ via' \in [Contexts -> Int] /\ via'[t] = r.id
        /\ \A u \in Contexts \ {t} : via'[u] = via[u]
    BY <2>2 DEF MemTypeOK, CallTypes, NameInv, Named, WritesOwned, Ids
  <2>4. Named' /\ NamesUnique'
    BY <2>2, <2>3 DEF NameInv, Named, NamesUnique, Allocating
  <2>5. Owned(<<via'[t], want'[t]>>)
    BY <2>2, <2>3 DEF Owned
  <2>6. \A w \in wrote' : Owned(w)'
    BY <2>2 DEF NameInv, WritesOwned, Owned
  <2>7. ASSUME NEW u \in Contexts, pc'[u] \in Writing PROVE Owned(<<via[u], want[u]>>)'
    <3>1. Owned(<<via'[u], want'[u]>>)
      BY <2>2, <2>3, <2>5, <2>7 DEF NameInv, WritesOwned
    <3> QED
      BY <2>2, <3>1 DEF Owned
  <2> QED
    BY <2>3, <2>4, <2>6, <2>7 DEF NameInv, WritesOwned
<1>2. CASE ScanBitmap(t) \/ get_frame(t) \/ handle_fault(t)
  <2>1. /\ UNCHANGED <<held, wrote, via, want>> /\ pc[t] \in Writing
        /\ \E p \in Writing : pc' = [pc EXCEPT ![t] = p]
    BY <1>2 DEF ScanBitmap, get_frame, handle_fault, At, Goto, dataVars, callVars, Writing
  <2>2. \A u \in Contexts : /\ pc'[u] \in Writing => pc[u] \in Writing
                            /\ Allocating(u)' => Allocating(u)
    BY <2>1 DEF MemTypeOK, CallTypes, Allocating, Writing
  <2> QED
    BY <2>1, <2>2, NamesUntouched
<1>3. CASE Store(t)
  <2>1. /\ pc[t] = "store" /\ pc' = [pc EXCEPT ![t] = "run"]
        /\ wrote' = wrote \cup {<<via[t], want[t]>>} /\ via' = [via EXCEPT ![t] = 0]
        /\ held' = held /\ \A u \in Contexts \ {t} : want'[u] = want[u]
    BY <1>3 DEF Store, At, Goto, Leave, MemTypeOK, CallTypes
  <2>2. /\ pc'[t] = "run" /\ \A u \in Contexts \ {t} : pc'[u] = pc[u]
        /\ via' \in [Contexts -> Int]
        /\ \A u \in Contexts \ {t} : via'[u] = via[u]
    BY <2>1 DEF MemTypeOK, CallTypes, NameInv, WritesOwned
  <2>3. Named' /\ NamesUnique'
    BY <2>1, <2>2 DEF NameInv, Named, NamesUnique, Allocating
  <2>4. Owned(<<via[t], want[t]>>)
    BY <2>1 DEF NameInv, WritesOwned, Writing
  <2>5. \A w \in wrote' : Owned(w)'
    BY <2>1, <2>4 DEF NameInv, WritesOwned, Owned
  <2>6. \A u \in Contexts : pc'[u] \in Writing => Owned(<<via[u], want[u]>>)'
    BY <2>1, <2>2 DEF NameInv, WritesOwned, Owned, Writing
  <2> QED
    BY <2>2, <2>3, <2>5, <2>6 DEF NameInv, WritesOwned
<1> QED
  BY <1>1, <1>2, <1>3 DEF Write

LEMMA StepNames ==
  ASSUME MemTypeOK, ListInv, NameInv, OneProcessor, CallsAlone, MemNext
  PROVE  NameInv'
<1>1. PICK t \in Contexts : allocate(t) \/ release(t) \/ Write(t)
  BY DEF MemNext
<1>2. ASSUME \/ Advance(t) \/ FillSlot(t) \/ Grow(t) \/ Seek(t) \/ Unlink(t) \/ ReadFrame(t)
             \/ release_frame(t) \/ ClearPte(t) \/ Shrink(t) \/ CheckLast(t) \/ Forward(t)
      PROVE  NameInv'
  <2>1. UNCHANGED <<held, wrote, via>> /\ \A u \in Contexts \ {t} : want'[u] = want[u]
    BY <1>2 DEF Advance, FillSlot, Grow, Seek, Unlink, ReadFrame, release_frame, ClearPte, Shrink,
                CheckLast, Forward, Leave, dataVars, callVars, MemTypeOK, CallTypes
  <2>2. PICK p \in Places : /\ pc' = [pc EXCEPT ![t] = p] /\ p \notin Writing
                            /\ p \in {"fill", "grow", "return"} => Allocating(t)
    <3>1. CASE Seek(t)
      BY <3>1 DEF Seek, At, Places, Writing, MemTypeOK, CallTypes
    <3>2. CASE Forward(t)
      BY <3>2 DEF Forward, At, Goto, Leave, Places, Writing, MemTypeOK, CallTypes
    <3>3. CASE Advance(t) \/ FillSlot(t) \/ Grow(t)
      BY <3>3 DEF Advance, FillSlot, Grow, At, Goto, Places, Writing, Allocating
    <3>4. CASE \/ Unlink(t) \/ ReadFrame(t) \/ release_frame(t) \/ ClearPte(t) \/ Shrink(t)
               \/ CheckLast(t)
      BY <3>4 DEF Unlink, ReadFrame, release_frame, ClearPte, Shrink, CheckLast, At, Goto, Leave,
                  Places, Writing
    <3> QED
      BY <1>2, <3>1, <3>2, <3>3, <3>4
  <2>3. p # "advance"
    BY <1>2, <2>2 DEF Advance, FillSlot, Grow, Seek, Unlink, ReadFrame, release_frame, ClearPte,
                      Shrink, CheckLast, Forward, At, Goto, Leave, MemTypeOK, CallTypes
  <2>4. \A u \in Contexts : /\ pc'[u] \in Writing => u # t /\ pc[u] = pc'[u]
                            /\ Allocating(u)' => Allocating(u)
    BY <2>2, <2>3 DEF MemTypeOK, CallTypes, Allocating
  <2> QED
    BY <2>1, <2>4, NamesUntouched
<1>3. CASE allocate(t)
  BY <1>2, <1>3, LinkSlotNames, ReturnNames DEF allocate
<1>4. CASE release(t)
  BY <1>2, <1>4, GiveBackNames DEF release
<1>5. CASE Write(t)
  BY <1>5, WriteNames
<1> QED
  BY <1>1, <1>3, <1>4, <1>5

\* While there are frames, no page has the descriptor made of get_frame's -1.
Backed ==
  /\ DOMAIN mem = Frames
  /\ enough => /\ \A p \in Pages : pte[p] # BadFrame
               /\ \A t \in Contexts : InHandler(t) => frame[t] \in Frames

\* Steps that touch neither the page table nor memory.
LEMMA DataUntouched ==
  ASSUME Backed, DataKept, UNCHANGED <<pte, mem, wrote, enough>>, inOrder' => inOrder,
         \A u \in Contexts : InHandler(u)' => InHandler(u) /\ frame'[u] = frame[u]
  PROVE  Backed' /\ DataKept'
BY DEF Backed, DataKept

LEMMA CallStepsData ==
  ASSUME MemTypeOK, Backed, DataKept, NEW t \in Contexts,
         \/ (\E bytes \in Sizes : LinkSlot(t, bytes)) \/ Advance(t) \/ FillSlot(t) \/ Grow(t)
         \/ Return(t) \/ Seek(t) \/ Unlink(t) \/ ReadFrame(t) \/ release_frame(t) \/ Shrink(t)
         \/ CheckLast(t) \/ Forward(t)
  PROVE  Backed' /\ DataKept'
<1>1. /\ UNCHANGED <<pte, mem, wrote, enough>> /\ (inOrder' => inOrder)
      /\ \A u \in Contexts \ {t} : frame'[u] = frame[u]
  BY DEF LinkSlot, Advance, FillSlot, Grow, Return, Seek, Unlink, ReadFrame, release_frame, Shrink,
         CheckLast, Forward, frameVars, dataVars, listVars, MemTypeOK, FrameTypes, ListTypes
<1>2. \A u \in Contexts : InHandler(u)' => u # t /\ InHandler(u)
  <2>1. \E p \in Places \ {"mark", "map"} : pc' = [pc EXCEPT ![t] = p]
    <3>1. CASE Seek(t)
      BY <3>1 DEF Seek, At, Places, MemTypeOK, CallTypes
    <3>2. CASE Forward(t)
      BY <3>2 DEF Forward, At, Goto, Leave, Places, MemTypeOK, CallTypes
    <3>3. CASE ~Seek(t) /\ ~Forward(t)
      BY <3>3 DEF LinkSlot, Advance, FillSlot, Grow, Return, Unlink, ReadFrame, release_frame,
                  Shrink, CheckLast, At, Goto, Leave, Places
    <3> QED
      BY <3>1, <3>2, <3>3
  <2> QED
    BY <2>1 DEF InHandler, MemTypeOK, CallTypes
<1> QED
  BY <1>1, <1>2, DataUntouched

\* A region's writes are forgotten with it (release).
LEMMA GiveBackData ==
  ASSUME MemTypeOK, Backed, DataKept, NEW t \in Contexts, NEW r \in held, GiveBack(t, r)
  PROVE  Backed' /\ DataKept'
<1>1. /\ UNCHANGED <<pte, frame, enough, inOrder>> /\ pc' = [pc EXCEPT ![t] = "find"]
      /\ wrote' = {w \in wrote : w[1] # r.id}
      /\ mem' = [f \in Frames |-> IF mem[f] = r.id THEN 0 ELSE mem[f]]
  BY DEF GiveBack, Goto, listVars, frameVars
<1>2. Backed'
  BY <1>1 DEF Backed, InHandler, MemTypeOK, CallTypes
<1>3. DataKept'
  BY <1>1 DEF DataKept
<1> QED
  BY <1>2, <1>3

\* The pages taken from the page table lie behind every region still held (release).
LEMMA ClearPteData ==
  ASSUME MemTypeOK, NameInv, PackInv, Backed, DataKept, NEW t \in Contexts, ClearPte(t)
  PROVE  Backed' /\ DataKept'
<1>1. /\ pc[t] = "drop" /\ pc' = [pc EXCEPT ![t] = "free"]
      /\ pte' = [pte EXCEPT ![PageOf(t)] = Unmapped]
      /\ UNCHANGED <<frame, mem, wrote, enough, inOrder>>
  BY DEF ClearPte, At, Goto, listVars, dataVars
<1>2. pte \in [Pages -> Descriptors]
  BY DEF MemTypeOK, FrameTypes
<1>3. Backed'
  BY <1>1, <1>2, FrameConstants DEF Backed, InHandler, MemTypeOK, CallTypes
<1>4. ASSUME inOrder, NEW w \in wrote PROVE w[2] \in Pages /\ w[2] # PageOf(t)
  <2>1. PICK r \in held : w[2] \in PagesOf(r.start, r.pages) /\ w[2] \in Pages
    BY DEF NameInv, WritesOwned, Owned
  <2>2. PICK s \in Filled : startAddr[s] = r.start /\ PagesFor(size[s]) = r.pages
    BY <1>4 DEF PackInv, Pack, HeldFacts
  <2>3. r.start + r.pages <= want[t]
    BY <1>1, <1>4, <2>2 DEF PackInv, Pack, TotalFacts, SlotEnd
  <2>4. r.start \in Int /\ r.pages \in Nat /\ want[t] \in Int /\ i[t] \in Nat
    BY DEF MemTypeOK, CallTypes
  <2> QED
    BY <2>1, <2>3, <2>4 DEF PagesOf, PageOf
<1>5. DataKept'
  BY <1>1, <1>2, <1>4 DEF DataKept
<1> QED
  BY <1>3, <1>5

\* A page fault maps a page that was not mapped (ScanBitmap, get_frame, handle_fault).
LEMMA FaultData ==
  ASSUME MemTypeOK, SectionFacts, NameInv, Backed, DataKept, NEW t \in Contexts,
         \/ (\E r \in held, p \in Pages : Touch(t, r, p))
         \/ ScanBitmap(t) \/ get_frame(t) \/ handle_fault(t)
  PROVE  Backed' /\ DataKept'
<1>1. CASE \E r \in held, p \in Pages : Touch(t, r, p)
  <2>1. /\ UNCHANGED <<pte, frame, mem, wrote, enough, inOrder>>
        /\ pc' = [pc EXCEPT ![t] = "store"]
    BY <1>1 DEF Touch, Goto, listVars, frameVars
  <2>2. \A u \in Contexts : InHandler(u)' => InHandler(u)
    BY <2>1 DEF InHandler, MemTypeOK, CallTypes
  <2> QED
    BY <2>1, <2>2, DataUntouched
<1>2. CASE ScanBitmap(t)
  <2>1. PICK f \in 0..NFrames \cup {BadFrame} :
          FirstFree(bitmap, f) /\ frame' = [frame EXCEPT ![t] = f]
          /\ enough' = (enough /\ f # BadFrame)
    BY <1>2 DEF ScanBitmap
  <2>2. UNCHANGED <<pte, mem, wrote, inOrder>> /\ pc' = [pc EXCEPT ![t] = "mark"]
    BY <1>2 DEF ScanBitmap, Goto, listVars, dataVars
  <2>3. enough' => enough /\ f \in Frames
    BY <2>1 DEF FirstFree
  <2>4. Backed'
    BY <2>1, <2>2, <2>3 DEF Backed, InHandler, MemTypeOK, CallTypes, FrameTypes
  <2>5. DataKept'
    BY <2>2, <2>3 DEF DataKept
  <2> QED
    BY <2>4, <2>5
<1>3. CASE get_frame(t)
  <2>1. /\ UNCHANGED <<pte, frame, mem, wrote, enough, inOrder>>
        /\ pc' = [pc EXCEPT ![t] = "map"] /\ pc[t] = "mark"
    BY <1>3 DEF get_frame, At, Goto, listVars, dataVars
  <2>2. \A u \in Contexts : InHandler(u)' => InHandler(u)
    BY <2>1 DEF InHandler, MemTypeOK, CallTypes
  <2> QED
    BY <2>1, <2>2, DataUntouched
<1>4. CASE handle_fault(t)
  <2>1. /\ pc[t] = "map" /\ pc' = [pc EXCEPT ![t] = "store"]
        /\ pte' = [pte EXCEPT ![want[t]] = frame[t]] /\ frame' = [frame EXCEPT ![t] = BadFrame]
        /\ UNCHANGED <<mem, wrote, enough, inOrder>>
    BY <1>4 DEF handle_fault, At, Goto, listVars, dataVars
  <2>2. pte \in [Pages -> Descriptors] /\ frame \in [Contexts -> Frames \cup {BadFrame}]
    BY DEF MemTypeOK, FrameTypes
  <2>3. InHandler(t) /\ pte[want[t]] = Unmapped
    BY <2>1 DEF InHandler, SectionFacts
  <2>4. \A u \in Contexts : InHandler(u)' => u # t /\ InHandler(u)
    BY <2>1 DEF InHandler, MemTypeOK, CallTypes
  <2>5. Backed'
    <3> SUFFICES ASSUME enough
                 PROVE  /\ \A p \in Pages : pte'[p] # BadFrame
                        /\ \A u \in Contexts : InHandler(u)' => frame'[u] \in Frames
      BY <2>1 DEF Backed
    <3>1. frame[t] \in Frames
      BY <2>3 DEF Backed
    <3> QED
      BY <2>1, <2>2, <2>4, <3>1, FrameConstants DEF Backed
  <2>6. DataKept'
    BY <2>1, <2>2, <2>3, FrameConstants DEF DataKept, NameInv, WritesOwned, Owned
  <2> QED
    BY <2>5, <2>6
<1> QED
  BY <1>1, <1>2, <1>3, <1>4

\* A store reaches a frame that backs no page of another region.
LEMMA StoreData ==
  ASSUME MemTypeOK, FramesPrivate, NameInv, PackInv, Backed, DataKept, NEW t \in Contexts, Store(t)
  PROVE  Backed' /\ DataKept'
<1>0. PICK f, v, p : f = pte[want[t]] /\ v = via[t] /\ p = want[t]
  OBVIOUS
<1>1. /\ pc[t] = "store" /\ pc' = [pc EXCEPT ![t] = "run"] /\ f # Unmapped
      /\ mem' = IF f \in Frames THEN [mem EXCEPT ![f] = v] ELSE mem
      /\ wrote' = wrote \cup {<<v, p>>}
      /\ UNCHANGED <<pte, frame, enough, inOrder>>
  BY <1>0 DEF Store, At, Goto, Leave, listVars, frameVars
<1>2. Backed'
  BY <1>1 DEF Backed, InHandler, MemTypeOK, CallTypes
<1>3. Owned(<<v, p>>)
  BY <1>0, <1>1 DEF NameInv, WritesOwned, Writing
<1>4. ASSUME inOrder, enough PROVE \A w \in wrote' : pte[w[2]] \in Frames /\ mem'[pte[w[2]]] = w[1]
  <2>1. f \in Frames
    <3>1. p \in Pages
      BY <1>3 DEF Owned
    <3>2. pte[p] \in Descriptors /\ pte[p] # BadFrame
      BY <1>4, <3>1 DEF Backed, MemTypeOK, FrameTypes
    <3> QED
      BY <1>0, <1>1, <3>2 DEF Descriptors
  <2>2. mem' = [mem EXCEPT ![f] = v]
    BY <1>1, <2>1
  <2>3. Apart
    BY <1>4, PackApart DEF PackInv
  <2>4. ASSUME NEW w \in wrote PROVE pte[w[2]] \in Frames /\ mem'[pte[w[2]]] = w[1]
    <3>1. pte[w[2]] \in Frames /\ mem[pte[w[2]]] = w[1]
      BY <1>4 DEF DataKept
    <3>2. Owned(w)
      BY DEF NameInv, WritesOwned
    <3>3. CASE pte[w[2]] = f
      <4>1. w[2] = p
        BY <1>0, <1>3, <2>1, <3>2, <3>3 DEF FramesPrivate, Owned
      <4>2. w[1] = v
        <5>1. PICK r \in held : w[1] = r.id /\ p \in PagesOf(r.start, r.pages)
          BY <3>2, <4>1 DEF Owned
        <5>2. PICK q \in held : v = q.id /\ p \in PagesOf(q.start, q.pages)
          BY <1>3 DEF Owned
        <5> QED
          BY <2>3, <5>1, <5>2 DEF Apart
      <4> QED
        BY <2>2, <3>1, <3>3, <4>2
    <3>4. CASE pte[w[2]] # f
      BY <2>2, <3>1, <3>4
    <3> QED
      BY <3>3, <3>4
  <2>5. pte[p] \in Frames /\ mem'[pte[p]] = v
    BY <1>0, <2>1, <2>2 DEF Backed
  <2> QED
    BY <1>1, <2>4, <2>5
<1>5. DataKept'
  BY <1>1, <1>4 DEF DataKept
<1> QED
  BY <1>2, <1>5

LEMMA StepData ==
  ASSUME FrameInv, PackInv, NameInv, Backed, DataKept, MemNext
  PROVE  Backed' /\ DataKept'
<1>1. MemTypeOK /\ FramesPrivate /\ SectionFacts
  BY DEF FrameInv
<1>2. PICK t \in Contexts : allocate(t) \/ release(t) \/ Write(t)
  BY DEF MemNext
<1>3. CASE allocate(t)
  BY <1>1, <1>3, CallStepsData DEF allocate
<1>4. CASE release(t)
  BY <1>1, <1>4, CallStepsData, GiveBackData, ClearPteData DEF release
<1>5. CASE Write(t)
  BY <1>1, <1>5, FaultData, StoreData DEF Write
<1> QED
  BY <1>2, <1>3, <1>4, <1>5

\* Until a region is freed from the middle, or a page fault finds no frame, every
\* client reads back from a region what it wrote there, across the other clients'
\* calls of kmalloc and kfree and their page faults.
THEOREM MemDataKept ==
  ASSUME OneProcessor, CallsAlone, FreesWhole
  PROVE  MemSpec => []DataKept
<1>1. MemInit => NameInv /\ Backed /\ DataKept
  <2> SUFFICES ASSUME MemInit PROVE NameInv /\ Backed /\ DataKept
    OBVIOUS
  <2>1. /\ held = {} /\ wrote = {} /\ \A t \in Contexts : pc[t] = "run"
        /\ via = [t \in Contexts |-> 0] /\ mem = [f \in Frames |-> 0]
        /\ pte = [p \in Pages |-> IF p = 0 THEN 0 ELSE Unmapped]
    BY DEF MemInit
  <2>2. Named
    BY <2>1, FS_EmptySet DEF Named, Allocating
  <2>3. NamesUnique /\ WritesOwned /\ DataKept
    BY <2>1 DEF NamesUnique, WritesOwned, Writing, DataKept
  <2>4. Backed
    BY <2>1 DEF Backed, InHandler, Unmapped, BadFrame
  <2> QED
    BY <2>2, <2>3, <2>4 DEF NameInv
<1>2. MemTypeOK /\ ListInv /\ NameInv /\ [MemNext]_memVars => NameInv'
  <2>1. ASSUME NameInv, UNCHANGED memVars PROVE NameInv'
    <3>1. UNCHANGED <<held, wrote, via, want, pc>>
      BY <2>1 DEF memVars, callVars, dataVars
    <3> QED
      BY <2>1, <3>1, NamesUntouched DEF Allocating
  <2> QED
    BY <2>1, StepNames
<1>3. FrameInv /\ PackInv /\ NameInv /\ Backed /\ DataKept /\ [MemNext]_memVars
        => Backed' /\ DataKept'
  <2>1. Backed /\ DataKept /\ UNCHANGED memVars => Backed' /\ DataKept'
    BY DEF memVars, listVars, frameVars, dataVars, Backed, DataKept, InHandler
  <2> QED
    BY <2>1, StepData
<1> QED
  BY <1>1, <1>2, <1>3, MemTypeCorrect, MemFrameInvariant, MemListInvariant, MemPackInvariant, PTL
     DEF MemSpec
=============================================================================
