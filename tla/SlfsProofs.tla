----------------------------- MODULE SlfsProofs -----------------------------
(***************************************************************************)
(* What SLFS promises whatever the size of its flash.  rw_page, as a run   *)
(* of flash writes, never leaves a disk from which slfs_mount could not    *)
(* bring back the old or the new metadata page (the kernel's own mount     *)
(* erases the chip first and does not come to use this); and a read        *)
(* follows the chain of blocks from the position sought.                   *)
(***************************************************************************)
EXTENDS Slfs, SequenceTheorems, WellFoundedInduction, TLAPS

-----------------------------------------------------------------------------
(* Runs.                                                                     *)

\* The disks with certain metadata pages and cells, and the runs over them.
Disk(pages, cells) ==
  [meta : pages, swap : pages \cup {Null},
   blk : [Blks -> [data : [1 .. PAYLOAD -> cells], prev : Int, next : Int]]]

Run(pages, cells, files) ==
  {r \in [disks : Seq(Disk(pages, cells)), f : files, ok : BOOLEAN] : r.disks # <<>>}

\* What a run from r to s has written since.
Since(r, s) == {s.disks[k] : k \in Len(r.disks) + 1 .. Len(s.disks)}

\* One more write.
LEMMA PutIs ==
  ASSUME NEW pages, NEW cells, NEW files, NEW r \in Run(pages, cells, files),
         NEW d \in Disk(pages, cells)
  PROVE  /\ Put(r, d) \in Run(pages, cells, files) /\ Now(Put(r, d)) = d
         /\ Len(Put(r, d).disks) = Len(r.disks) + 1
         /\ \A k \in 1 .. Len(r.disks) : Put(r, d).disks[k] = r.disks[k]
         /\ Put(r, d).disks[Len(r.disks) + 1] = d
  <1>1. r.disks \in Seq(Disk(pages, cells)) /\ r.disks # <<>>  BY DEF Run
  <1>2. Put(r, d).disks = Append(r.disks, d)  BY DEF Put, Run
  <1>3. Put(r, d) \in [disks : Seq(Disk(pages, cells)), f : files, ok : BOOLEAN]
    BY <1>1 DEF Put, Run
  <1>4. /\ Len(Append(r.disks, d)) = Len(r.disks) + 1 /\ Append(r.disks, d) # <<>>
        /\ \A k \in 1 .. Len(r.disks) : Append(r.disks, d)[k] = r.disks[k]
        /\ Append(r.disks, d)[Len(r.disks) + 1] = d
    BY <1>1
  <1>5. Now(Put(r, d)) = d  BY <1>2, <1>4 DEF Now, Last
  <1> QED BY <1>2, <1>3, <1>4, <1>5 DEF Run

\* A run that fails has written what it has written.
LEMMA FailIs ==
  ASSUME NEW pages, NEW cells, NEW files, NEW r \in Run(pages, cells, files)
  PROVE  Fail(r).disks = r.disks /\ Fail(r) \in Run(pages, cells, files)
  BY DEF Fail, Run

\* A run that goes on: what both parts have written, if all of it is of one kind.
LEMMA SinceTwo ==
  ASSUME NEW pages, NEW cells, NEW files, NEW kind,
         NEW q \in Run(pages, cells, files), NEW r \in Run(pages, cells, files),
         NEW d \in Disk(pages, cells) \cap kind,
         Len(q.disks) <= Len(r.disks), Since(q, r) \subseteq kind
  PROVE  Len(q.disks) <= Len(Put(r, d).disks) /\ Since(q, Put(r, d)) \subseteq kind
  <1>1. Len(q.disks) \in Nat /\ Len(r.disks) \in Nat  BY DEF Run
  <1>2. /\ Len(Put(r, d).disks) = Len(r.disks) + 1
        /\ \A k \in 1 .. Len(r.disks) : Put(r, d).disks[k] = r.disks[k]
        /\ Put(r, d).disks[Len(r.disks) + 1] = d
    BY PutIs
  <1>3. ASSUME NEW k \in Len(q.disks) + 1 .. Len(r.disks) + 1 PROVE Put(r, d).disks[k] \in kind
    <2>1. CASE k = Len(r.disks) + 1  BY <1>2, <2>1
    <2>2. CASE k # Len(r.disks) + 1
      <3>1. k \in 1 .. Len(r.disks) /\ k \in Len(q.disks) + 1 .. Len(r.disks)  BY <1>1, <1>3, <2>2
      <3> QED BY <1>2, <3>1 DEF Since
    <2> QED BY <2>1, <2>2
  <1> QED BY <1>1, <1>2, <1>3 DEF Since

-----------------------------------------------------------------------------
(* A metadata page is rewritten.                                             *)

\* The disk e, on which d's metadata page is being rewritten as page, can be mounted: the
\* swap page holds the new one, or has no tail and the page is the old or the new one; no
\* data block has changed.
Recoverable(e, d, page) ==
  /\ \A b \in Blks \ {SWAP} : e.blk[b] = d.blk[b]
  /\ \/ e.blk[SWAP].next = 0 /\ e.swap = page
     \/ e.blk[SWAP].next # 0 /\ e.meta \in {d.meta, page}

\* The disks of that kind.
Recoverables(pages, cells, d, page) == {e \in Disk(pages, cells) : Recoverable(e, d, page)}

\* What the theorems assume of a disk: pages and cells of any kind, an erased one among
\* them, and no page is Null.
Kinds(pages, cells) == ErasedPage \in pages /\ Blank \in cells /\ Null \notin pages

\* The erased swap page.
LEMMA EraseSwapIs ==
  ASSUME NEW pages, NEW cells, Kinds(pages, cells), NEW d \in Disk(pages, cells)
  PROVE  /\ EraseSwap(d) \in Disk(pages, cells) /\ EraseSwap(d).meta = d.meta
         /\ EraseSwap(d).blk[SWAP].next = MINUS_ONE /\ EraseSwap(d).swap = Null
         /\ \A b \in Blks \ {SWAP} : EraseSwap(d).blk[b] = d.blk[b]
  <1>1. SWAP \in Blks  BY SlfsAssumption DEF SWAP, Blks
  <1>2. FreeBlk \in [data : [1 .. PAYLOAD -> cells], prev : Int, next : Int]
    BY DEF FreeBlk, Kinds, MINUS_ONE
  <1>3. FreeBlk.next = MINUS_ONE  BY DEF FreeBlk
  <1> HIDE DEF FreeBlk
  <1>4. EraseSwap(d) = [d EXCEPT !.swap = Null, !.blk = [d.blk EXCEPT ![SWAP] = FreeBlk]]
    BY DEF EraseSwap, Disk
  <1>5. [d.blk EXCEPT ![SWAP] = FreeBlk] \in [Blks -> [data : [1 .. PAYLOAD -> cells], prev : Int, next : Int]]
    BY <1>1, <1>2 DEF Disk
  <1> QED BY <1>1, <1>3, <1>4, <1>5 DEF Disk

\* The swap page with a backup and its tail, which says that it is the metadata page's.
Backed(d, page) == [d EXCEPT !.swap = page, !.blk[SWAP].next = 0]

\* A metadata page that is written.
LEMMA PageIs ==
  ASSUME NEW pages, NEW cells, NEW d \in Disk(pages, cells), NEW page \in pages
  PROVE  [d EXCEPT !.meta = page] \in Disk(pages, cells)
  BY DEF Disk

\* The backup.
LEMMA BackedIs ==
  ASSUME NEW pages, NEW cells, NEW d \in Disk(pages, cells), NEW page \in pages
  PROVE  /\ Backed(d, page) \in Disk(pages, cells)
         /\ Backed(d, page).blk[SWAP].next = 0
         /\ Backed(d, page).swap = page
         /\ \A b \in Blks \ {SWAP} : Backed(d, page).blk[b] = d.blk[b]
  <1> DEFINE Block == [data : [1 .. PAYLOAD -> cells], prev : Int, next : Int]
             s == [d.blk[SWAP] EXCEPT !.next = 0]
  <1>1. SWAP \in Blks  BY SlfsAssumption DEF SWAP, Blks
  <1>2. d.blk \in [Blks -> Block] /\ d.blk[SWAP] \in Block  BY <1>1 DEF Disk
  <1>3. \A x \in Block : [x EXCEPT !.next = 0] \in Block /\ [x EXCEPT !.next = 0].next = 0
    OBVIOUS
  <1>4. s \in Block /\ s.next = 0  BY <1>2, <1>3
  <1>5. Backed(d, page) = [d EXCEPT !.swap = page, !.blk = [d.blk EXCEPT ![SWAP] = s]]
    BY <1>1 DEF Disk, Backed
  <1> HIDE DEF s, Block
  <1>6. [d.blk EXCEPT ![SWAP] = s] \in [Blks -> Block]  BY <1>2, <1>4
  <1>7. Backed(d, page) \in Disk(pages, cells)  BY <1>5, <1>6 DEF Disk, Block
  <1>8. Backed(d, page).blk = [d.blk EXCEPT ![SWAP] = s] /\ Backed(d, page).swap = page
    BY <1>5 DEF Disk
  <1> QED BY <1>1, <1>2, <1>4, <1>7, <1>8

\* A run over runs: it has gone on from q, and what it wrote since is of one kind.
GoneOn(q, r, pages, cells, files, kind) ==
  /\ r \in Run(pages, cells, files) /\ \A k \in 1 .. Len(q.disks) : r.disks[k] = q.disks[k]
  /\ Len(q.disks) <= Len(r.disks) /\ Since(q, r) \subseteq kind

\* It goes on by one write more of that kind.
LEMMA GoesOn ==
  ASSUME NEW pages, NEW cells, NEW files, NEW kind, NEW q \in Run(pages, cells, files),
         NEW r, GoneOn(q, r, pages, cells, files, kind), NEW d \in Disk(pages, cells), d \in kind
  PROVE  GoneOn(q, Put(r, d), pages, cells, files, kind) /\ Now(Put(r, d)) = d
  <1>1. r \in Run(pages, cells, files) /\ d \in Disk(pages, cells) \cap kind  BY DEF GoneOn
  <1>2. Put(r, d) \in Run(pages, cells, files) /\ Now(Put(r, d)) = d  BY <1>1, PutIs
  <1>3. Len(q.disks) <= Len(Put(r, d).disks) /\ Since(q, Put(r, d)) \subseteq kind
    BY <1>1, SinceTwo DEF GoneOn
  <1>4. \A k \in 1 .. Len(q.disks) : Put(r, d).disks[k] = q.disks[k]
    <2>1. Len(q.disks) \in Nat /\ Len(r.disks) \in Nat /\ Len(q.disks) <= Len(r.disks)
      BY <1>1 DEF Run, GoneOn
    <2>2. \A k \in 1 .. Len(r.disks) : Put(r, d).disks[k] = r.disks[k]  BY <1>1, PutIs
    <2> QED BY <2>1, <2>2 DEF GoneOn
  <1> QED BY <1>2, <1>3, <1>4 DEF GoneOn

\* It starts as the run itself, from the disk that was found.
LEMMA GoesOnAtFirst ==
  ASSUME NEW pages, NEW cells, NEW files, NEW kind, NEW q \in Run(pages, cells, files)
  PROVE  GoneOn(q, q, pages, cells, files, kind) /\ Now(q) \in Disk(pages, cells)
  <1>1. Len(q.disks) \in Nat /\ Len(q.disks) # 0 /\ q.disks \in Seq(Disk(pages, cells))  BY DEF Run
  <1>2. q.disks[Len(q.disks)] \in Disk(pages, cells)  BY <1>1
  <1> QED BY <1>1, <1>2 DEF GoneOn, Since, Now, Last

\* The page is copied from the swap page that holds it.
LEMMA CopyBackIs ==
  ASSUME NEW pages, NEW cells, NEW files, Kinds(pages, cells), NEW d, NEW page \in pages,
         NEW q \in Run(pages, cells, files), NEW r,
         GoneOn(q, r, pages, cells, files, Recoverables(pages, cells, d, page)),
         NEW e, Now(r) = e, Recoverable(e, d, page), e.blk[SWAP].next = 0
  PROVE  /\ GoneOn(q, CopyBack(r), pages, cells, files, Recoverables(pages, cells, d, page))
         /\ Now(CopyBack(r)) = [e EXCEPT !.meta = page]
  <1> DEFINE kind == Recoverables(pages, cells, d, page)
             s == Put(r, [e EXCEPT !.meta = ErasedPage])
  <1>1. e \in Disk(pages, cells)  BY GoesOnAtFirst DEF GoneOn
  <1>2. e.swap = page /\ page # Null  BY DEF Recoverable, Kinds
  <1>3. CopyBack(r) = Put(s, [e EXCEPT !.meta = page])  BY <1>2, Zenon DEF CopyBack
  <1>4. \A m \in pages : [e EXCEPT !.meta = m] \in kind
    <2> SUFFICES ASSUME NEW m \in pages PROVE [e EXCEPT !.meta = m] \in kind  OBVIOUS
    <2>1. [e EXCEPT !.meta = m] \in Disk(pages, cells)  BY <1>1, PageIs
    <2>2. [e EXCEPT !.meta = m].blk = e.blk /\ [e EXCEPT !.meta = m].swap = e.swap
      BY <1>1 DEF Disk
    <2> QED BY <1>2, <2>1, <2>2 DEF Recoverable, Recoverables
  <1>5. ErasedPage \in pages  BY DEF Kinds
  <1> HIDE DEF kind
  <1>6. kind \subseteq Disk(pages, cells)  BY DEF kind, Recoverables
  <1>7. GoneOn(q, r, pages, cells, files, kind)  BY DEF kind
  <1>8. GoneOn(q, s, pages, cells, files, kind)  BY <1>4, <1>5, <1>6, <1>7, GoesOn
  <1> HIDE DEF s
  <1>9. /\ GoneOn(q, Put(s, [e EXCEPT !.meta = page]), pages, cells, files, kind)
        /\ Now(Put(s, [e EXCEPT !.meta = page])) = [e EXCEPT !.meta = page]
    BY <1>4, <1>6, <1>8, GoesOn
  <1> QED BY <1>3, <1>9 DEF kind

\* After every flash write of a metadata page's rewriting (rw_page) the disk holds the old
\* page or the new one where slfs_mount looks for it, and at its end the new one is in
\* place: it is backed up before it is erased.
THEOREM RewriteRecoverable ==
  ASSUME NEW pages, NEW cells, NEW files, Kinds(pages, cells),
         NEW r \in Run(pages, cells, files), NEW page \in pages
  PROVE  /\ \A e \in Since(r, rw_page(r, page)) : Recoverable(e, Now(r), page)
         /\ Now(rw_page(r, page)).meta = page
         /\ Now(rw_page(r, page)).blk[SWAP].next # 0
  <1> DEFINE d == Now(r)
             kind == Recoverables(pages, cells, d, page)
             erased == EraseSwap(d)
             backup == Backed(erased, page)
             new == [backup EXCEPT !.meta = page]
             G(s) == GoneOn(r, s, pages, cells, files, kind)
  <1>1. G(r) /\ d \in Disk(pages, cells)  BY GoesOnAtFirst
  <1> HIDE DEF d
  <1>2. /\ erased \in Disk(pages, cells) /\ erased.meta = d.meta
        /\ erased.blk[SWAP].next = MINUS_ONE
        /\ \A b \in Blks \ {SWAP} : erased.blk[b] = d.blk[b]
    BY <1>1, EraseSwapIs
  <1> HIDE DEF erased
  <1>3. /\ backup \in Disk(pages, cells) /\ backup.blk[SWAP].next = 0 /\ backup.swap = page
        /\ \A b \in Blks \ {SWAP} : backup.blk[b] = d.blk[b]
    <2>1. erased \in Disk(pages, cells)  BY <1>2
    <2>2. /\ backup \in Disk(pages, cells) /\ backup.blk[SWAP].next = 0 /\ backup.swap = page
          /\ \A b \in Blks \ {SWAP} : backup.blk[b] = erased.blk[b]
      BY <2>1, BackedIs
    <2> HIDE DEF backup
    <2> QED BY <1>2, <2>2
  <1> HIDE DEF backup
  <1>4. /\ new \in Disk(pages, cells) /\ new.meta = page
        /\ \A b \in Blks \ {SWAP} : new.blk[b] = d.blk[b]
    <2>1. new \in Disk(pages, cells)  BY <1>3, PageIs
    <2>2. new.meta = page /\ new.blk = backup.blk  BY <1>3 DEF Disk
    <2> QED BY <1>3, <2>1, <2>2
  <1> HIDE DEF new
  <1>5. /\ EraseSwap(new) \in Disk(pages, cells) /\ EraseSwap(new).meta = page
        /\ EraseSwap(new).blk[SWAP].next = MINUS_ONE
        /\ \A b \in Blks \ {SWAP} : EraseSwap(new).blk[b] = d.blk[b]
    BY <1>4, EraseSwapIs
  <1>6. erased \in kind /\ backup \in kind /\ EraseSwap(new) \in kind
    BY <1>2, <1>3, <1>4, <1>5 DEF Recoverable, Recoverables, MINUS_ONE
  <1> HIDE DEF kind
  <1>7. G(Put(r, erased))  BY <1>1, <1>2, <1>6, GoesOn
  <1>8. BackUp(r, page) = Put(Put(r, erased), backup)  BY DEF BackUp, Backed, erased, backup, d
  <1>9. G(BackUp(r, page)) /\ Now(BackUp(r, page)) = backup
    BY <1>3, <1>6, <1>7, <1>8, GoesOn
  <1>10. Recoverable(backup, d, page) /\ backup.blk[SWAP].next = 0
    BY <1>3, <1>6 DEF kind, Recoverables
  <1>11. G(CopyBack(BackUp(r, page))) /\ Now(CopyBack(BackUp(r, page))) = new
    BY <1>9, <1>10, CopyBackIs DEF kind, new
  <1>12. rw_page(r, page) = Put(CopyBack(BackUp(r, page)), EraseSwap(new))
    BY <1>11 DEF rw_page
  <1>13. G(rw_page(r, page)) /\ Now(rw_page(r, page)) = EraseSwap(new)
    BY <1>5, <1>6, <1>11, <1>12, GoesOn
  <1> QED BY <1>5, <1>13 DEF GoneOn, kind, Recoverables, MINUS_ONE, d

\* What slfs_mount makes of a disk on which a metadata page was being rewritten, were it
\* called on one: the old page or the new one, and every data block as it was; and after
\* each of its own flash writes the disk is no worse (slfs_mount, recover_page).
THEOREM MountRecovers ==
  ASSUME NEW pages, NEW cells, NEW files, Kinds(pages, cells),
         NEW r \in Run(pages, cells, files), NEW d, NEW page \in pages,
         d.meta.magic, page.magic, Recoverable(Now(r), d, page)
  PROVE  /\ \A e \in Since(r, slfs_mount(r)) : Recoverable(e, d, page)
         /\ Now(slfs_mount(r)).meta \in {d.meta, page}
         /\ Recoverable(Now(slfs_mount(r)), d, page)
         /\ slfs_mount(r) \in Run(pages, cells, files)
         /\ Len(r.disks) <= Len(slfs_mount(r).disks)
         /\ \A k \in 1 .. Len(r.disks) : slfs_mount(r).disks[k] = r.disks[k]
  <1> DEFINE e == Now(r)
             kind == Recoverables(pages, cells, d, page)
  <1>1. GoneOn(r, r, pages, cells, files, kind) /\ e \in Disk(pages, cells)  BY GoesOnAtFirst
  <1>2. CASE e.blk[SWAP].next = 0
    <2>1. GoneOn(r, CopyBack(r), pages, cells, files, kind)
      BY <1>1, <1>2, CopyBackIs
    <2>2. Now(CopyBack(r)) = [e EXCEPT !.meta = page]
      BY <1>1, <1>2, CopyBackIs
    <2>3. Now(CopyBack(r)).meta = page /\ Now(CopyBack(r)).blk = e.blk /\ Now(CopyBack(r)).swap = e.swap
      BY <1>1, <2>2 DEF Disk
    <2>4. slfs_mount(r) = Fail(CopyBack(r))
      BY <1>2, <2>3 DEF slfs_mount, recover_page, load_superblk
    <2>5. Recoverable(Now(CopyBack(r)), d, page)  BY <1>2, <2>3 DEF Recoverable
    <2>6. CopyBack(r) \in Run(pages, cells, files)  BY <2>1 DEF GoneOn
    <2> DEFINE c == CopyBack(r)
    <2>7. Fail(c).disks = c.disks /\ Fail(c) \in Run(pages, cells, files)  BY <2>6, FailIs
    <2>8. Now(Fail(c)) = Now(c) /\ Since(r, Fail(c)) = Since(r, c)  BY <2>7 DEF Now, Since
    <2> HIDE DEF c
    <2> QED BY <2>1, <2>3, <2>4, <2>5, <2>7, <2>8 DEF GoneOn, Recoverables, c
  <1>3. CASE e.blk[SWAP].next # 0
    <2>1. e.meta \in {d.meta, page}  BY <1>3 DEF Recoverable
    <2>2. slfs_mount(r) = Fail(r)  BY <1>3, <2>1 DEF slfs_mount, load_superblk
    <2>3. Fail(r).disks = r.disks /\ Fail(r) \in Run(pages, cells, files)  BY FailIs
    <2>4. Now(Fail(r)) = Now(r) /\ Since(r, Fail(r)) = Since(r, r)  BY <2>3 DEF Now, Since
    <2> QED BY <1>1, <2>1, <2>2, <2>3, <2>4 DEF GoneOn, Recoverables
  <1> QED BY <1>2, <1>3

-----------------------------------------------------------------------------
(* A chain is followed.                                                      *)

\* Every set of natural numbers has a least element.
LEMMA LeastNat ==
  ASSUME NEW T, T \subseteq Nat, T # {}
  PROVE  \E x \in T : \A y \in T : x <= y
  <1> DEFINE R == {ss \in Nat \X Nat : ss[1] < ss[2]}
  <1>1. \A x, y \in Nat : <<y, x>> \in R <=> y < x  OBVIOUS
  <1>2. IsWellFoundedOn(R, Nat)  BY NatLessThanWellFounded DEF OpToRel
  <1> HIDE DEF R
  <1>3. PICK x \in T : \A y \in T : ~(<<y, x>> \in R)  BY <1>2, WFMin
  <1>4. \A y \in T : y \in Nat /\ x \in Nat /\ ~(y < x)  BY <1>1, <1>3
  <1> QED BY <1>4

\* What holds of 0 and goes over from a number to the next holds of all.
LEMMA Climbs ==
  ASSUME NEW T, T \subseteq Nat, 0 \in T, \A n \in T : n + 1 \in T
  PROVE  T = Nat
  <1> SUFFICES ASSUME Nat \ T # {} PROVE FALSE  OBVIOUS
  <1>1. PICK x \in Nat \ T : \A y \in Nat \ T : x <= y  BY LeastNat
  <1>2. x # 0 /\ x - 1 \in Nat /\ ~(x <= x - 1) /\ (x - 1) + 1 = x  BY <1>1
  <1> QED BY <1>1, <1>2

\* The blocks passed on the way, as far as n.
IsWay(d, a, n, w) == w[0] = a /\ \A k \in 1 .. n : w[k] = NextBlk(d, w[k - 1])

\* The loop of get_datablk_addr goes from a block to the word after it.
LEMMA WalkIs ==
  ASSUME NEW d, NEW a
  PROVE  Walk(d, a, 0) = a /\ \A n \in Nat : Walk(d, a, n + 1) = NextBlk(d, Walk(d, a, n))
  <1> DEFINE Ways == {n \in Nat : \E w : IsWay(d, a, n, w)}
  <1>1. Ways = Nat
    <2>1. 0 \in Ways
      <3>1. IsWay(d, a, 0, [k \in {0} |-> a])  BY DEF IsWay
      <3> QED BY <3>1
    <2>2. ASSUME NEW n \in Ways PROVE n + 1 \in Ways
      <3>1. PICK w : IsWay(d, a, n, w)  BY <2>2
      <3> DEFINE v == [k \in 0 .. n + 1 |-> IF k = n + 1 THEN NextBlk(d, w[n]) ELSE w[k]]
      <3>2. IsWay(d, a, n + 1, v)  BY <3>1 DEF IsWay
      <3> HIDE DEF v
      <3> QED BY <3>2
    <2> HIDE DEF Ways
    <2>3. Ways \subseteq Nat  BY DEF Ways
    <2> QED BY <2>1, <2>2, <2>3, Climbs
  <1> DEFINE way(n) == CHOOSE w : IsWay(d, a, n, w)
             at == [n \in Nat |-> way(n)[n]]
  <1>2. \A n \in Nat : IsWay(d, a, n, way(n))  BY <1>1
  <1>3. ASSUME NEW m \in Nat, NEW v, NEW w, IsWay(d, a, m, v), IsWay(d, a, m, w)
        PROVE  v[m] = w[m]
    <2> DEFINE Same == {k \in Nat : k <= m => v[k] = w[k]}
    <2>1. 0 \in Same  BY <1>3 DEF IsWay
    <2>2. ASSUME NEW k \in Same PROVE k + 1 \in Same
      <3>1. k + 1 <= m => k + 1 \in 1 .. m /\ (k + 1) - 1 = k /\ k <= m  OBVIOUS
      <3> QED BY <1>3, <3>1 DEF IsWay
    <2>3. Same \subseteq Nat  OBVIOUS
    <2> HIDE DEF Same
    <2>4. Same = Nat  BY <2>1, <2>2, <2>3, Climbs
    <2> QED BY <2>4 DEF Same
  <1> HIDE DEF way
  <1>4. at[0] = a  BY <1>2 DEF IsWay
  <1>5. ASSUME NEW n \in Nat PROVE at[n + 1] = NextBlk(d, at[n])
    <2>1. IsWay(d, a, n + 1, way(n + 1)) /\ IsWay(d, a, n, way(n))  BY <1>2
    <2>2. IsWay(d, a, n, way(n + 1))  BY <2>1 DEF IsWay
    <2>3. way(n + 1)[n] = way(n)[n]  BY <1>3, <2>1, <2>2
    <2>4. n + 1 \in 1 .. n + 1 /\ (n + 1) - 1 = n  OBVIOUS
    <2>5. way(n + 1)[n + 1] = NextBlk(d, way(n + 1)[n])  BY <2>1, <2>4 DEF IsWay
    <2> QED BY <2>3, <2>5
  <1> DEFINE Rec(f) == f = [k \in Nat |-> IF k = 0 THEN a ELSE NextBlk(d, f[k - 1])]
  <1>6. Rec(at)
    <2>1. \A k \in Nat : at[k] = IF k = 0 THEN a ELSE NextBlk(d, at[k - 1])
      <3>1. \A k \in Nat : k # 0 => k - 1 \in Nat /\ (k - 1) + 1 = k  OBVIOUS
      <3> HIDE DEF at
      <3> QED BY <1>4, <1>5, <3>1
    <2> QED BY <2>1
  <1> HIDE DEF at
  <1> DEFINE f == CHOOSE g : Rec(g)
  <1>7. Rec(f)  BY <1>6
  <1>8. \A n \in Nat : Walk(d, a, n) = f[n]  BY Zenon DEF Walk
  <1> HIDE DEF f
  <1>9. f[0] = a /\ \A n \in Nat : f[n + 1] = NextBlk(d, f[n])
    <2>1. \A k \in Nat : f[k] = IF k = 0 THEN a ELSE NextBlk(d, f[k - 1])  BY <1>7
    <2>2. \A n \in Nat : n + 1 \in Nat /\ n + 1 # 0 /\ (n + 1) - 1 = n  OBVIOUS
    <2> QED BY <2>1, <2>2
  <1> QED BY <1>8, <1>9

\* A walk goes on from where another ends.
LEMMA WalkAdds ==
  ASSUME NEW d, NEW a, NEW m \in Nat, NEW n \in Nat
  PROVE  Walk(d, Walk(d, a, m), n) = Walk(d, a, m + n)
  <1> DEFINE T == {k \in Nat : Walk(d, Walk(d, a, m), k) = Walk(d, a, m + k)}
  <1>1. 0 \in T
    <2>1. Walk(d, Walk(d, a, m), 0) = Walk(d, a, m)  BY WalkIs
    <2> QED BY <2>1, m + 0 = m
  <1>2. ASSUME NEW k \in T PROVE k + 1 \in T
    <2> DEFINE b == Walk(d, a, m)
    <2>0. k \in Nat /\ Walk(d, b, k) = Walk(d, a, m + k)  OBVIOUS
    <2> HIDE DEF T, b
    <2>1. \A x : \A j \in Nat : Walk(d, x, j + 1) = NextBlk(d, Walk(d, x, j))
      <3>1. ASSUME NEW x PROVE \A j \in Nat : Walk(d, x, j + 1) = NextBlk(d, Walk(d, x, j))
        BY WalkIs
      <3> QED BY <3>1
    <2>2. m + k \in Nat /\ (m + k) + 1 = m + (k + 1)  BY <2>0
    <2>3. k + 1 \in Nat /\ Walk(d, b, k + 1) = Walk(d, a, m + (k + 1))
      BY <2>0, <2>1, <2>2
    <2> QED BY <2>3 DEF T, b
  <1>3. T \subseteq Nat  OBVIOUS
  <1> HIDE DEF T
  <1>4. T = Nat  BY <1>1, <1>2, <1>3, Climbs
  <1> QED BY <1>4 DEF T

\* Division with remainder by the cells of a block.
LEMMA Divided ==
  ASSUME NEW n \in Nat
  PROVE  /\ n \div PAYLOAD \in Nat /\ n % PAYLOAD \in 0 .. PAYLOAD - 1
         /\ n = PAYLOAD * (n \div PAYLOAD) + (n % PAYLOAD)
  <1>1. PAYLOAD \in Nat \ {0}  BY SlfsAssumption
  <1> QED BY <1>1, SMT

\* The block and the cell in it that a position n = PAYLOAD * q + r has.
LEMMA Quotient ==
  ASSUME NEW q \in Nat, NEW r \in 0 .. PAYLOAD - 1
  PROVE  (PAYLOAD * q + r) \div PAYLOAD = q /\ (PAYLOAD * q + r) % PAYLOAD = r
  <1> DEFINE P == PAYLOAD
             n == P * q + r
             u == n \div P
             v == n % P
  <1>1. P \in Nat \ {0}  BY SlfsAssumption
  <1>2. n \in Nat  BY <1>1
  <1>3. u \in Nat /\ v \in 0 .. P - 1 /\ n = P * u + v  BY <1>2, Divided
  <1>4. P * q + r = P * u + v  BY <1>3
  <1> HIDE DEF u, v, P
  <1>5. P * (q - u) = v - r  BY <1>1, <1>3, <1>4
  <1>6. ~(q - u >= 1)
    <2> SUFFICES ASSUME q - u >= 1 PROVE FALSE  OBVIOUS
    <2>1. P * (q - u) >= P  BY <1>1, <1>3
    <2> QED BY <1>1, <1>3, <1>5, <2>1 DEF P
  <1>7. ~(u - q >= 1)
    <2> SUFFICES ASSUME u - q >= 1 PROVE FALSE  OBVIOUS
    <2>1. P * (u - q) >= P /\ P * (u - q) = r - v  BY <1>1, <1>3, <1>4
    <2> QED BY <1>1, <1>3, <2>1 DEF P
  <1>8. u = q  BY <1>3, <1>6, <1>7
  <1>9. v = r  BY <1>1, <1>3, <1>4, <1>8
  <1> QED BY <1>8, <1>9 DEF u, v, P

\* The k-th byte of a file, by its block and its place there.
ByteAt(d, f, k) ==
  Cell(d, get_datablk_addr(d, f, (k - 1) \div PAYLOAD), 1 + ((k - 1) % PAYLOAD))

\* What slfs_read computes are those bytes, on both sides of every boundary between
\* blocks, whatever the position.
LEMMA ReadBytes ==
  ASSUME NEW d, NEW f, f.pos \in Nat, f.file_size \in Nat, f.pos <= f.file_size,
         NEW len \in Nat
  PROVE  /\ DOMAIN slfs_read(d, f, len) = 1 .. Smaller(len, f.file_size - f.pos)
         /\ \A k \in 1 .. Smaller(len, f.file_size - f.pos) :
              slfs_read(d, f, len)[k] = ByteAt(d, f, f.pos + k)
  <1> DEFINE P == PAYLOAD
             pos == f.pos
             a0 == f.datablk_addr
             bytes == Smaller(len, f.file_size - pos)
             idx == IdxPos(pos)
             offset == pos - idx * P
             addr == get_datablk_addr(d, f, idx)
             first == Smaller(P - offset, bytes)
  <1>1. P \in Nat \ {0} /\ bytes \in Nat  BY SlfsAssumption DEF Smaller
  <1>2. idx \in Nat /\ offset \in 0 .. P /\ pos = P * idx + offset
    <2>1. CASE pos = 0  BY <1>1, <2>1 DEF IdxPos
    <2>2. CASE pos # 0
      <3>1. pos - 1 \in Nat /\ idx = (pos - 1) \div P  BY <2>2 DEF IdxPos
      <3>2. idx \in Nat /\ (pos - 1) % P \in 0 .. P - 1 /\ pos - 1 = P * idx + ((pos - 1) % P)
        BY <3>1, Divided
      <3> DEFINE y == (pos - 1) % P
      <3>3. y \in 0 .. P - 1 /\ pos - 1 = P * idx + y /\ pos \in Nat  BY <3>2
      <3> HIDE DEF y, P, idx
      <3>4. pos = P * idx + (y + 1) /\ y + 1 \in 0 .. P  BY <1>1, <3>2, <3>3
      <3>5. offset = y + 1  BY <1>1, <3>2, <3>3
      <3> QED BY <3>2, <3>4, <3>5
    <2> QED BY <2>1, <2>2
  <1>3. slfs_read(d, f, len) =
          [k \in 1 .. bytes |->
             IF k <= first THEN Cell(d, addr, offset + k)
             ELSE Cell(d, Walk(d, addr, 1 + ((k - first - 1) \div P)), 1 + ((k - first - 1) % P))]
    BY Zenon DEF slfs_read
  <1>4. \A n \in Nat : get_datablk_addr(d, f, n) = Walk(d, a0, n)  BY DEF get_datablk_addr
  <1> HIDE DEF idx, offset, bytes, P
  <1>5. ASSUME NEW k \in 1 .. bytes, k <= first
        PROVE  Cell(d, addr, offset + k) = ByteAt(d, f, pos + k)
    <2>1. offset + k - 1 \in 0 .. P - 1  BY <1>1, <1>2, <1>5 DEF Smaller
    <2>2. pos + k - 1 = P * idx + (offset + k - 1)  BY <1>1, <1>2
    <2>3. (pos + k - 1) \div P = idx /\ (pos + k - 1) % P = offset + k - 1
      BY <1>2, <2>1, <2>2, Quotient DEF P
    <2>4. 1 + (offset + k - 1) = offset + k  BY <1>1, <1>2
    <2> QED BY <2>3, <2>4 DEF ByteAt, P
  <1>6. ASSUME NEW k \in 1 .. bytes, ~(k <= first)
        PROVE  Cell(d, Walk(d, addr, 1 + ((k - first - 1) \div P)), 1 + ((k - first - 1) % P))
                 = ByteAt(d, f, pos + k)
    <2> DEFINE rest == k - first - 1
               q == rest \div P
               r == rest % P
    <2>1. first = P - offset /\ rest \in Nat  BY <1>1, <1>2, <1>6 DEF Smaller
    <2>2. q \in Nat /\ r \in 0 .. P - 1 /\ rest = P * q + r  BY <2>1, Divided DEF P
    <2>3. pos + k - 1 = P * idx + P + rest  BY <1>1, <1>2, <2>1
    <2> HIDE DEF q, r
    <2>4. pos + k - 1 = P * (idx + 1 + q) + r  BY <1>1, <1>2, <2>2, <2>3
    <2>5. idx + 1 + q \in Nat  BY <1>2, <2>2
    <2>6. (pos + k - 1) \div P = idx + 1 + q /\ (pos + k - 1) % P = r
      BY <2>2, <2>4, <2>5, Quotient DEF P
    <2>7. Walk(d, addr, 1 + q) = Walk(d, a0, idx + (1 + q))  BY <1>2, <1>4, <2>2, WalkAdds
    <2>8. idx + (1 + q) = idx + 1 + q  BY <1>2, <2>2
    <2>9. get_datablk_addr(d, f, idx + 1 + q) = Walk(d, addr, 1 + q)  BY <1>4, <2>5, <2>7, <2>8
    <2> QED BY <2>6, <2>9 DEF ByteAt, P, q, r
  <1> HIDE DEF first, addr
  <1>7. DOMAIN slfs_read(d, f, len) = 1 .. bytes  BY <1>3
  <1>8. ASSUME NEW k \in 1 .. bytes PROVE slfs_read(d, f, len)[k] = ByteAt(d, f, pos + k)
    BY <1>3, <1>5, <1>6
  <1> QED BY <1>7, <1>8 DEF bytes

\* The fields of a file descriptor.
FileFields == {"name", "fd", "pos", "file_size", "datablk_addr", "inode_idx", "update_cnt",
               "allocedblk_num"}

\* The blocks that the open file's chain leads to hold its contents.
Held ==
  pf # Null =>
    /\ DOMAIN pf = FileFields /\ pf.name \in Names
    /\ pf.file_size = Len(truth[pf.name]) /\ pf.pos \in 0 .. pf.file_size
    /\ \A k \in 1 .. pf.file_size : truth[pf.name][k] = ByteAt(disk, pf, k)

\* A seek stays inside the file (slfs_seek).
LEMMA SeekInside ==
  ASSUME NEW f, DOMAIN f = FileFields, f.file_size \in Nat, f.pos \in 0 .. f.file_size,
         NEW offset \in Nat, NEW w \in {"SLFS_SEEK_SET", "SLFS_SEEK_CUR", "SLFS_SEEK_END"}
  PROVE  /\ DOMAIN slfs_seek(f, offset, w) = FileFields
         /\ slfs_seek(f, offset, w).pos \in 0 .. f.file_size
         /\ \A x \in FileFields \ {"pos"} : slfs_seek(f, offset, w)[x] = f[x]
  <1> DEFINE to == SeekTo(f, offset, w)
  <1>1. to \in Nat
    <2>1. WORD \in Nat \ {0}  BY SlfsAssumption
    <2>2. (f.file_size - offset) % WORD \in Nat  BY <2>1
    <2>3. CASE w = "SLFS_SEEK_SET"  BY <2>3 DEF SeekTo
    <2>4. CASE w = "SLFS_SEEK_CUR"  BY <2>4 DEF SeekTo
    <2>5. CASE w = "SLFS_SEEK_END"  BY <2>2, <2>5 DEF SeekTo, Unsigned
    <2> QED BY <2>3, <2>4, <2>5
  <1> HIDE DEF to
  <1>2. slfs_seek(f, offset, w) = IF to > f.file_size THEN f ELSE [f EXCEPT !.pos = to]
    BY DEF slfs_seek, to
  <1> QED BY <1>1, <1>2 DEF FileFields

\* A read that is typed as it should be gives the contents (slfs_read).
LEMMA ReadGives ==
  ASSUME NEW cells, NEW s \in Seq(cells), NEW d, NEW f, f.file_size = Len(s),
         f.pos \in 0 .. f.file_size, \A k \in 1 .. f.file_size : s[k] = ByteAt(d, f, k),
         NEW len \in Nat
  PROVE  slfs_read(d, f, len) = SubSeq(s, f.pos + 1, Smaller(f.pos + len, Len(s)))
  <1> DEFINE n == Smaller(len, f.file_size - f.pos)
             t == slfs_read(d, f, len)
             m == Smaller(f.pos + len, Len(s))
             u == SubSeq(s, f.pos + 1, m)
  <1>1. f.pos \in Nat /\ f.file_size \in Nat /\ f.pos <= f.file_size  OBVIOUS
  <1>2. DOMAIN t = 1 .. n /\ \A k \in 1 .. n : t[k] = ByteAt(d, f, f.pos + k)
    <2> HIDE DEF m, u
    <2>1. DOMAIN slfs_read(d, f, len) = 1 .. n  BY DEF slfs_read
    <2>2. \A k \in 1 .. n : slfs_read(d, f, len)[k] = ByteAt(d, f, f.pos + k)
      BY <1>1, ReadBytes
    <2> HIDE DEF n
    <2> QED BY <2>1, <2>2 DEF t
  <1>3. n \in Nat /\ m = f.pos + n /\ f.pos + n <= Len(s)  BY <1>1 DEF Smaller
  <1> HIDE DEF n, t, m
  <1>4. \A k \in 1 .. n : f.pos + k \in 1 .. f.file_size  BY <1>1, <1>3
  <1>5. \A k \in 1 .. n : t[k] = s[f.pos + k] /\ t[k] \in cells  BY <1>2, <1>4
  <1>6. t = [k \in 1 .. n |-> t[k]]  BY <1>2 DEF t, slfs_read
  <1>7. t \in Seq(cells) /\ Len(t) = n
    <2>1. t \in [1 .. n -> cells]  BY <1>5, <1>6
    <2> QED BY <1>3, <2>1
  <1>8. /\ u \in Seq(cells) /\ Len(u) = n
        /\ \A k \in 1 .. n : u[k] = s[f.pos + k]
    <2> DEFINE p == f.pos + 1
    <2>1. p \in 1 .. Len(s) + 1 /\ m \in p - 1 .. Len(s)  BY <1>1, <1>3
    <2>2. m - p + 1 = n /\ (p <= m => n = m - p + 1) /\ (~(p <= m) => n = 0)
      BY <1>1, <1>3
    <2>3. \A k \in 1 .. n : p + k - 1 = f.pos + k  BY <1>1, <1>3
    <2> HIDE DEF p
    <2>4. /\ SubSeq(s, p, m) \in Seq(cells)
          /\ Len(SubSeq(s, p, m)) = IF p <= m THEN m - p + 1 ELSE 0
          /\ \A k \in 1 .. m - p + 1 : SubSeq(s, p, m)[k] = s[p + k - 1]
      BY <2>1, SubSeqProperties
    <2>5. u = SubSeq(s, p, m)  BY DEF p
    <2> HIDE DEF u
    <2> QED BY <2>2, <2>3, <2>4, <2>5
  <1> HIDE DEF u
  <1>9. t = u  BY <1>5, <1>7, <1>8, SeqEqual
  <1> QED BY <1>9 DEF t, u, m

\* If the files are whole (FilesWhole), what is read of an opened file is what was stored,
\* after any seeks (slfs_open, slfs_seek, slfs_read).
THEOREM ReadBackFromWhole ==
  ASSUME NEW cells, \A n \in Names : truth[n] \in Seq(cells),
         FilesWhole, Held,
         \/ \E n \in Names : Open(n)
         \/ \E offset \in Lengths, w \in {"SLFS_SEEK_SET", "SLFS_SEEK_CUR", "SLFS_SEEK_END"} :
              Seek(offset, w)
         \/ \E len \in Lengths : Read(len)
         \/ Close
  PROVE  Held' /\ ReadBack'
  <1>1. Lengths \subseteq Nat  BY SlfsAssumption
  <1>2. ASSUME NEW n \in Names, Open(n) PROVE Held' /\ ReadBack'
    <2> DEFINE f == slfs_open(disk, n)
    <2>1. UNCHANGED <<disk, truth>> /\ (pf' = f \/ pf' = Null) /\ got' = Null /\ shell = "up"
      BY <1>2, Zenon DEF Open
    <2>2. DOMAIN f = FileFields /\ f.name = n /\ f.pos = 0  BY DEF slfs_open, FileFields
    <2> HIDE DEF f
    <2>3. /\ f.file_size = Len(truth[n])
          /\ n \in Files => slfs_read(disk, f, f.file_size) = truth[n]
      BY <2>1 DEF FilesWhole, f
    <2>4. truth[n] \in Seq(cells) /\ f.file_size \in Nat  BY <2>3
    <2>5. \A k \in 1 .. f.file_size : truth[n][k] = ByteAt(disk, f, k)
      <3>1. CASE truth[n] = <<>>  BY <2>3, <3>1
      <3>2. CASE truth[n] # <<>>
        <4>1. slfs_read(disk, f, f.file_size) = truth[n]  BY <2>3, <3>2 DEF Files
        <4>2. Smaller(f.file_size, f.file_size - f.pos) = f.file_size  BY <2>2, <2>4 DEF Smaller
        <4>3. \A k \in 1 .. f.file_size :
                slfs_read(disk, f, f.file_size)[k] = ByteAt(disk, f, f.pos + k)
          BY <2>2, <2>4, <4>2, ReadBytes
        <4>4. \A k \in 1 .. f.file_size : f.pos + k = k  BY <2>2, <2>4
        <4> QED BY <2>3, <4>1, <4>3, <4>4
      <3> QED BY <3>1, <3>2
    <2>6. f.pos \in 0 .. f.file_size  BY <2>2, <2>4
    <2>7. ASSUME pf' = f PROVE Held'
      BY <2>1, <2>2, <2>3, <2>5, <2>6, <2>7 DEF Held, ByteAt
    <2>8. ASSUME pf' = Null PROVE Held'  BY <2>8 DEF Held
    <2>9. ReadBack'  BY <2>1 DEF ReadBack
    <2> QED BY <2>1, <2>7, <2>8, <2>9
  <1>3. ASSUME NEW offset \in Lengths,
               NEW w \in {"SLFS_SEEK_SET", "SLFS_SEEK_CUR", "SLFS_SEEK_END"}, Seek(offset, w)
        PROVE  Held' /\ ReadBack'
    <2>1. UNCHANGED <<disk, truth>> /\ pf' = slfs_seek(pf, offset, w) /\ got' = Null /\ pf # Null
      BY <1>3 DEF Seek
    <2>2. ReadBack'  BY <2>1 DEF ReadBack
    <2>3. /\ DOMAIN pf = FileFields /\ pf.name \in Names
          /\ pf.file_size = Len(truth[pf.name]) /\ pf.pos \in 0 .. pf.file_size
          /\ \A k \in 1 .. pf.file_size : truth[pf.name][k] = ByteAt(disk, pf, k)
      BY <2>1 DEF Held
    <2>4. DOMAIN pf' = FileFields /\ \A x \in FileFields \ {"pos"} : pf'[x] = pf[x]
      <3>1. pf' = pf \/ pf' = [pf EXCEPT !.pos = SeekTo(pf, offset, w)]
        BY <2>1, Zenon DEF slfs_seek
      <3> QED BY <2>3, <3>1
    <2>5. pf'.name = pf.name /\ pf'.file_size = pf.file_size /\ pf'.datablk_addr = pf.datablk_addr
      BY <2>4 DEF FileFields
    <2>6. \A k \in Nat : ByteAt(disk', pf', k) = ByteAt(disk, pf, k)
      BY <2>1, <2>5 DEF ByteAt, get_datablk_addr
    <2>7. pf'.pos \in 0 .. pf.file_size
      <3>1. truth[pf.name] \in Seq(cells)  BY <2>3
      <3>2. pf.file_size \in Nat /\ offset \in Nat  BY <1>1, <2>3, <3>1
      <3> QED BY <2>1, <2>3, <3>2, SeekInside
    <2>8. Held'
      <3>1. disk' = disk /\ truth' = truth  BY <2>1
      <3> QED BY <2>3, <2>4, <2>5, <2>6, <2>7, <3>1 DEF Held
    <2> QED BY <2>2, <2>8
  <1>4. ASSUME NEW len \in Lengths, Read(len) PROVE Held' /\ ReadBack'
    <2>1. /\ UNCHANGED <<disk, pf, truth>> /\ pf # Null
          /\ got' = [len |-> len, bytes |-> slfs_read(disk, pf, len)]
      BY <1>4 DEF Read
    <2>2. Held'  BY <2>1 DEF Held, ByteAt
    <2>3. slfs_read(disk, pf, len)
            = SubSeq(truth[pf.name], pf.pos + 1, Smaller(pf.pos + len, Len(truth[pf.name])))
      <3>1. truth[pf.name] \in Seq(cells) /\ len \in Nat  BY <1>1, <2>1 DEF Held
      <3> QED BY <2>1, <3>1, ReadGives DEF Held
    <2>4. ReadBack'  BY <2>1, <2>3 DEF ReadBack
    <2> QED BY <2>2, <2>4
  <1>5. CASE Close  BY <1>5 DEF Close, Held, ReadBack
  <1> QED BY <1>2, <1>3, <1>4, <1>5

=============================================================================
