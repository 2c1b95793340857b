-------------------------------- MODULE Slfs --------------------------------
(***************************************************************************)
(* SLFS, the copy-on-write file system of the ramdisk (fs/slfs/slfs.c on   *)
(* drivers/ramdisk/ramdisk_io.c), as fs/fs.c mounts and uses it.           *)
(*                                                                         *)
(* The flash holds a metadata page (magic string and inode table) and data *)
(* blocks.  A block is PAYLOAD cells and a tail of two words, prev and     *)
(* next; -1 (MINUS_ONE) is an erased word, 0 ends a chain.  The swap page, *)
(* where a page is backed up before it is rewritten, is represented by its *)
(* last block, SWAP, whose next word is the tail word of the page:         *)
(* SLFS_DATABLK_MAX_CNT counts the swap page among the data blocks, and so *)
(* does the model.                                                         *)
(*                                                                         *)
(* An operation is a run: the sequence of disks its flash writes produce,  *)
(* with the file descriptor and the result it ends with.  A half-copied    *)
(* page counts as an erased one, since the code only looks at its magic    *)
(* string or at its tail.  The state machine takes the last disk: the      *)
(* flash is RAM, and fs_mount erases it before every mount, so that what a *)
(* loss of power leaves in the middle of a run is never mounted.           *)
(***************************************************************************)
EXTENDS Integers, Sequences, SequencesExt

CONSTANTS Names,     \* file names
          Null,      \* no name, no file, no backup
          Blank,     \* an erased cell (0xFF)
          Junk,      \* a cell with an unspecified value
          PAYLOAD,   \* cells of a block (SLFS_DATABLK_PAYLOAD_SIZE)
          NBLKS,     \* blocks (SLFS_DATABLK_MAX_CNT), the swap page last
          INODES,    \* inodes (SLFS_INODE_MAX_CNT)
          WORD,      \* values of an unsigned word (2^32)
          Sizes,     \* lengths a caller writes
          Lengths,   \* lengths a caller reads and seeks by
          Stack,     \* words an uninitialised local may hold
          Updates    \* may a file be written again while it is open?

\* A word of the stack is erased, 0 or the address of no block.
ASSUME SlfsAssumption ==
    /\ {PAYLOAD, NBLKS, INODES, WORD} \subseteq Nat \ {0}
    /\ Sizes \cup Lengths \subseteq Nat \ {0}
    /\ Stack \cap (1 .. NBLKS) = {}
    /\ Updates \in BOOLEAN

MINUS_ONE == -1

VARIABLES disk,    \* [meta, blk, swap]: swap is the metadata page backed up
          pf,      \* the open file, or Null
          shell,   \* "off" before the first mount, "up", or "spins" for ever
          got,     \* what the last read returned, or Null
          truth    \* for each name the contents last stored

slfsVars == <<disk, pf, shell, got, truth>>

Inodes == 0 .. INODES - 1
Blks == 1 .. NBLKS
SWAP == NBLKS

\* rest is the word of bytes 12 to 15 of the name, past the end of a short one.
FreeInode == [inode_idx |-> MINUS_ONE, update_cnt |-> MINUS_ONE,
              file_size |-> MINUS_ONE, datablk_addr |-> MINUS_ONE,
              file_id |-> MINUS_ONE, name |-> Null, rest |-> MINUS_ONE]

FreeBlk == [data |-> [i \in 1 .. PAYLOAD |-> Blank],
            prev |-> MINUS_ONE, next |-> MINUS_ONE]

ErasedPage == [magic |-> FALSE, inode |-> [i \in Inodes |-> FreeInode]]

erase_chip == [meta |-> ErasedPage, blk |-> [b \in Blks |-> FreeBlk], swap |-> Null]

\* The address of inode i, which the first block of its chain points back to.
InodeAddr(i) == -2 - i

Unsigned(w) == w % WORD

Smaller(a, b) == IF a < b THEN a ELSE b
Larger(a, b) == IF a > b THEN a ELSE b

-----------------------------------------------------------------------------
(* Runs: the disks written so far, the descriptor, and the result.         *)

Begin(d, f) == [disks |-> <<d>>, f |-> f, ok |-> TRUE]
Now(r) == Last(r.disks)
Put(r, d) == [r EXCEPT !.disks = Append(@, d)]
Fail(r) == [r EXCEPT !.ok = FALSE]

PutInode(r, i, inode) == Put(r, [Now(r) EXCEPT !.meta.inode[i] = inode])
PutTail(r, b, prev, next) ==
    Put(r, [Now(r) EXCEPT !.blk[b].prev = prev, !.blk[b].next = next,
                          !.swap = IF b = SWAP THEN Null ELSE @])
PutData(r, b, cells) ==
    Put(r, [Now(r) EXCEPT !.blk[b].data = [k \in 1 .. PAYLOAD |->
                              IF k \in DOMAIN cells THEN cells[k] ELSE @[k]],
                          !.swap = IF b = SWAP THEN Null ELSE @])

-----------------------------------------------------------------------------
(* Pages.  Only the metadata page is ever rewritten: the data pages would  *)
(* be by delete_datablks, which never gets that far.                       *)

EraseSwap(d) == [d EXCEPT !.swap = Null, !.blk[SWAP] = FreeBlk]

\* Steps 1 and 2: the backup, whose tail word 0 says it is a metadata page.
BackUp(r, page) ==
    LET erased == EraseSwap(Now(r))
    IN  Put(Put(r, erased),
            [erased EXCEPT !.swap = page, !.blk[SWAP].next = 0])

\* The page is erased and copied from the swap page: garbage unless the swap
\* page holds a backup.
CopyBack(r) ==
    LET d == Now(r)
        page == IF d.swap = Null THEN ErasedPage ELSE d.swap
    IN  Put(Put(r, [d EXCEPT !.meta = ErasedPage]), [d EXCEPT !.meta = page])

rw_page(r, page) ==
    LET copied == CopyBack(BackUp(r, page))
    IN  Put(copied, EraseSwap(Now(copied)))

recover_page(r) == CopyBack(r)

-----------------------------------------------------------------------------
(* Inodes and blocks.                                                      *)

FreeInodes(d) == {i \in Inodes : d.meta.inode[i].file_size = MINUS_ONE}

update_fp(d, f) ==
    LET i == CHOOSE j \in FreeInodes(d) : \A k \in FreeInodes(d) : j <= k
    IN  [f EXCEPT !.inode_idx = i, !.update_cnt = @ + 1,
                  !.fd = IF @ = MINUS_ONE THEN i ELSE @]

\* Mutant: only the next word is looked at, which the last block has as 0.
IsFreeIfLast(d, b) == d.blk[b].next \in {MINUS_ONE, 0}

\* The tail words show whether a block is free.
IsFree(d, b) == d.blk[b].prev = MINUS_ONE /\ d.blk[b].next = MINUS_ONE

BlocksFor(size) == (size + PAYLOAD - 1) \div PAYLOAD

\* The first free blocks are chained to the inode, each tail written when the
\* next block has been found.
alloc_datablk(r, len) ==
    LET size == Larger(r.f.file_size, r.f.pos + len)
        need == BlocksFor(size)
        free == SelectSeq([b \in Blks |-> b], LAMBDA b : IsFree(Now(r), b))
        found == Smaller(need, Len(free))
        idx == r.f.inode_idx
        prev(j) == IF j = 1 THEN InodeAddr(idx) ELSE free[j - 1]
        opened == IF found = 0 THEN r
                  ELSE PutInode([r EXCEPT !.f.datablk_addr = free[1]], idx,
                                [Now(r).meta.inode[idx] EXCEPT
                                    !.file_size = size, !.datablk_addr = free[1]])
        linked == FoldLeft(LAMBDA s, j : PutTail(s, free[j], prev(j), free[j + 1]),
                           opened, [j \in 1 .. found - 1 |-> j])
        done == [linked EXCEPT !.f.file_size = size]
    IN  IF found < need THEN Fail(done)
        ELSE PutTail([done EXCEPT !.f.allocedblk_num = need],
                     free[need], prev(need), 0)

\* The inode whose name the word at address 0 + 508 lies in.
LASTWORD == 5

\* An unspecified word of the caller's name, kept of that inode only.
Rest(i, word) == IF i = LASTWORD THEN word ELSE MINUS_ONE

\* The word after a block.  Past the end of a chain it is read at address 0;
\* a word that is no address ends the walk.
NextBlk(d, a) ==
    CASE a \in Blks -> d.blk[a].next
      [] a = 0 -> IF LASTWORD \in Inodes THEN d.meta.inode[LASTWORD].rest ELSE MINUS_ONE
      [] OTHER -> a

Walk(d, a, n) ==
    LET at[k \in Nat] == IF k = 0 THEN a ELSE NextBlk(d, at[k - 1])
    IN  at[n]

\* The word the walk ends at, or an address that it passes again and again.
WalkEnd(d, a) == Walk(d, a, NBLKS + 1)

\* The loop stops at an erased word, not at 0: one more than the blocks.
get_datablk_num(d, a) ==
    CHOOSE n \in 0 .. NBLKS + 1 :
        /\ Walk(d, a, n) = MINUS_ONE
        /\ \A m \in 0 .. n - 1 : Walk(d, a, m) # MINUS_ONE

get_datablk_addr(d, f, idx) == Walk(d, f.datablk_addr, idx)

\* delete_datablks follows the chain at the offsets themselves, outside the
\* ramdisk, where nothing stores a chain: it finds it broken and its caller
\* goes on.
delete_datablks(r, inode) == r

\* Step 2 takes the result of a read that succeeds for a failure, so that it
\* ends at the first file that was deleted; otherwise the inodes without a
\* CLOSE event are cleared.
collect_garbage(r) ==
    LET inode == Now(r).meta.inode
        used == SelectSeq([k \in 1 .. INODES |-> inode[k - 1]],
                          LAMBDA n : n.file_size # MINUS_ONE)
        dangled == SelectSeq(used, LAMBDA n : n.update_cnt = MINUS_ONE)
        deleted == SelectSeq(used, LAMBDA n : /\ n.update_cnt # MINUS_ONE
                                              /\ n.file_size = 0
                                              /\ n.datablk_addr = 0)
        freed == FoldLeft(delete_datablks, r, dangled)
        page == [Now(r).meta EXCEPT !.inode = [i \in Inodes |->
                    IF inode[i].update_cnt = MINUS_ONE THEN FreeInode ELSE inode[i]]]
    IN  IF deleted # <<>> /\ Head(deleted).file_id # MINUS_ONE THEN Fail(freed)
        ELSE rw_page(freed, page)

\* update_fp, after a garbage collection when no inode is free.
NewInode(r) ==
    LET swept == IF FreeInodes(Now(r)) = {} THEN collect_garbage(r) ELSE r
    IN  IF ~swept.ok \/ FreeInodes(Now(swept)) = {} THEN Fail(swept)
        ELSE [swept EXCEPT !.f = update_fp(Now(swept), @)]

\* alloc_datablk, tried once more after a garbage collection.
NewBlocks(r, len) ==
    LET first == alloc_datablk(r, len)
        swept == collect_garbage([first EXCEPT !.ok = TRUE])
    IN  IF first.ok THEN first
        ELSE IF ~swept.ok THEN swept ELSE alloc_datablk(swept, len)

-----------------------------------------------------------------------------
(* Files.                                                                  *)

\* Mutant: the comparison of the counts is turned round.
Oldest(d, n) ==
    LET named == {i \in Inodes : d.meta.inode[i].name = n}
        cnt(i) == Unsigned(d.meta.inode[i].update_cnt)
    IN  CHOOSE i \in named : \A j \in named :
            cnt(j) > cnt(i) \/ (cnt(j) = cnt(i) /\ i <= j)

\* The inode of that name with the largest update_cnt, the first of equals.
Newest(d, n) ==
    LET named == {i \in Inodes : d.meta.inode[i].name = n}
        cnt(i) == Unsigned(d.meta.inode[i].update_cnt)
    IN  CHOOSE i \in named : \A j \in named :
            cnt(j) < cnt(i) \/ (cnt(j) = cnt(i) /\ i <= j)

Exists(d, n) ==
    /\ \E i \in Inodes : d.meta.inode[i].name = n
    /\ d.meta.inode[Newest(d, n)].inode_idx # MINUS_ONE

FirstBlk(d, n) == d.meta.inode[Newest(d, n)].datablk_addr

slfs_open(d, n) ==
    LET inode == d.meta.inode[Newest(d, n)]
    IN  IF Exists(d, n)
        THEN [name |-> n, fd |-> inode.file_id, pos |-> 0,
              file_size |-> inode.file_size, datablk_addr |-> inode.datablk_addr,
              inode_idx |-> inode.inode_idx, update_cnt |-> inode.update_cnt,
              allocedblk_num |-> get_datablk_num(d, inode.datablk_addr)]
        ELSE [name |-> n, fd |-> MINUS_ONE, pos |-> 0, file_size |-> 0,
              datablk_addr |-> MINUS_ONE, inode_idx |-> MINUS_ONE,
              update_cnt |-> 0, allocedblk_num |-> 0]

\* The position a seek asks for, as an unsigned word.
SeekTo(f, offset, whence) ==
    CASE whence = "SLFS_SEEK_SET" -> offset
      [] whence = "SLFS_SEEK_CUR" -> f.pos + offset
      [] whence = "SLFS_SEEK_END" -> Unsigned(f.file_size - offset)

slfs_seek(f, offset, whence) ==
    IF SeekTo(f, offset, whence) > f.file_size THEN f
    ELSE [f EXCEPT !.pos = SeekTo(f, offset, whence)]

\* The block a position is read from: a position on a boundary belongs to the
\* end of the block before it.
IdxPos(pos) == IF pos = 0 THEN 0 ELSE (pos - 1) \div PAYLOAD

Cell(d, a, k) == IF a \in Blks THEN d.blk[a].data[k] ELSE Junk

\* Mutant: the chain is not followed.
ReadOneBlock(d, f, len) ==
    [k \in 1 .. Smaller(len, f.file_size - f.pos) |->
        Cell(d, get_datablk_addr(d, f, IdxPos(f.pos)), 1 + ((f.pos + k - 1) % PAYLOAD))]

slfs_read(d, f, len) ==
    LET bytes == Smaller(len, f.file_size - f.pos)
        idx == IdxPos(f.pos)
        offset == f.pos - idx * PAYLOAD
        addr == get_datablk_addr(d, f, idx)
        first == Smaller(PAYLOAD - offset, bytes)
        rest(k) == k - first - 1
    IN  [k \in 1 .. bytes |->
            IF k <= first THEN Cell(d, addr, offset + k)
            ELSE Cell(d, Walk(d, addr, 1 + (rest(k) \div PAYLOAD)),
                      1 + (rest(k) % PAYLOAD))]

\* Step 4: the local inode is written to the flash before it is filled in,
\* and its update_cnt is not set at all; of the name the descriptor holds the
\* bytes before its NUL.
WriteInode(r, word) ==
    LET opened == [FreeInode EXCEPT !.inode_idx = word, !.update_cnt = word,
                       !.datablk_addr = word, !.file_id = word,
                       !.rest = Rest(r.f.inode_idx, word),
                       !.file_size = r.f.file_size]
        filled == [opened EXCEPT !.inode_idx = r.f.inode_idx, !.file_id = r.f.fd,
                       !.datablk_addr = r.f.datablk_addr, !.name = r.f.name]
    IN  PutInode(PutInode(r, r.f.inode_idx, opened), r.f.inode_idx, filled)

\* Step 5: the first data of a file, block after block.
WriteFirst(r, src) ==
    FoldLeft(LAMBDA s, j :
                PutData(s, Walk(Now(r), r.f.datablk_addr, j - 1),
                        SubSeq(src, (j - 1) * PAYLOAD + 1, Smaller(j * PAYLOAD, Len(src)))),
             r, [j \in 1 .. BlocksFor(Len(src)) |-> j])

\* A byte of the caller's buffer: outside it, whatever lies there.
Byte(src, k) == IF k \in DOMAIN src THEN src[k] ELSE Junk

\* Step 6-1: block i of the file's previous version is copied, with the new
\* bytes where they fall into it and erased cells after the last of them.
\* The next old block is looked up outside the ramdisk: the word found there
\* is an offset into it (inside) or makes the next read fail.
CopyBlock(c, i, src, inside) ==
    LET d == Now(c.r)
        old == IF i = 1 THEN d.blk[c.old].data ELSE [k \in 1 .. PAYLOAD |-> Junk]
        hit == c.left > 0 /\ c.pos < PAYLOAD
        len == IF hit THEN Smaller(PAYLOAD - c.pos, c.left) ELSE c.len
        cells == IF ~hit THEN old
                 ELSE [k \in 1 .. PAYLOAD |->
                          IF k <= c.pos THEN old[k]
                          ELSE IF k <= c.pos + len THEN Byte(src, c.bp + k - c.pos)
                          ELSE Blank]
    IN  IF ~c.r.ok THEN c
        ELSE IF i > 1 /\ ~inside THEN [c EXCEPT !.r = Fail(@)]
        ELSE [r |-> PutData(c.r, c.new, cells), old |-> c.old,
              new |-> NextBlk(d, c.new), len |-> len,
              pos |-> IF hit THEN 0 ELSE Unsigned(c.pos - PAYLOAD),
              left |-> IF hit THEN c.left - len ELSE c.left,
              bp |-> IF hit THEN c.bp + len ELSE c.bp,
              written |-> IF len = MINUS_ONE THEN MINUS_ONE ELSE c.written + len]

\* Step 6-2: what is left goes to the additional blocks.  written grows with
\* every block and the index of the block is added to it once more; it is
\* unspecified (MINUS_ONE) when len has been added before it was set.
AppendBlock(c, i, src) ==
    LET len == Smaller(c.left, PAYLOAD)
        from == c.written + (i - 1) * PAYLOAD
        cells == [k \in 1 .. len |-> IF c.written = MINUS_ONE THEN Junk
                                     ELSE Byte(src, from + k)]
    IN  IF ~c.r.ok \/ c.left = 0 THEN c
        ELSE [c EXCEPT !.r = PutData(@, c.new, cells), !.left = @ - len,
                       !.new = NextBlk(Now(c.r), @),
                       !.written = IF @ = MINUS_ONE THEN @ ELSE @ + len]

\* Step 6: prev is the descriptor before this write.
WriteUpdate(r, prev, src, inside) ==
    LET n == prev.allocedblk_num
        start == [r |-> r, old |-> prev.datablk_addr, new |-> r.f.datablk_addr,
                  len |-> MINUS_ONE, pos |-> r.f.pos, left |-> Len(src),
                  bp |-> 0, written |-> 0]
        copied == FoldLeft(LAMBDA c, i : CopyBlock(c, i, src, inside), start,
                           [i \in 1 .. n |-> i])
        more == [i \in 1 .. Larger(r.f.allocedblk_num - n, 0) |-> i]
    IN  FoldLeft(LAMBDA c, i : AppendBlock(c, i, src), copied, more).r

\* Step 7, the CLOSE event.
CloseInode(r) ==
    LET i == r.f.inode_idx
    IN  PutInode(r, i, [Now(r).meta.inode[i] EXCEPT !.update_cnt = r.f.update_cnt])

slfs_write(d, f, src, word, inside) ==
    LET sized == [f EXCEPT !.file_size = IF f.file_size = 0 THEN Len(src)
                                         ELSE Larger(@, f.pos + Len(src))]
        numbered == NewInode(Begin(d, sized))
        alloced == NewBlocks(numbered, Len(src))
        opened == WriteInode(alloced, word)
        written == IF f.file_size = 0 THEN WriteFirst(opened, src)
                   ELSE WriteUpdate(opened, f, src, inside)
    IN  IF ~numbered.ok THEN numbered
        ELSE IF ~alloced.ok THEN alloced
        ELSE IF ~written.ok THEN written
        ELSE CloseInode(written)

\* A zeroed inode of the same name, newer than the file's.
slfs_delete(d, f, word) ==
    LET inode == IF f.inode_idx = MINUS_ONE THEN FreeInode ELSE d.meta.inode[f.inode_idx]
        numbered == NewInode(Begin(d, f))
    IN  IF ~numbered.ok THEN numbered
        ELSE PutInode(numbered, numbered.f.inode_idx,
                      [inode EXCEPT !.inode_idx = numbered.f.inode_idx,
                                    !.update_cnt = numbered.f.update_cnt,
                                    !.rest = Rest(numbered.f.inode_idx, word),
                                    !.file_size = 0, !.datablk_addr = 0])

\* The magic string is all that later calls look at.  A write that succeeds is
\* taken for a failure.
init_metadata(r) == Fail(Put(r, [Now(r) EXCEPT !.meta.magic = TRUE]))

\* The read at the absolute address of the ramdisk fails, which is taken for
\* success, and the superblock it did not fill has no magic string.
load_superblk(r) == Fail(r)

\* Step 1 restores the metadata page when the swap page ends in 0 (the garbage
\* page table stays empty: only a data page enters it); step 2 formats a disk
\* without magic string.
slfs_mount(r) ==
    LET tail == Now(r).blk[SWAP].next
        recovered == IF tail = 0 THEN recover_page(r) ELSE r
    IN  IF Now(recovered).meta.magic THEN load_superblk(recovered)
        ELSE init_metadata(Put(recovered, erase_chip))

\* A mount that fails is tried once more on an erased chip, with no look at how
\* it ends.
fs_mount(r) ==
    LET first == slfs_mount(Put(r, erase_chip))
        last == IF first.ok THEN first ELSE slfs_mount(Put(first, erase_chip))
    IN  [last EXCEPT !.ok = TRUE]

-----------------------------------------------------------------------------
(* The callers: create_ramdisk_fs mounts the disk, opens, writes and       *)
(* closes; load_ramdisk_app opens, seeks, reads and closes.                *)

SlfsInit ==
    /\ disk = erase_chip
    /\ pf = Null
    /\ shell = "off"
    /\ got = Null
    /\ truth = [n \in Names |-> <<>>]

\* What the caller means to write: cells no other write produces.
Source(f, len) == [k \in 1 .. len |-> <<f.name, f.update_cnt, k>>]

\* The contents after src has been written at the position of f.
Stored(old, f, src) ==
    IF f.file_size = 0 THEN src
    ELSE [k \in 1 .. Larger(Len(old), f.pos + Len(src)) |->
             IF k \in f.pos + 1 .. f.pos + Len(src) THEN src[k - f.pos] ELSE old[k]]

\* Each "apprun" of the shell mounts, and with it erases, the disk once more.
FsMount ==
    /\ shell # "spins" /\ pf = Null
    /\ disk' = Now(fs_mount(Begin(disk, Null)))
    /\ shell' = "up"
    /\ truth' = [n \in Names |-> <<>>]
    /\ UNCHANGED <<pf, got>>

\* The open counts the blocks of the file: it fails at a word that is no
\* address, and goes round for ever when the walk does not end.
Open(n) ==
    LET f == slfs_open(disk, n)
        end == IF Exists(disk, n) THEN WalkEnd(disk, FirstBlk(disk, n)) ELSE MINUS_ONE
    IN  /\ shell = "up" /\ pf = Null
        /\ pf' = IF end = MINUS_ONE THEN f ELSE Null
        /\ shell' = IF end \in Blks \cup {0} THEN "spins" ELSE shell
        /\ got' = Null
        /\ UNCHANGED <<disk, truth>>

Seek(offset, whence) ==
    /\ pf # Null
    /\ pf' = slfs_seek(pf, offset, whence)
    /\ got' = Null
    /\ UNCHANGED <<disk, shell, truth>>

Read(len) ==
    /\ pf # Null
    /\ pf.file_size # 0 /\ pf.datablk_addr # MINUS_ONE
    /\ got' = [len |-> len, bytes |-> slfs_read(disk, pf, len)]
    /\ UNCHANGED <<disk, pf, shell, truth>>

\* A caller gives up a file it fails to write.
Write(len) ==
    /\ pf # Null
    /\ \/ pf.file_size = 0
       \/ Updates /\ pf.allocedblk_num = BlocksFor(pf.file_size)
    /\ \E word \in Stack, inside \in IF Updates THEN BOOLEAN ELSE {FALSE} :
        LET src == Source(pf, len)
            r == slfs_write(disk, pf, src, word, inside)
        IN  /\ disk' = Now(r)
            /\ pf' = IF r.ok THEN r.f ELSE Null
            /\ truth' = [truth EXCEPT ![pf.name] = IF r.ok THEN Stored(@, pf, src) ELSE @]
    /\ got' = Null
    /\ UNCHANGED shell

\* The caller drops the descriptor of a file it has deleted.
Delete ==
    /\ pf # Null
    /\ \E word \in Stack :
        LET r == slfs_delete(disk, pf, word)
        IN  /\ disk' = Now(r)
            /\ truth' = [truth EXCEPT ![pf.name] = IF r.ok THEN <<>> ELSE @]
    /\ pf' = Null
    /\ got' = Null
    /\ UNCHANGED shell

\* slfs_close resets the descriptor, which its caller drops.
Close ==
    /\ pf # Null
    /\ pf' = Null
    /\ got' = Null
    /\ UNCHANGED <<disk, shell, truth>>

SlfsNext ==
    \/ FsMount
    \/ \E n \in Names : Open(n)
    \/ \E offset \in Lengths, w \in {"SLFS_SEEK_SET", "SLFS_SEEK_CUR", "SLFS_SEEK_END"} :
            Seek(offset, w)
    \/ \E len \in Lengths : Read(len)
    \/ \E len \in Sizes : Write(len)
    \/ Delete \/ Close

SlfsSpec == SlfsInit /\ [][SlfsNext]_slfsVars

-----------------------------------------------------------------------------
(* Properties.                                                             *)

Files == {n \in Names : truth[n] # <<>>}

Chain(d, f) == [k \in 1 .. BlocksFor(f.file_size) |-> get_datablk_addr(d, f, k - 1)]

\* A read returns the bytes that were last stored, from the position sought
\* and across the blocks (slfs_read, slfs_seek against slfs_write).
ReadBack ==
    got # Null =>
        got.bytes = SubSeq(truth[pf.name], pf.pos + 1,
                           Smaller(pf.pos + got.len, Len(truth[pf.name])))

\* Whatever was written, deleted or given up for want of an inode or of blocks,
\* and whatever garbage was collected, an open finds each file with the size
\* and the contents last stored, and none that was deleted (slfs_open against
\* slfs_write, slfs_delete, alloc_datablk and collect_garbage).
FilesWhole ==
    shell = "up" => \A n \in Names :
        LET f == slfs_open(disk, n)
        IN  /\ f.file_size = Len(truth[n])
            /\ n \in Files => slfs_read(disk, f, f.file_size) = truth[n]

\* The chain of a file is linked both ways from its inode to a last next of
\* 0, and no block is in the chains of two files: neither an inode that is
\* used again nor an allocation that ran out of blocks and was tried again
\* after the garbage collection hands out a block twice (alloc_datablk,
\* slfs_write 3-1).
ChainsSound ==
    shell = "up" => \A n \in Files :
        LET f == slfs_open(disk, n)
            c == Chain(disk, f)
            prev(k) == IF k = 1 THEN InodeAddr(f.inode_idx) ELSE c[k - 1]
            next(k) == IF k = Len(c) THEN 0 ELSE c[k + 1]
        IN  /\ \A k \in DOMAIN c : /\ c[k] \in Blks
                                   /\ disk.blk[c[k]].prev = prev(k)
                                   /\ disk.blk[c[k]].next = next(k)
            /\ \A m \in Files \ {n} :
                  {c[k] : k \in DOMAIN c}
                      \cap {b \in Blks : \E k \in DOMAIN Chain(disk, slfs_open(disk, m)) :
                                            Chain(disk, slfs_open(disk, m))[k] = b} = {}

\* A file that is there can be opened: the count of its blocks comes to an end
\* (get_datablk_num).
Reopens ==
    shell = "up" => \A n \in Names :
        Exists(disk, n) => WalkEnd(disk, FirstBlk(disk, n)) = MINUS_ONE

\* A file that is opened to be written first fails to get an inode and blocks
\* only when no deleted file holds any: a deleted file is garbage collected
\* (slfs_delete, step 3; slfs_write, steps 2-1 and 3-1).
Reclaimed ==
    shell = "up" => \A n \in Names, len \in Sizes, word \in Stack :
        LET f == slfs_open(disk, n)
        IN  f.file_size = 0 /\ ~slfs_write(disk, f, Source(f, len), word, FALSE).ok
            => \A i \in Inodes : disk.meta.inode[i].file_size # 0

=============================================================================
