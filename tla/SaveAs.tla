-------------------------------- MODULE SaveAs --------------------------------
(***************************************************************************)
(* CCmSqlite::backup (addon/src/cm_sqlite.cpp:116-148): the database in    *)
(* memory is copied over the .db file, page by page in one transaction of  *)
(* SQLite's pager (addon/src/sqlite3.c) with a rollback journal, DELETE    *)
(* journal mode and full synchronization, the defaults of this build.      *)
(* Every step may fail, the program may be killed after any of them, and   *)
(* the power may fail; the next process that opens the file rolls back     *)
(* what the journal holds.                                                 *)
(*                                                                         *)
(* Assumed of the file system: creating and deleting a journal and         *)
(* truncating the database reach the disk in this order, at the latest at  *)
(* the next sync of a journal.  Assumed of its user: one process at a time *)
(* has the file open, so that every lock is granted.  The destination has  *)
(* the page size of the source, as all files of this program have.         *)
(***************************************************************************)
EXTENDS Integers, Sequences

CONSTANTS
  OldSizes,  \* sizes, in pages, of the file before the first save
  NewSizes,  \* sizes of the databases that are saved
  MaxSaves   \* bound on the saves

ASSUME SizesAssumption ==
  OldSizes \subseteq Nat /\ NewSizes \subseteq Nat \ {0} /\ MaxSaves \in Nat

(* A page by the database it belongs to; page 1 holds the size of it.      *)
Page(v, i, n) == [of |-> v, page |-> i, size |-> n]
Image(v, n)   == [i \in 1..n |-> Page(v, i, n)]
Junk          == Page(-1, 0, 0)

(* A journal is headers and page records; a header is zero until the       *)
(* records after it are synced.  No journal and an empty one are the same. *)
Zero       == [is |-> "zero"]
Header(n, m) == [is |-> "header", recs |-> n, orig |-> m]
Record(i, x) == [is |-> "record", page |-> i, data |-> x]
JunkItem   == [is |-> "junk"]

VARIABLES
  files, \* database and journal, as processes see them and as last synced
  undo,  \* earlier values of files that a power loss may bring back
  src,   \* the database that is saved
  saves, \* the saves
  pc,    \* the step the process is at, "idle" when there is none
  tx,    \* the transaction
  redo   \* the records to play back

vars == <<files, undo, src, saves, pc, tx, redo>>

(* eState, journalOff, journalHdr, dbOrigSize, the dirty pages, those with *)
(* PGHDR_NEED_SYNC, and the page to be spilled.                            *)
NoTx == [on |-> FALSE, orig |-> 0, off |-> 0, hdr |-> 0, next |-> 1,
         dirty |-> {}, need |-> {}, dbmod |-> FALSE, spill |-> 0]

-----------------------------------------------------------------------------
(* Files as sequences *)

(* Position i is written; what the file did not hold before it is junk.    *)
Written(f, i, x, junk) ==
  [k \in 1..(IF Len(f) < i THEN i ELSE Len(f)) |->
     IF k = i THEN x ELSE IF k <= Len(f) THEN f[k] ELSE junk]

Resized(f, n) == [k \in 1..n |-> IF k <= Len(f) THEN f[k] ELSE Junk]

(* What a power loss leaves of a file: each position that is not synced is *)
(* old, new or junk, and the size is one of those in between.              *)
Outcomes(synced, now, junk, i) ==
  IF i <= Len(synced) /\ i <= Len(now) /\ synced[i] = now[i] THEN {now[i]}
  ELSE {junk} \cup {f[i] : f \in {g \in {synced, now} : i <= Len(g)}}

Longer(F, X) == {Append(f, x) : f \in F, x \in X}

Left(synced, now, junk) ==
  LET a == Len(synced)
      b == Len(now)
      lens == IF a < b THEN a..b ELSE b..a
      of[n \in 0..(IF a < b THEN b ELSE a)] ==
        IF n = 0 THEN {<<>>}
        ELSE Longer(of[n - 1], Outcomes(synced, now, junk, n))
  IN  UNION {of[n] : n \in lens}

(* The records behind the header at p, up to the first that is not good.   *)
GoodRecords(j, p) ==
  CHOOSE k \in 0..j[p].recs :
    /\ \A i \in p + 1 .. p + k : i <= Len(j) /\ j[i].is = "record"
    /\ \/ k = j[p].recs
       \/ p + k + 1 > Len(j)
       \/ j[p + k + 1].is # "record"

(* pager_playback: the records of all headers up to the first that is not  *)
(* one or whose records are not all good.                                  *)
Played(j) ==
  LET from[p \in 1 .. Len(j) + 1] ==
        IF p > Len(j) \/ j[p].is # "header" THEN <<>>
        ELSE SubSeq(j, p + 1, p + GoodRecords(j, p)) \o
             IF GoodRecords(j, p) = j[p].recs THEN from[p + j[p].recs + 1]
             ELSE <<>>
  IN  from[1]

Cut(f, j) == Resized(f, j[1].orig)

(* lockBtree: what a process sees in a database file without a journal; a  *)
(* file that is longer than its page 1 says has its rest ignored.          *)
Broken == <<Junk>>

Seen(f) ==
  IF f = <<>> THEN <<>>
  ELSE IF f[1] = Junk \/ Len(f) < f[1].size THEN Broken
  ELSE SubSeq(f, 1, f[1].size)

(* The same with a journal, which is played back first; it holds a page    *)
(* once at the most.                                                       *)
Restored(f, recs) ==
  [i \in DOMAIN f |->
     IF \E k \in DOMAIN recs : recs[k].page = i
     THEN recs[CHOOSE k \in DOMAIN recs : recs[k].page = i].data ELSE f[i]]

View(f, j) ==
  IF f # <<>> /\ j # <<>> /\ j[1].is = "header"
  THEN Seen(Restored(Cut(f, j), Played(j))) ELSE Seen(f)

-----------------------------------------------------------------------------
WriteDb(i) == files' = [files EXCEPT !.db = Written(@, i, src[i], Junk)]
SyncDb == files' = [files EXCEPT !.dbSynced = files.db] /\ UNCHANGED undo

SyncJournal == files' = [files EXCEPT !.jrnlSynced = files.jrnl] /\ undo' = {}

(* The deletion and the truncations before it may be lost together.        *)
DeleteJournal ==
  /\ undo' = undo \cup {files}
  /\ files' = [files EXCEPT
       !.jrnl = <<>>, !.jrnlSynced = <<>>,
       !.dbSynced = IF Len(@) > Len(files.db)
                    THEN SubSeq(@, 1, Len(files.db)) ELSE @]

Idle == pc' = "idle" /\ tx' = NoTx /\ redo' = <<>>

(* sqlite3BtreeBeginTrans on the destination.                              *)
Begin ==
  /\ pc' = "copy"
  /\ tx' = [NoTx EXCEPT !.on = TRUE, !.orig = Len(files'.db)]
  /\ redo' = <<>>

GoTo(p) == pc' = p /\ UNCHANGED <<tx, redo>>

Init ==
  /\ \E n \in OldSizes :
       files = [db |-> Image(0, n), dbSynced |-> Image(0, n),
               jrnl |-> <<>>, jrnlSynced |-> <<>>]
  /\ undo = {}
  /\ src = <<>>
  /\ saves = 0
  /\ pc = "idle"
  /\ tx = NoTx
  /\ redo = <<>>

(* sqlite3_open_v2 and sqlite3_backup_init.  A file that is not there is   *)
(* created empty.                                                          *)
Open(n) ==
  /\ pc = "idle"
  /\ saves < MaxSaves
  /\ saves' = saves + 1
  /\ src' = Image(saves + 1, n)
  /\ GoTo("lock")
  /\ UNCHANGED <<files, undo>>

(* sqlite3PagerSharedLock, hasHotJournal: the journal of an empty file is  *)
(* deleted, one that starts with zero is left alone (junk may start with   *)
(* anything), another one is synced and played back.                       *)
SharedLock ==
  LET j == files.jrnl
      first == IF j = <<>> THEN "zero" ELSE j[1].is
  IN
  /\ pc = "lock"
  /\ \/ files.db = <<>> /\ j # <<>> /\ DeleteJournal /\ Begin
     \/ /\ files.db # <<>> \/ j = <<>>
        /\ first # "header"
        /\ UNCHANGED <<files, undo>>
        /\ Begin
     \/ /\ files.db # <<>>
        /\ first \in {"header", "junk"}
        /\ SyncJournal
        /\ GoTo(IF first = "header" THEN "cut" ELSE "play")
  /\ UNCHANGED <<src, saves>>

-----------------------------------------------------------------------------
(* backupOnePage, pager_write: the next page goes to the cache; the first  *)
(* one opens the journal over what an earlier process may have left in it, *)
(* and the journal takes the page as it was, if there was one.             *)
CopyPage ==
  LET p    == tx.next
      off  == IF tx.off = 0 THEN 1 ELSE tx.off
      j    == IF tx.off = 0 THEN Written(files.jrnl, 1, Zero, JunkItem)
              ELSE files.jrnl
      orig == p <= tx.orig
  IN
  /\ pc = "copy"
  /\ p <= Len(src)
  /\ files' = [files EXCEPT
       !.jrnl = IF orig THEN Written(j, off + 1, Record(p, files.db[p]), JunkItem)
                ELSE j]
  /\ tx' = [tx EXCEPT
       !.next = p + 1,
       !.off  = IF orig THEN off + 1 ELSE off,
       !.hdr  = IF tx.off = 0 THEN 1 ELSE @,
       !.dirty = @ \cup {p},
       !.need = IF orig \/ ~tx.dbmod THEN @ \cup {p} ELSE @]
  /\ UNCHANGED <<undo, src, saves, pc, redo>>

(* pagerStress: the cache is full and a page is written before its time,   *)
(* never page 1, which the transaction keeps referenced.                   *)
Spill ==
  /\ pc = "copy"
  /\ tx.next <= Len(src)
  /\ \E p \in tx.dirty \ {1} :
       /\ tx' = [tx EXCEPT !.spill = p]
       /\ pc' = IF p \in tx.need \/ ~tx.dbmod THEN "records" ELSE "spill"
  /\ UNCHANGED <<files, undo, src, saves, redo>>

(* The schema cookie and the change counter make page 1 dirty again;       *)
(* sqlite3PagerTruncateImage, sqlite3PagerCommitPhaseOne.                  *)
Commit ==
  /\ pc = "copy"
  /\ tx.next > Len(src)
  /\ tx' = [tx EXCEPT !.dirty = @ \cup {1}]
  /\ pc' = "records"
  /\ UNCHANGED <<files, undo, src, saves, redo>>

(* syncJournal: the records are synced before the header counts them.  (It *)
(* also erases a header of an earlier transaction that follows the records *)
(* in the file; with journals that are deleted there is none.)             *)
SyncRecords ==
  /\ pc = "records"
  /\ SyncJournal
  /\ GoTo("header")
  /\ UNCHANGED <<src, saves>>

WriteHeader ==
  /\ pc = "header"
  /\ files' = [files EXCEPT
       !.jrnl[tx.hdr] = Header(tx.off - tx.hdr, tx.orig)]
  /\ GoTo("sync")
  /\ UNCHANGED <<undo, src, saves>>

(* Fault: the pages are not marked as synced.                              *)
SyncHeaderKeeps ==
  LET off == IF tx.spill = 0 THEN tx.off ELSE tx.off + 1 IN
  /\ pc = "sync"
  /\ undo' = {}
  /\ files' = [files EXCEPT
       !.jrnlSynced = files.jrnl,
       !.jrnl = IF tx.spill = 0 THEN @ ELSE Written(@, off, Zero, JunkItem)]
  /\ tx' = [tx EXCEPT !.dbmod = TRUE, !.off = off,
                      !.hdr = IF tx.spill = 0 THEN @ ELSE off]
  /\ pc' = IF tx.spill = 0 THEN "pages" ELSE "spill"
  /\ UNCHANGED <<src, saves, redo>>

(* ... and the header before the database is written.  For a page that is  *)
(* spilled a new header follows.                                           *)
SyncHeader ==
  LET off == IF tx.spill = 0 THEN tx.off ELSE tx.off + 1 IN
  /\ pc = "sync"
  /\ undo' = {}
  /\ files' = [files EXCEPT
       !.jrnlSynced = files.jrnl,
       !.jrnl = IF tx.spill = 0 THEN @ ELSE Written(@, off, Zero, JunkItem)]
  /\ tx' = [tx EXCEPT !.need = {}, !.dbmod = TRUE, !.off = off,
                      !.hdr = IF tx.spill = 0 THEN @ ELSE off]
  /\ pc' = IF tx.spill = 0 THEN "pages" ELSE "spill"
  /\ UNCHANGED <<src, saves, redo>>

SpillPage ==
  /\ pc = "spill"
  /\ WriteDb(tx.spill)
  /\ tx' = [tx EXCEPT !.dirty = @ \ {tx.spill}, !.spill = 0]
  /\ pc' = "copy"
  /\ UNCHANGED <<undo, src, saves, redo>>

(* pager_write_pagelist: the dirty pages in order.                         *)
WritePage ==
  /\ pc = "pages"
  /\ \E p \in tx.dirty :
       /\ \A q \in tx.dirty : p <= q
       /\ WriteDb(p)
       /\ tx' = [tx EXCEPT !.dirty = @ \ {p}]
  /\ UNCHANGED <<undo, src, saves, pc, redo>>

SyncPages ==
  /\ pc = "pages"
  /\ tx.dirty = {}
  /\ SyncDb
  /\ GoTo("finish")
  /\ UNCHANGED <<src, saves>>

(* sqlite3PagerCommitPhaseTwo: once its journal is gone the transaction is *)
(* committed; the rest of a file that got shorter is cut off after that.   *)
Finish ==
  /\ pc = "finish"
  /\ DeleteJournal
  /\ GoTo("shrink")
  /\ UNCHANGED <<src, saves>>

Shrink ==
  /\ pc = "shrink"
  /\ files' = [files EXCEPT
       !.db = IF Len(@) > Len(src) THEN SubSeq(@, 1, Len(src)) ELSE @]
  /\ Idle
  /\ UNCHANGED <<undo, src, saves>>

-----------------------------------------------------------------------------
(* A step fails: sqlite3_backup_finish rolls the transaction back.  After  *)
(* a spill that fails, and once the journal could not be deleted, the      *)
(* pager does nothing any more; that is Killed.                            *)
Fails ==
  /\ pc \in {"copy", "records", "header", "sync", "pages"}
  /\ tx.spill = 0
  /\ IF tx.off = 0 THEN Idle
     ELSE GoTo(IF tx.dbmod THEN "cut" ELSE "drop")
  /\ UNCHANGED <<files, undo, src, saves>>

(* pager_playback of a hot journal or in a rollback.                       *)
CutBack ==
  /\ pc = "cut"
  /\ files' = [files EXCEPT !.db = Cut(@, files.jrnl)]
  /\ redo' = Played(files.jrnl)
  /\ pc' = "play"
  /\ UNCHANGED <<undo, src, saves, tx>>

PlayBack ==
  /\ pc = "play"
  /\ redo # <<>>
  /\ files' = [files EXCEPT !.db = Written(@, redo[1].page, redo[1].data, Junk)]
  /\ redo' = Tail(redo)
  /\ UNCHANGED <<undo, src, saves, pc, tx>>

(* Fault: the database is not synced before its journal is deleted.        *)
EndOfPlayLazy ==
  /\ pc = "play"
  /\ redo = <<>>
  /\ GoTo("drop")
  /\ UNCHANGED <<files, undo, src, saves>>

EndOfPlay ==
  /\ pc = "play"
  /\ redo = <<>>
  /\ SyncDb
  /\ GoTo("drop")
  /\ UNCHANGED <<src, saves>>

(* A process that only opened the file goes on with its transaction.       *)
Drop ==
  /\ pc = "drop"
  /\ DeleteJournal
  /\ IF tx.on THEN Idle ELSE Begin
  /\ UNCHANGED <<src, saves>>

-----------------------------------------------------------------------------
Killed ==
  /\ pc # "idle"
  /\ Idle
  /\ UNCHANGED <<files, undo, src, saves>>

PowerLoss ==
  /\ \E e \in undo \cup {files} :
       \E d \in Left(e.dbSynced, e.db, Junk),
          j \in Left(e.jrnlSynced, e.jrnl, JunkItem) :
         files' = [db |-> d, dbSynced |-> d, jrnl |-> j, jrnlSynced |-> j]
  /\ undo' = {}
  /\ Idle
  /\ UNCHANGED <<src, saves>>

Next ==
  \/ \E n \in NewSizes : Open(n)
  \/ SharedLock \/ CopyPage \/ Spill \/ Commit
  \/ SyncRecords \/ WriteHeader \/ SyncHeader \/ SpillPage
  \/ WritePage \/ SyncPages \/ Finish \/ Shrink
  \/ Fails \/ CutBack \/ PlayBack \/ EndOfPlay \/ Drop
  \/ Killed \/ PowerLoss

Spec == Init /\ [][Next]_vars

-----------------------------------------------------------------------------
(* The pages of the databases of the first n saves, and of none. *)
Pages(n) ==
  {Junk} \cup {x \in [of : 0..n, page : Nat, size : OldSizes \cup NewSizes] :
                  x.page \in 1..x.size}

Items(n) ==
  {Zero, JunkItem}
    \cup [is : {"header"}, recs : Nat, orig : Nat]
    \cup [is : {"record"}, page : Nat \ {0}, data : Pages(n)]

FileStates(n) ==
  [db : Seq(Pages(n)), dbSynced : Seq(Pages(n)),
   jrnl : Seq(Items(n)), jrnlSynced : Seq(Items(n))]

(* Every variable keeps its type; in the journal of a transaction the      *)
(* header in use counts no record twice, and no page that may not be       *)
(* written yet is spilled or written (pager_write, pagerStress,            *)
(* syncJournal).                                                           *)
TypeOK ==
  /\ files \in FileStates(saves) /\ \A e \in undo : e \in FileStates(saves)
  /\ saves \in 0..MaxSaves
  /\ src \in Seq(Pages(saves) \ {Junk})
  /\ pc \in {"idle", "lock", "copy", "records", "header", "sync", "spill",
             "pages", "finish", "shrink", "cut", "play", "drop"}
  /\ tx.need \subseteq tx.dirty /\ tx.dirty \subseteq DOMAIN src
  /\ tx.hdr <= tx.off
  /\ pc # "shrink" => tx.off <= Len(files.jrnl)
  /\ pc = "spill" => tx.spill \notin tx.need
  /\ pc = "pages" => tx.need = {}
  /\ pc = "cut" => files.jrnl[1].is = "header"
  /\ redo \in Seq(Items(saves))
=============================================================================
