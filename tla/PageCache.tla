----------------------------- MODULE PageCache -----------------------------
(***************************************************************************)
(* Reader: opening a database file and serving reads through a page cache. *)
(*                                                                         *)
(* The file is a row of cells 0 .. FileLen-1 and a cell is known by its    *)
(* offset, so a buffer is the record [at, len] of the cells it was filled  *)
(* from and "the right bytes" means "the cells asked for".  Reader::new    *)
(* reads the two file headers with a provisional page size, adopts the     *)
(* page size they announce and empties the cache; from then on every       *)
(* access of the parser is a Reader::read.                                 *)
(***************************************************************************)
EXTENDS Integers, FiniteSets

CONSTANTS
  FileLen,       \* cells of the file
  CacheSize,     \* cache_size: room for recent pages, and as much for frequent
  GhostSize,     \* page numbers the 2Q cache remembers after evicting them
  BootPageSize,  \* the page size the headers are read with (2 * 1024)
  HeaderLen,     \* size_of::<FileHeader>()
  PageNos,       \* how many page numbers there are (2^32: pg_no is a u32)
  HeaderPageSizes, \* the page_size values a header may carry
  Revisions,     \* the format_revision values a header may carry
  MaxOffset,     \* bound: largest offset asked for
  MaxLen         \* bound: longest read asked for

ASSUME SizesAssumption ==
  /\ FileLen \in Nat
  /\ CacheSize \in Nat \ {0}
  /\ GhostSize \in Nat \ {0}
  /\ BootPageSize \in Nat \ {0}
  /\ HeaderLen \in Nat \ {0}
  /\ PageNos \in Nat \ {0}
  /\ HeaderPageSizes \subseteq Nat
  /\ Revisions \subseteq Nat
  /\ MaxOffset \in Nat
  /\ MaxLen \in Nat

VARIABLES
  main,      \* the header stored at offset 0
  backup,    \* what parses as a header at offset main.page_size
  stage,     \* how far Reader::new has come
  page_size, format_revision,  \* fields of Reader
  recent, frequent, ghost,     \* the key queues of the 2Q cache
  cached,    \* the page buffers held by recent and frequent keys
  answer     \* the last request and what came of it

headers == <<main, backup>>
cache == <<recent, frequent, ghost, cached>>
vars == <<main, backup, stage, page_size, format_revision, cache, answer>>

Header == [signature_ok : BOOLEAN, checksum_ok : BOOLEAN, version_ok : BOOLEAN,
           page_size : HeaderPageSizes, format_revision : Revisions]

\* A filled buffer: the len cells from at on.
Buffer == [at : Nat, len : Nat]

\* Any key the cache can be asked for.
PageNo == Nat

Outcomes == {"none", "ok", "io error", "cache failed", "panic"}

NoAnswer == [offset |-> 0, size |-> 0, outcome |-> "none", bytes |-> [at |-> 0, len |-> 0]]

Replied(offset, size, outcome, bytes) ==
  [offset |-> offset, size |-> size, outcome |-> outcome, bytes |-> bytes]

Failed(offset, size, outcome) ==
  Replied(offset, size, outcome, [at |-> 0, len |-> 0])

Init ==
  /\ main \in Header
  /\ backup \in {h \in Header : h.signature_ok /\ h.checksum_ok /\ h.version_ok}
  /\ stage = "main header"
  /\ page_size = BootPageSize
  /\ format_revision = 0
  /\ recent = {} /\ frequent = {} /\ ghost = {}
  /\ cached = [k \in {} |-> 0]
  /\ answer = NoAnswer

-----------------------------------------------------------------------------
(* The 2Q cache (crate cache_2q).  Which key of a full queue is dropped is *)
(* left open.                                                              *)

Held(k) == k \in recent \cup frequent

\* What the cache holds once it has taken in page k, given the queues that
\* survive.
Keep(keys, k, buf) ==
  [p \in keys |-> IF p = k THEN buf ELSE cached[p]]

\* A key that was evicted not long ago comes back as a frequent one.
InsertFrequent(k, buf) ==
  /\ k \in ghost
  /\ ghost' = ghost \ {k}
  /\ recent' = recent
  /\ \/ /\ Cardinality(frequent) < CacheSize
        /\ frequent' = frequent \cup {k}
     \/ /\ Cardinality(frequent) >= CacheSize
        /\ \E victim \in frequent : frequent' = (frequent \ {victim}) \cup {k}
  /\ cached' = Keep(recent' \cup frequent', k, buf)

\* The key of an evicted page is remembered, an older one forgotten for it.
Remember(victim) ==
  \/ /\ Cardinality(ghost) < GhostSize
     /\ ghost' = ghost \cup {victim}
  \/ /\ Cardinality(ghost) >= GhostSize
     /\ \E old \in ghost : ghost' = (ghost \ {old}) \cup {victim}

\* A new key is a recent one.
InsertRecent(k, buf) ==
  /\ k \notin ghost
  /\ frequent' = frequent
  /\ \/ /\ Cardinality(recent) < CacheSize
        /\ recent' = recent \cup {k}
        /\ ghost' = ghost
     \/ /\ Cardinality(recent) >= CacheSize
        /\ \E victim \in recent :
             /\ recent' = (recent \ {victim}) \cup {k}
             /\ Remember(victim)
  /\ cached' = Keep(recent' \cup frequent', k, buf)

Insert(k, buf) == InsertFrequent(k, buf) \/ InsertRecent(k, buf)

Clear ==
  /\ recent' = {} /\ frequent' = {} /\ ghost' = {}
  /\ cached' = [k \in {} |-> 0]

-----------------------------------------------------------------------------
(* Reader::read                                                            *)

\* (offset / page_size) as u32: beyond the last number they start again.
PgNo(offset) == (offset \div page_size) % PageNos

\* Copying size bytes at offset out of a page buffer; a range that leaves
\* the buffer is a slice panic.
Copied(buf, offset, size) ==
  LET page_offset == offset % page_size
  IN  IF page_offset + size <= buf.len
      THEN Replied(offset, size, "ok", [at |-> buf.at + page_offset, len |-> size])
      ELSE Failed(offset, size, "panic")

\* The page is there already.
ReadHit(offset, size) ==
  /\ page_size # 0
  /\ Held(PgNo(offset))
  /\ answer' = Copied(cached[PgNo(offset)], offset, size)
  /\ UNCHANGED cache

\* Mutant of ReadMiss: the file is read from the offset asked for instead of
\* from the start of its page.
ReadMissAtOffset(offset, size) ==
  LET pg_no == PgNo(offset)
      page_buf == [at |-> offset, len |-> page_size]
  IN  /\ page_size # 0
      /\ ~ Held(pg_no)
      /\ offset + page_size <= FileLen
      /\ Insert(pg_no, page_buf)
      /\ answer' = IF pg_no \in recent' \cup frequent'
                   THEN Copied(cached'[pg_no], offset, size)
                   ELSE Failed(offset, size, "cache failed")

\* The page is fetched from the file and kept; the answer comes out of the
\* cache, which must therefore hold it now.
ReadMiss(offset, size) ==
  LET pg_no == PgNo(offset)
      page_buf == [at |-> pg_no * page_size, len |-> page_size]
  IN  /\ page_size # 0
      /\ ~ Held(pg_no)
      /\ pg_no * page_size + page_size <= FileLen
      /\ Insert(pg_no, page_buf)
      /\ answer' = IF pg_no \in recent' \cup frequent'
                   THEN Copied(cached'[pg_no], offset, size)
                   ELSE Failed(offset, size, "cache failed")

\* The page cannot be fetched: it is not wholly in the file, or seek or
\* read_exact reports an error.  Nothing is cached.
ReadFails(offset, size) ==
  /\ page_size # 0
  /\ ~ Held(PgNo(offset))
  /\ answer' = Failed(offset, size, "io error")
  /\ UNCHANGED cache

\* offset / 0
ReadDividesByZero(offset, size) ==
  /\ page_size = 0
  /\ answer' = Failed(offset, size, "panic")
  /\ UNCHANGED cache

Fetch(offset, size) ==
  \/ ReadHit(offset, size)
  \/ ReadMiss(offset, size)
  \/ ReadFails(offset, size)
  \/ ReadDividesByZero(offset, size)

-----------------------------------------------------------------------------
(* Reader::new and load_db_file_header                                     *)

\* Where a read that did not deliver leaves Reader::new.
Abandoned == IF answer'.outcome = "panic" THEN "panicked" ELSE "rejected"

ReadMainHeader ==
  /\ stage = "main header"
  /\ Fetch(0, HeaderLen)
  /\ stage' = IF answer'.outcome # "ok" THEN Abandoned
              ELSE IF main.signature_ok /\ main.checksum_ok
                   THEN "backup header" ELSE "rejected"
  /\ UNCHANGED <<headers, page_size, format_revision>>

\* The header found at an offset: with a page size of 0 the backup is read
\* at offset 0, where the main header is.
HeaderAt(offset) == IF offset = 0 THEN main ELSE backup

\* A zero field of the main header is taken from the backup.
OrElse(field, default) == IF field = 0 THEN default ELSE field

\* Mutant of ReadBackupHeader: the page sizes are not compared.
ReadBackupHeaderUnchecked ==
  LET other == HeaderAt(main.page_size)
      revision == OrElse(main.format_revision, other.format_revision)
  IN  /\ stage = "backup header"
      /\ Fetch(main.page_size, HeaderLen)
      /\ stage' = IF answer'.outcome # "ok" THEN Abandoned
                  ELSE IF revision = other.format_revision /\ main.version_ok
                       THEN "adopt" ELSE "rejected"
      /\ UNCHANGED <<headers, page_size, format_revision>>

\* The checks between the two headers, then the switch to the real page
\* size.  Pages cached so far are cut to the provisional size: they go.
ReadBackupHeader ==
  LET other == HeaderAt(main.page_size)
      revision == OrElse(main.format_revision, other.format_revision)
      size == OrElse(main.page_size, other.page_size)
  IN  /\ stage = "backup header"
      /\ Fetch(main.page_size, HeaderLen)
      /\ stage' = IF answer'.outcome # "ok" THEN Abandoned
                  ELSE IF revision = other.format_revision /\ size = other.page_size
                          /\ main.version_ok
                       THEN "adopt" ELSE "rejected"
      /\ UNCHANGED <<headers, page_size, format_revision>>

\* Mutant of AdoptHeader: reader.cache.get_mut().clear() is forgotten.
AdoptHeaderKeepsCache ==
  LET other == HeaderAt(main.page_size)
  IN  /\ stage = "adopt"
      /\ stage' = "open"
      /\ page_size' = OrElse(main.page_size, other.page_size)
      /\ format_revision' = OrElse(main.format_revision, other.format_revision)
      /\ answer' = NoAnswer
      /\ UNCHANGED <<headers, cache>>

AdoptHeader ==
  LET other == HeaderAt(main.page_size)
  IN  /\ stage = "adopt"
      /\ stage' = "open"
      /\ page_size' = OrElse(main.page_size, other.page_size)
      /\ format_revision' = OrElse(main.format_revision, other.format_revision)
      /\ Clear
      /\ answer' = NoAnswer
      /\ UNCHANGED headers

\* Any later access of the parser.
Read(offset, size) ==
  /\ stage = "open"
  /\ Fetch(offset, size)
  /\ stage' = IF answer'.outcome = "panic" THEN "crashed" ELSE "open"
  /\ UNCHANGED <<headers, page_size, format_revision>>

Next ==
  \/ ReadMainHeader
  \/ ReadBackupHeader
  \/ AdoptHeader
  \/ \E offset \in 0 .. MaxOffset, size \in 0 .. MaxLen : Read(offset, size)

Spec == Init /\ [][Next]_vars

-----------------------------------------------------------------------------
(* What the rest of the parser relies on                                   *)

TypeOK ==
  /\ main \in Header /\ backup \in Header
  /\ stage \in {"main header", "backup header", "adopt", "open", "rejected",
                "panicked", "crashed"}
  /\ page_size \in Nat /\ format_revision \in Nat
  /\ recent \subseteq PageNo /\ frequent \subseteq PageNo /\ ghost \subseteq PageNo
  /\ cached \in [recent \cup frequent -> Buffer]
  /\ answer \in [offset : Nat, size : Nat, outcome : Outcomes, bytes : Buffer]

\* Every page the cache holds is the page of that number at the page size now
\* in force, as it is in the file.  At stake: Reader::new reads the headers
\* through the same cache with a page size of 2048 (reader.rs:101) and changes
\* page_size afterwards, when a number means another stretch of the file.
CacheCoherent ==
  \A k \in recent \cup frequent :
    /\ cached[k] = [at |-> k * page_size, len |-> page_size]
    /\ cached[k].at + cached[k].len <= FileLen

\* A read that succeeds delivers exactly the bytes asked for, whatever was read
\* and evicted before it (Reader::read, reader.rs:116), as long as the page has
\* a number: past 2^32 pages the conversion at reader.rs:117 wraps, and bytes
\* from the start of the file are delivered.
ReadExact ==
  answer.outcome = "ok" /\ answer.offset \div page_size < PageNos =>
    /\ answer.bytes = [at |-> answer.offset, len |-> answer.size]
    /\ answer.offset + answer.size <= FileLen

\* The page just inserted is never the one evicted to make room for it, so the
\* "Cache failed, page number not found" branch (reader.rs:142) is dead.
CacheNeverFails == answer.outcome # "cache failed"

\* Reader::read panics for two reasons only: the caller asked for a range that
\* crosses a page boundary, or the file announced a page size of 0.  A buffer
\* shorter than the page in force would be a third.
PanicsExplained ==
  answer.outcome = "panic" =>
    \/ page_size = 0
    \/ (answer.offset % page_size) + answer.size > page_size

\* A reader is handed out only for a file whose main header is sound and whose
\* two headers agree on page size and revision, and it works with those values
\* (load_db_file_header).
OpenMeansAgreed ==
  stage \in {"open", "crashed"} =>
    LET other == HeaderAt(main.page_size)
    IN  /\ main.signature_ok /\ main.checksum_ok /\ main.version_ok
        /\ page_size = other.page_size
        /\ format_revision = other.format_revision

=============================================================================
