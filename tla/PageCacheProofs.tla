-------------------------- MODULE PageCacheProofs --------------------------
(***************************************************************************)
(* Proofs about PageCache, for every file length, page size and cache size.*)
(***************************************************************************)
EXTENDS PageCache, TLAPS, FiniteSetTheorems

\* What Insert does to the keys: the new page is held, and every other page
\* held was held before, with the buffer it had.  This is all that the proofs
\* need to know of the 2Q policy.
LEMMA InsertKeepsPages ==
  ASSUME TypeOK, NEW k \in PageNo, NEW buf \in Buffer, Insert(k, buf)
  PROVE  /\ recent' \subseteq PageNo /\ frequent' \subseteq PageNo /\ ghost' \subseteq PageNo
         /\ k \in recent' \cup frequent'
         /\ recent' \cup frequent' \subseteq (recent \cup frequent) \cup {k}
         /\ cached' \in [recent' \cup frequent' -> Buffer]
         /\ cached'[k] = buf
         /\ \A p \in recent' \cup frequent' : p # k => cached'[p] = cached[p]
<1>1. /\ recent' \subseteq PageNo /\ frequent' \subseteq PageNo /\ ghost' \subseteq PageNo
      /\ k \in recent' \cup frequent'
      /\ recent' \cup frequent' \subseteq (recent \cup frequent) \cup {k}
      /\ cached' = Keep(recent' \cup frequent', k, buf)
  <2>1. CASE InsertFrequent(k, buf)
    BY <2>1 DEF InsertFrequent, TypeOK
  <2>2. CASE InsertRecent(k, buf)
    BY <2>2 DEF InsertRecent, Remember, TypeOK
  <2>3. QED BY <2>1, <2>2 DEF Insert
<1>2. QED BY <1>1 DEF Keep, TypeOK

\* Division with remainder: the page and the offset in it make up the offset.
LEMMA DivMod ==
  ASSUME NEW o \in Nat, NEW s \in Nat, s # 0
  PROVE  /\ o \div s \in Nat
         /\ o % s \in Nat
         /\ o % s < s
         /\ (o \div s) * s + (o % s) = o
OBVIOUS

\* A page number is the number of the page, unless it has wrapped.
LEMMA PgNoWraps ==
  ASSUME NEW q \in Nat, NEW m \in Nat, m # 0
  PROVE  /\ q % m \in Nat
         /\ q < m => q % m = q
OBVIOUS

LEMMA CopiedType ==
  ASSUME TypeOK, page_size # 0, NEW buf \in Buffer, NEW o \in Nat, NEW n \in Nat
  PROVE  Copied(buf, o, n) \in [offset : Nat, size : Nat, outcome : Outcomes, bytes : Buffer]
<1>1. o % page_size \in Nat
  BY DivMod DEF TypeOK
<1>2. CASE (o % page_size) + n <= buf.len
  <2>1. [at |-> buf.at + (o % page_size), len |-> n] \in Buffer
    BY <1>1 DEF Buffer
  <2>2. QED BY <1>2, <2>1 DEF Copied, Replied, Outcomes
<1>3. CASE ~ (o % page_size) + n <= buf.len
  BY <1>3 DEF Copied, Failed, Replied, Outcomes, Buffer
<1>4. QED BY <1>2, <1>3

Answers == [offset : Nat, size : Nat, outcome : Outcomes, bytes : Buffer]

\* What a caller may conclude from the answer to its last request.
AnswerSound == ReadExact /\ CacheNeverFails /\ PanicsExplained

LEMMA ProductType == \A a, b \in Nat : a * b \in Nat
OBVIOUS

LEMMA Exceeds ==
  ASSUME NEW off \in Nat, NEW n \in Nat, NEW len \in Nat, ~ (off + n <= len)
  PROVE  off + n > len
OBVIOUS

\* A range inside a page that is inside the file is inside the file.
LEMMA InsideFile ==
  ASSUME NEW start \in Nat, NEW off \in Nat, NEW n \in Nat, NEW len \in Nat, NEW total \in Nat,
         start + len <= total, off + n <= len
  PROVE  start + off + n <= total
OBVIOUS

\* The answers a read can give, and why each is sound.
LEMMA DeliveredSound ==
  ASSUME NEW o \in Nat, NEW n \in Nat, o + n <= FileLen,
         answer' = Replied(o, n, "ok", [at |-> o, len |-> n])
  PROVE  AnswerSound'
BY DEF Replied, AnswerSound, ReadExact, CacheNeverFails, PanicsExplained

LEMMA WrappedSound ==
  ASSUME NEW o \in Nat, NEW n \in Nat, NEW bytes, ~ (o \div page_size' < PageNos),
         answer' = Replied(o, n, "ok", bytes)
  PROVE  AnswerSound'
BY DEF Replied, AnswerSound, ReadExact, CacheNeverFails, PanicsExplained

LEMMA PanicSound ==
  ASSUME NEW o \in Nat, NEW n \in Nat,
         page_size' = 0 \/ (o % page_size') + n > page_size',
         answer' = Failed(o, n, "panic")
  PROVE  AnswerSound'
BY DEF Failed, Replied, AnswerSound, ReadExact, CacheNeverFails, PanicsExplained

LEMMA IoErrorSound ==
  ASSUME NEW o \in Nat, NEW n \in Nat, answer' = Failed(o, n, "io error")
  PROVE  AnswerSound'
BY DEF Failed, Replied, AnswerSound, ReadExact, CacheNeverFails, PanicsExplained

\* A copy out of the right page is the right copy, and it panics only for a
\* range that leaves the page.
LEMMA CopiedSound ==
  ASSUME TypeOK, page_size # 0, NEW o \in Nat, NEW n \in Nat,
         NEW buf \in Buffer,
         buf = [at |-> PgNo(o) * page_size, len |-> page_size],
         buf.at + buf.len <= FileLen,
         page_size' = page_size, answer' = Copied(buf, o, n)
  PROVE  answer' \in Answers /\ AnswerSound'
<1> DEFINE off == o % page_size
<1>1. /\ off \in Nat
      /\ buf.at \in Nat /\ buf.len = page_size
  BY DivMod DEF TypeOK, Buffer
<1>2. answer' \in Answers
  BY CopiedType DEF Answers
<1>3. CASE off + n <= page_size /\ o \div page_size < PageNos
  <2>1. PgNo(o) = o \div page_size
    BY <1>3, DivMod, PgNoWraps, SizesAssumption DEF PgNo, TypeOK
  <2>2. buf.at + off = o
    BY <2>1, DivMod DEF TypeOK
  <2>3. answer' = Replied(o, n, "ok", [at |-> o, len |-> n])
    BY <1>1, <1>3, <2>2 DEF Copied
  <2>4. o + n <= FileLen
    <3>1. off + n <= page_size
      BY <1>3
    <3> HIDE DEF off
    <3>2. buf.at + off + n <= FileLen
      BY <1>1, <3>1, SizesAssumption, InsideFile DEF TypeOK
    <3>3. QED BY <1>1, <2>2, <3>2
  <2>5. QED BY <1>2, <2>3, <2>4, DeliveredSound
<1>4. CASE off + n <= page_size /\ ~ (o \div page_size < PageNos)
  <2>1. answer' = Replied(o, n, "ok", [at |-> buf.at + off, len |-> n])
    BY <1>1, <1>4 DEF Copied
  <2>2. QED BY <1>2, <1>4, <2>1, WrappedSound
<1>5. CASE ~ (off + n <= page_size)
  <2>1. answer' = Failed(o, n, "panic")
    BY <1>1, <1>5 DEF Copied
  <2>2. off + n > page_size
    <3> HIDE DEF off
    <3>1. QED BY <1>1, <1>5, Exceeds DEF TypeOK
  <2>3. QED BY <1>2, <2>1, <2>2, PanicSound
<1>6. QED BY <1>3, <1>4, <1>5

\* A read leaves the cache well typed and coherent and its answer is sound.
LEMMA FetchSound ==
  ASSUME TypeOK, CacheCoherent, NEW o \in Nat, NEW n \in Nat, Fetch(o, n),
         UNCHANGED page_size
  PROVE  /\ recent' \subseteq PageNo /\ frequent' \subseteq PageNo /\ ghost' \subseteq PageNo
         /\ cached' \in [recent' \cup frequent' -> Buffer]
         /\ answer' \in Answers
         /\ CacheCoherent' /\ AnswerSound'
<1> DEFINE pg == PgNo(o)
<1>1. CASE ReadHit(o, n)
  <2>1. page_size # 0 /\ pg \in recent \cup frequent
    BY <1>1 DEF ReadHit, Held
  <2>2. /\ cached[pg] \in Buffer
        /\ cached[pg] = [at |-> pg * page_size, len |-> page_size]
        /\ cached[pg].at + cached[pg].len <= FileLen
    BY <2>1 DEF TypeOK, CacheCoherent
  <2>3. answer' = Copied(cached[pg], o, n)
    BY <1>1 DEF ReadHit
  <2>4. answer' \in Answers /\ AnswerSound'
    BY <2>1, <2>2, <2>3, CopiedSound
  <2>5. QED BY <1>1, <2>4 DEF ReadHit, cache, TypeOK, CacheCoherent
<1>2. CASE ReadMiss(o, n)
  <2> DEFINE buf == [at |-> pg * page_size, len |-> page_size]
  <2>1. page_size # 0 /\ Insert(pg, buf) /\ buf.at + buf.len <= FileLen
    BY <1>2 DEF ReadMiss
  <2>2. pg \in PageNo /\ buf \in Buffer
    <3>1. pg \in Nat
      BY <2>1, DivMod, PgNoWraps, SizesAssumption DEF PgNo, TypeOK
    <3> HIDE DEF pg
    <3>2. pg * page_size \in Nat
      BY <3>1, ProductType DEF TypeOK
    <3>3. QED BY <3>1, <3>2 DEF TypeOK, PageNo, Buffer
  <2> HIDE DEF buf
  <2>3. /\ recent' \subseteq PageNo /\ frequent' \subseteq PageNo /\ ghost' \subseteq PageNo
        /\ pg \in recent' \cup frequent'
        /\ recent' \cup frequent' \subseteq (recent \cup frequent) \cup {pg}
        /\ cached' \in [recent' \cup frequent' -> Buffer]
        /\ cached'[pg] = buf
        /\ \A p \in recent' \cup frequent' : p # pg => cached'[p] = cached[p]
    BY <2>1, <2>2, InsertKeepsPages
  <2>4. answer' = Copied(buf, o, n)
    BY <1>2, <2>3 DEF ReadMiss
  <2>5. answer' \in Answers /\ AnswerSound'
    BY <2>1, <2>2, <2>4, CopiedSound DEF buf
  <2>6. CacheCoherent'
    BY <2>1, <2>3 DEF CacheCoherent, buf
  <2>7. QED BY <2>3, <2>5, <2>6
<1>3. CASE ReadFails(o, n)
  BY <1>3 DEF ReadFails, cache, TypeOK, CacheCoherent, Failed, Replied, Answers, Outcomes,
     Buffer, AnswerSound, ReadExact, CacheNeverFails, PanicsExplained
<1>4. CASE ReadDividesByZero(o, n)
  BY <1>4 DEF ReadDividesByZero, cache, TypeOK, CacheCoherent, Failed, Replied, Answers, Outcomes,
     Buffer, AnswerSound, ReadExact, CacheNeverFails, PanicsExplained
<1>5. QED BY <1>1, <1>2, <1>3, <1>4 DEF Fetch

\* Opening the file: emptying the cache makes it coherent at any page size.
LEMMA AdoptSound ==
  ASSUME TypeOK, AdoptHeader
  PROVE  TypeOK' /\ CacheCoherent' /\ AnswerSound'
<1>1. /\ page_size' \in Nat /\ format_revision' \in Nat
  BY SizesAssumption DEF AdoptHeader, TypeOK, Header, HeaderAt, OrElse
<1>2. answer' \in Answers /\ AnswerSound'
  BY DEF AdoptHeader, NoAnswer, Answers, Outcomes, Buffer, AnswerSound, ReadExact,
     CacheNeverFails, PanicsExplained
<1>3. QED BY <1>1, <1>2 DEF AdoptHeader, Clear, headers, TypeOK, CacheCoherent, Answers

\* The invariant the proofs carry: it is inductive.
IInv == TypeOK /\ CacheCoherent /\ AnswerSound

LEMMA InitSound == Init => IInv
<1> SUFFICES ASSUME Init PROVE IInv
  OBVIOUS
<1>1. TypeOK
  BY SizesAssumption DEF Init, TypeOK, NoAnswer, Outcomes, Buffer, PageNo
<1>2. CacheCoherent /\ AnswerSound
  BY DEF Init, CacheCoherent, NoAnswer, AnswerSound, ReadExact, CacheNeverFails, PanicsExplained
<1>3. QED BY <1>1, <1>2 DEF IInv

LEMMA NextSound == IInv /\ [Next]_vars => IInv'
<1> SUFFICES ASSUME IInv, [Next]_vars PROVE IInv'
  OBVIOUS
<1> USE DEF IInv
<1>1. CASE ReadMainHeader
  <2>1. HeaderLen \in Nat /\ Fetch(0, HeaderLen) /\ UNCHANGED page_size
    BY <1>1, SizesAssumption DEF ReadMainHeader
  <2>2. QED BY <1>1, <2>1, FetchSound DEF ReadMainHeader, Abandoned, headers, TypeOK, Answers
<1>2. CASE ReadBackupHeader
  <2>1. HeaderLen \in Nat /\ main.page_size \in Nat
        /\ Fetch(main.page_size, HeaderLen) /\ UNCHANGED page_size
    BY <1>2, SizesAssumption DEF ReadBackupHeader, TypeOK, Header
  <2>2. QED BY <1>2, <2>1, FetchSound DEF ReadBackupHeader, Abandoned, headers, TypeOK, Answers
<1>3. CASE AdoptHeader
  BY <1>3, AdoptSound
<1>4. ASSUME NEW offset \in 0 .. MaxOffset, NEW size \in 0 .. MaxLen, Read(offset, size)
      PROVE  IInv'
  <2>1. offset \in Nat /\ size \in Nat /\ Fetch(offset, size) /\ UNCHANGED page_size
    BY <1>4, SizesAssumption DEF Read
  <2>2. QED BY <1>4, <2>1, FetchSound DEF Read, headers, TypeOK, Answers
<1>5. CASE UNCHANGED vars
  BY <1>5 DEF vars, cache, TypeOK, CacheCoherent, AnswerSound, ReadExact, CacheNeverFails,
     PanicsExplained
<1>6. QED BY <1>1, <1>2, <1>3, <1>4, <1>5 DEF Next

LEMMA AlwaysSound == Spec => []IInv
BY InitSound, NextSound, PTL DEF Spec

\* Types of the reader's fields and of the cache hold at all times.
THEOREM TypeCorrect == Spec => []TypeOK
<1>1. IInv => TypeOK
  BY DEF IInv
<1>2. QED BY <1>1, AlwaysSound, PTL

\* The cache never holds a page cut to another page size than the one in
\* force: the clear() in Reader::new is what makes this inductive.
THEOREM Coherence == Spec => []CacheCoherent
<1>1. IInv => CacheCoherent
  BY DEF IInv
<1>2. QED BY <1>1, AlwaysSound, PTL

\* Whatever the history of reads and evictions, a successful Reader::read
\* delivers the bytes asked for.
THEOREM ReadsAreExact == Spec => []ReadExact
<1>1. IInv => ReadExact
  BY DEF IInv, AnswerSound
<1>2. QED BY <1>1, AlwaysSound, PTL

\* Reader::read panics only for a range across a page boundary or a page size
\* of 0.
THEOREM PanicsAreExplained == Spec => []PanicsExplained
<1>1. IInv => PanicsExplained
  BY DEF IInv, AnswerSound
<1>2. QED BY <1>1, AlwaysSound, PTL

\* What is known of the two headers at each stage of Reader::new: it
\* checks them in two steps and takes the fields over in a third.
HeadersChecked ==
  LET other == HeaderAt(main.page_size)
  IN  /\ stage \in {"backup header", "adopt"} => main.signature_ok /\ main.checksum_ok
      /\ stage = "adopt" =>
           /\ main.version_ok
           /\ OrElse(main.page_size, other.page_size) = other.page_size
           /\ OrElse(main.format_revision, other.format_revision) = other.format_revision

HeadersKnown == HeadersChecked /\ OpenMeansAgreed

\* A read leaves the fields alone that Reader::new has set, and so does
\* a step that does nothing.
LEMMA ReadKeepsHeaders ==
  ASSUME HeadersKnown,
         UNCHANGED vars \/ \E offset \in 0 .. MaxOffset, size \in 0 .. MaxLen : Read(offset, size)
  PROVE  HeadersKnown'
BY DEF HeadersKnown, HeadersChecked, OpenMeansAgreed, HeaderAt, headers, Read, vars

\* Each stage of Reader::new checks what the next one relies on.
LEMMA OpeningKeepsHeaders ==
  ASSUME HeadersKnown, ReadMainHeader \/ ReadBackupHeader \/ AdoptHeader
  PROVE  HeadersKnown'
<1> USE DEF HeadersKnown, HeadersChecked, OpenMeansAgreed, HeaderAt, headers
<1>1. ReadMainHeader => HeadersKnown'
  BY DEF ReadMainHeader, Abandoned
<1>2. ReadBackupHeader => HeadersKnown'
  BY DEF ReadBackupHeader, Abandoned
<1>3. AdoptHeader => HeadersKnown'
  BY DEF AdoptHeader
<1> QED BY <1>1, <1>2, <1>3

\* A reader is handed out only for a file whose headers are sound and agree,
\* and it works with the values they agree on: what load_db_file_header
\* establishes stage by stage is still true when the fields are taken over.
THEOREM OpenedFilesAgree == Spec => []OpenMeansAgreed
<1>1. HeadersKnown /\ [Next]_vars => HeadersKnown'
  BY ReadKeepsHeaders, OpeningKeepsHeaders DEF Next
<1>2. Init => HeadersKnown
  BY DEF Init, HeadersKnown, HeadersChecked, OpenMeansAgreed
<1>3. HeadersKnown => OpenMeansAgreed
  BY DEF HeadersKnown
<1> QED BY <1>1, <1>2, <1>3, PTL DEF Spec

=============================================================================
