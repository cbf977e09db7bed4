------------------------- MODULE FileTransferProofs -------------------------
(***************************************************************************)
(* FileTransfer for every set of paths and books, every size and every     *)
(* trouble: a reported upload is whole.  And with uploads that arrive and  *)
(* folders that keep their names: what the device remembers of a book goes *)
(* with the book.                                                          *)
(***************************************************************************)
EXTENDS FileTransfer, FiniteSetTheorems, TLAPS

CardType == 
  /\ book \in [Path -> Books \union {NoBook}]
  /\ side \in [Path -> Books \union {NoBook}] /\ stale \subseteq Path
  /\ last \in [path : Path \union {NoPath}, book : Books \union {NoBook}]
  /\ folders \subseteq Folders
LenType == len \in [Path -> 0..BookSize]
UploadType ==
  /\ dest \in Path \union {NoPath} /\ sent \in Books \union {NoBook}
FlagType == open \in BOOLEAN /\ success \in BOOLEAN /\ spoilt \in BOOLEAN
CountType == filled \in 0..BufferSize /\ room \in {0, BufferSize} /\ got \in 0..BookSize
JobType ==
  /\ mode \in {"device", "serving"}
  /\ pc \in {"idle", "body", "delete", "drop", "forget", "answer"}
  /\ request \in {"none", "upload", "delete", "move"}
  /\ cur \in Path \union {NoPath}
  /\ folder \in Folders \union {NoFolder} /\ todo \subseteq Path

\* Where a request is, its own variables fit it.
Flow ==
  /\ pc = "idle" <=> request = "none"
  /\ pc = "body" => request = "upload"
  /\ pc \in {"drop", "forget"} => cur \in Path
  /\ pc = "delete" => folder # NoFolder
  /\ folder # NoFolder => request = "delete" /\ pc \in {"delete", "drop", "forget"}
  /\ mode = "device" => pc = "idle" /\ filled = 0 /\ dest = NoPath
  /\ open => pc = "body" /\ dest \in Path
  /\ success /\ pc = "body" => open

\* What was received is on the card or in the buffer, in the file being sent.
Received ==
  pc = "body" /\ success =>
    /\ book[dest] = sent
    /\ len[dest] + filled = got
    /\ filled < room \/ filled = 0

\* A buffer is only filled while its upload goes well.
Drained == ~(pc = "body" /\ success) => filled = 0

\* From the end of a good upload on, the file is whole, if the card took the close,
\* and its sidecar goes, if the card lets it.
Stored ==
  request = "upload" /\ pc \in {"drop", "forget", "answer"} /\ success =>
    /\ dest \in Path /\ book[dest] = sent /\ (len[dest] = BookSize \/ spoilt)
    /\ pc \in {"forget", "answer"} => side[dest] = NoBook \/ dest \in stale
Cleaning == request = "upload" /\ pc \in {"drop", "forget"} => cur = dest

IInv ==
  /\ CardType /\ LenType /\ UploadType /\ FlagType /\ CountType /\ JobType
  /\ Flow /\ Received /\ Drained /\ Stored /\ Cleaning
-----------------------------------------------------------------------------
LEMMA TypeParts == TypeOK <=> CardType /\ LenType /\ UploadType /\ FlagType /\ CountType /\ JobType
  BY DEF TypeOK, CardType, LenType, UploadType, FlagType, CountType, JobType

LEMMA InitIInv == Init => IInv
  <1> SUFFICES ASSUME Init PROVE IInv
    OBVIOUS
  <1> USE SizesAssumption, NamesAssumption DEF Init
  <1>1. CardType /\ LenType
    BY DEF CardType, LenType, Forgotten
  <1>2. UploadType /\ CountType /\ JobType
    BY DEF UploadType, CountType, JobType
  <1>4. FlagType
    BY DEF FlagType
  <1>3. Flow /\ Received /\ Drained /\ Stored /\ Cleaning
    BY DEF Flow, Received, Drained, Stored, Cleaning
  <1>. QED
    BY <1>1, <1>2, <1>3, <1>4 DEF IInv
-----------------------------------------------------------------------------
\* What becomes of a sidecar: written anew or removed, or as it was.
LEMMA SidecarType ==
  ASSUME CardType, NEW p \in Path, NEW b \in Books \union {NoBook},
         Sidecar(p, b) \/ (UNCHANGED side /\ stale' \subseteq Path)
  PROVE  side' \in [Path -> Books \union {NoBook}] /\ stale' \subseteq Path
  BY DEF CardType, Sidecar

\* What Remove() may do to the card.
LEMMA RemoveKeepsTypes ==
  ASSUME CardType, LenType, NEW p \in Path, Remove(p)
  PROVE  /\ book' \in [Path -> Books \union {NoBook}]
         /\ len' \in [Path -> 0..BookSize]
  BY SizesAssumption DEF CardType, LenType, Remove

LEMMA StartUploadIInv ==
  ASSUME IInv, NEW p \in Path, NEW b \in Books, StartUpload(p, b)
  PROVE  IInv'
  <1> USE SizesAssumption, NamesAssumption DEF IInv, StartUpload, Begin, Ready
  <1>1. CardType' /\ LenType'
    BY DEF CardType, LenType
  <1>2. UploadType' /\ CountType' /\ JobType'
    BY DEF UploadType, CountType, JobType
  <1>5. FlagType'
    BY DEF FlagType
  <1>3. Flow' /\ Drained' /\ Stored' /\ Cleaning'
    BY DEF Flow, Drained, Stored, Cleaning
  <1>4. Received'
    BY DEF Received, CardType, LenType
  <1>. QED
    BY <1>1, <1>2, <1>3, <1>4, <1>5

LEMMA RejectUploadIInv ==
  ASSUME IInv, RejectUpload
  PROVE  IInv'
  <1> USE SizesAssumption, NamesAssumption DEF IInv, RejectUpload, Begin, Ready, card
  <1>1. CardType' /\ LenType'
    BY DEF CardType, LenType
  <1>2. UploadType' /\ CountType' /\ JobType'
    BY DEF UploadType, CountType, JobType
  <1>5. FlagType'
    BY DEF FlagType
  <1>3. Flow' /\ Received' /\ Drained' /\ Stored' /\ Cleaning'
    BY DEF Flow, Received, Drained, Stored, Cleaning
  <1>. QED
    BY <1>1, <1>2, <1>3, <1>5

LEMMA ReceiveIInv ==
  ASSUME IInv, NEW n \in 1..RecvMax, Receive(n)
  PROVE  IInv'
  <1> USE SizesAssumption, NamesAssumption DEF IInv, Receive, job
  <1>1. CASE ~(success /\ open)
    BY <1>1 DEF CardType, LenType, UploadType, FlagType, CountType, JobType, Flow, Received, Drained, Stored, Cleaning
  <1>2. CASE success /\ open
    <2>1. PICK w \in Written(Due(n)) : len' = [len EXCEPT ![dest] = @ + w]
                                       /\ success' = (w = Due(n)) /\ filled' = Left(n, w)
      BY <1>2
    <2>2. /\ dest \in Path /\ len[dest] \in Nat /\ len[dest] + filled = got
          /\ filled \in Nat /\ room \in {0, BufferSize} /\ got + n <= BookSize /\ got \in Nat
          /\ filled < room \/ filled = 0
      BY <1>2 DEF Flow, LenType, Received, CountType
    <2>3. /\ Due(n) \in Nat /\ w \in 0..Due(n) 
          /\ Due(n) <= filled + n
      BY <2>1, <2>2 DEF Due, Written
    <2>4. /\ Left(n, w) \in 0..BufferSize
          /\ w = Due(n) => w + Left(n, w) = filled + n
          /\ Left(n, w) < room \/ Left(n, w) = 0
          /\ w # Due(n) => Left(n, w) = 0
      BY <2>2, <2>3 DEF Left, Due
    <2>5. LenType' /\ len'[dest] = len[dest] + w
      BY <2>1, <2>2, <2>3 DEF LenType
    <2>6. CardType' /\ UploadType' /\ FlagType' /\ CountType' /\ JobType'
      BY <2>1, <2>2, <2>4 DEF CardType, UploadType, FlagType, CountType, JobType
    <2>7. Received'
      <3>1. SUFFICES ASSUME success' PROVE Received'
        BY DEF Received
      <3>2. w = Due(n)
        BY <2>1, <3>1
      <3>3. len'[dest] + filled' = got'
        BY <2>1, <2>2, <2>3, <2>4, <2>5, <3>2
      <3>4. book'[dest'] = sent'
        BY <1>2 DEF Received, Flow
      <3>. QED
        BY <2>1, <2>4, <3>3, <3>4 DEF Received
    <2>8. Flow' /\ Drained' /\ Stored' /\ Cleaning'
      BY <1>2, <2>1, <2>2, <2>4 DEF Flow, Drained, Stored, Cleaning
    <2>. QED
      BY <2>5, <2>6, <2>7, <2>8
  <1>. QED
    BY <1>1, <1>2

LEMMA FinishUploadIInv ==
  ASSUME IInv, FinishUpload
  PROVE  IInv'
  <1> USE SizesAssumption, NamesAssumption DEF IInv, FinishUpload
  <1>1. CASE success /\ open
    <2>1. PICK w \in Written(filled) :
            \/ /\ w = filled /\ success' = TRUE /\ Close(len[dest] + w)
               /\ pc' = "drop" /\ cur' = dest /\ UNCHANGED book
            \/ success' = FALSE /\ Remove(dest) /\ pc' = "answer" /\ UNCHANGED <<cur, spoilt>>
      <3>1. filled \in Nat
        BY DEF CountType
      <3>2. PICK w \in Written(filled) :
              /\ success' = (w = filled)
              /\ \/ /\ w = filled
                    /\ Close(len[dest] + w)
                    /\ pc' = "drop" /\ cur' = dest /\ UNCHANGED book
                 \/ w < filled /\ Remove(dest) /\ pc' = "answer" /\ UNCHANGED <<cur, spoilt>>
        BY <1>1
      <3>3. w < filled => w # filled
        BY <3>1 DEF Written
      <3>. QED
        BY <3>2, <3>3
    <2>2. /\ dest \in Path /\ len[dest] \in Nat /\ len[dest] + filled = BookSize
          /\ book[dest] = sent /\ request = "upload" /\ folder = NoFolder
      BY <1>1 DEF Flow, LenType, Received
    <2>3. CASE success' = TRUE
      <3>1. Close(BookSize) /\ pc' = "drop" /\ cur' = dest /\ book' = book
        BY <2>1, <2>2, <2>3 DEF CountType
      <3>6. 0 \in 0..BookSize /\ BookSize \in 0..BookSize
        OBVIOUS
      <3>5. PICK m \in 0..BookSize :
              /\ len' = [len EXCEPT ![dest] = m]
              /\ spoilt' \in BOOLEAN /\ (spoilt' \/ m = BookSize)
        BY <3>1, <3>6 DEF Close
      <3>2. CardType' /\ LenType' /\ UploadType' /\ CountType' /\ JobType'
        BY <3>1, <3>5, <2>2 DEF CardType, LenType, UploadType, CountType, JobType
      <3>4. FlagType'
        BY <2>3, <3>5 DEF FlagType
      <3>3. Flow' /\ Received' /\ Drained' /\ Stored' /\ Cleaning'
        BY <3>1, <3>5, <2>2, <2>3 DEF Flow, Received, Drained, Stored, Cleaning, LenType
      <3>. QED
        BY <3>2, <3>3, <3>4
    <2>4. CASE success' = FALSE
      <3>1. Remove(dest) /\ pc' = "answer" /\ cur' = cur
        BY <2>1, <2>4
      <3>2. CardType' /\ LenType'
        BY <3>1, <2>2, RemoveKeepsTypes DEF CardType, LenType
      <3>3. UploadType' /\ CountType' /\ JobType'
        BY <3>1, <2>2 DEF UploadType, CountType, JobType
      <3>5. FlagType'
        BY <2>4 DEF FlagType
      <3>4. Flow' /\ Received' /\ Drained' /\ Stored' /\ Cleaning'
        BY <3>1, <2>2, <2>4 DEF Flow, Received, Drained, Stored, Cleaning
      <3>. QED
        BY <3>2, <3>3, <3>4, <3>5
    <2>. QED
      BY <2>1, <2>3, <2>4
  <1>2. CASE ~(success /\ open)
    <2>1. CardType' /\ LenType'
      BY <1>2, RemoveKeepsTypes DEF CardType, LenType, UploadType
    <2>2. UploadType' /\ CountType' /\ JobType'
      BY <1>2 DEF UploadType, CountType, JobType
    <2>4. FlagType'
      BY <1>2 DEF FlagType
    <2>3. Flow' /\ Received' /\ Drained' /\ Stored' /\ Cleaning'
      BY <1>2 DEF Flow, Received, Drained, Stored, Cleaning
    <2>. QED
      BY <2>1, <2>2, <2>3, <2>4
  <1>. QED
    BY <1>1, <1>2

LEMMA AbortUploadIInv ==
  ASSUME IInv, AbortUpload
  PROVE  IInv'
  <1> USE SizesAssumption, NamesAssumption DEF IInv, AbortUpload
  <1>1. CardType' /\ LenType'
    BY RemoveKeepsTypes DEF CardType, LenType, DropPartial, Flow
  <1>2. UploadType' /\ CountType' /\ JobType'
    BY DEF UploadType, CountType, JobType
  <1>5. FlagType'
    BY DEF FlagType
  <1>3. Flow' /\ Received' /\ Drained' /\ Stored' /\ Cleaning'
    BY DEF Flow, Received, Drained, Stored, Cleaning
  <1>. QED
    BY <1>1, <1>2, <1>3, <1>5
-----------------------------------------------------------------------------

LEMMA DropSidecarsIInv ==
  ASSUME IInv, DropSidecars
  PROVE  IInv'
  <1> USE SizesAssumption, NamesAssumption DEF IInv, DropSidecars, up
  <1>0. cur \in Path
    BY DEF Flow
  <1>5. side' \in [Path -> Books \union {NoBook}] /\ stale' \subseteq Path
    BY <1>0, SidecarType DEF CardType
  <1>1. CardType' /\ LenType'
    BY <1>5 DEF CardType, LenType
  <1>2. UploadType' /\ CountType' /\ JobType'
    BY DEF UploadType, CountType, JobType
  <1>3. FlagType'
    BY DEF FlagType
  <1>4. Flow' /\ Received' /\ Drained' /\ Cleaning'
    BY DEF Flow, Received, Drained, Cleaning
  <1>6. side'[cur] = NoBook \/ cur \in stale'
    BY <1>0 DEF Sidecar, CardType
  <1>7. Stored'
    BY <1>6 DEF Stored, Cleaning
  <1>. QED
    BY <1>1, <1>2, <1>3, <1>4, <1>7

LEMMA ForgetLastIInv ==
  ASSUME IInv, ForgetLast
  PROVE  IInv'
  <1> USE SizesAssumption, NamesAssumption DEF IInv, ForgetLast, up, LastAfter, Forgotten
  <1>1. CardType' /\ LenType'
    BY DEF CardType, LenType, JobType
  <1>2. UploadType' /\ CountType' /\ JobType'
    BY DEF UploadType, CountType, JobType
  <1>3. FlagType'
    BY DEF FlagType
  <1>4. Flow' /\ Received' /\ Drained' /\ Stored' /\ Cleaning'
    BY DEF Flow, Received, Drained, Stored, Cleaning, CardType, JobType
  <1>. QED
    BY <1>1, <1>2, <1>3, <1>4

LEMMA AnswerIInv ==
  ASSUME IInv, Answer
  PROVE  IInv'
  <1> USE SizesAssumption, NamesAssumption DEF IInv, Answer, card, up
  <1>1. CardType' /\ LenType'
    BY DEF CardType, LenType, JobType
  <1>2. UploadType' /\ CountType' /\ JobType'
    BY DEF UploadType, CountType, JobType
  <1>3. FlagType'
    BY DEF FlagType
  <1>4. Flow' /\ Received' /\ Drained' /\ Stored' /\ Cleaning'
    BY DEF Flow, Received, Drained, Stored, Cleaning, CardType, JobType
  <1>. QED
    BY <1>1, <1>2, <1>3, <1>4

LEMMA DeleteFileIInv ==
  ASSUME IInv, NEW p \in Path, DeleteFile(p)
  PROVE  IInv'
  <1> USE SizesAssumption, NamesAssumption DEF IInv, DeleteFile, Begin, Ready, up
  <1>1. CardType' /\ LenType'
    BY DEF CardType, LenType, JobType
  <1>2. UploadType' /\ CountType' /\ JobType'
    BY DEF UploadType, CountType, JobType
  <1>3. FlagType'
    BY DEF FlagType
  <1>4. Flow' /\ Received' /\ Drained' /\ Stored' /\ Cleaning'
    BY DEF Flow, Received, Drained, Stored, Cleaning, CardType, JobType
  <1>. QED
    BY <1>1, <1>2, <1>3, <1>4

LEMMA DeleteFolderIInv ==
  ASSUME IInv, NEW f \in Folders, DeleteFolder(f)
  PROVE  IInv'
  <1> USE SizesAssumption, NamesAssumption DEF IInv, DeleteFolder, Begin, Ready, card, up, In
  <1>1. CardType' /\ LenType'
    BY DEF CardType, LenType, JobType
  <1>2. UploadType' /\ CountType' /\ JobType'
    BY DEF UploadType, CountType, JobType
  <1>3. FlagType'
    BY DEF FlagType
  <1>4. Flow' /\ Received' /\ Drained' /\ Stored' /\ Cleaning'
    BY DEF Flow, Received, Drained, Stored, Cleaning, CardType, JobType
  <1>. QED
    BY <1>1, <1>2, <1>3, <1>4

LEMMA RemoveNextIInv ==
  ASSUME IInv, NEW p \in Path, RemoveNext(p)
  PROVE  IInv'
  <1> USE SizesAssumption, NamesAssumption DEF IInv, RemoveNext, up
  <1>1. CardType' /\ LenType'
    BY DEF CardType, LenType, JobType
  <1>2. UploadType' /\ CountType' /\ JobType'
    BY DEF UploadType, CountType, JobType
  <1>3. FlagType'
    BY DEF FlagType
  <1>4. Flow' /\ Received' /\ Drained' /\ Stored' /\ Cleaning'
    BY DEF Flow, Received, Drained, Stored, Cleaning, CardType, JobType
  <1>. QED
    BY <1>1, <1>2, <1>3, <1>4

LEMMA RemoveFailsIInv ==
  ASSUME IInv, RemoveFails
  PROVE  IInv'
  <1> USE SizesAssumption, NamesAssumption DEF IInv, RemoveFails, card, up
  <1>1. CardType' /\ LenType'
    BY DEF CardType, LenType, JobType
  <1>2. UploadType' /\ CountType' /\ JobType'
    BY DEF UploadType, CountType, JobType
  <1>3. FlagType'
    BY DEF FlagType
  <1>4. Flow' /\ Received' /\ Drained' /\ Stored' /\ Cleaning'
    BY DEF Flow, Received, Drained, Stored, Cleaning, CardType, JobType
  <1>. QED
    BY <1>1, <1>2, <1>3, <1>4

LEMMA RemoveFolderIInv ==
  ASSUME IInv, RemoveFolder
  PROVE  IInv'
  <1> USE SizesAssumption, NamesAssumption DEF IInv, RemoveFolder, up
  <1>1. CardType' /\ LenType'
    BY DEF CardType, LenType, JobType
  <1>2. UploadType' /\ CountType' /\ JobType'
    BY DEF UploadType, CountType, JobType
  <1>3. FlagType'
    BY DEF FlagType
  <1>4. Flow' /\ Received' /\ Drained' /\ Stored' /\ Cleaning'
    BY DEF Flow, Received, Drained, Stored, Cleaning, CardType, JobType
  <1>. QED
    BY <1>1, <1>2, <1>3, <1>4

LEMMA MoveFileIInv ==
  ASSUME IInv, NEW p \in Path, NEW q \in Path, MoveFile(p, q)
  PROVE  IInv'
  <1> USE SizesAssumption, NamesAssumption DEF IInv, MoveFile, Begin, Ready, up
  <1>1. CardType' /\ LenType'
    BY DEF CardType, LenType, JobType
  <1>2. UploadType' /\ CountType' /\ JobType'
    BY DEF UploadType, CountType, JobType
  <1>3. FlagType'
    BY DEF FlagType
  <1>4. Flow' /\ Received' /\ Drained' /\ Stored' /\ Cleaning'
    BY DEF Flow, Received, Drained, Stored, Cleaning, CardType, JobType
  <1>. QED
    BY <1>1, <1>2, <1>3, <1>4

LEMMA RenameFolderIInv ==
  ASSUME IInv, NEW f \in Folders, NEW g \in Folders, RenameFolder(f, g)
  PROVE  IInv'
  <1> USE SizesAssumption, NamesAssumption DEF IInv, RenameFolder, Begin, Ready, up
  <1> DEFINE source(p) == IF Folder(p) = g THEN <<f, p[2]>> ELSE p
  <1>5. \A p \in Path : source(p) \in Path
    BY DEF Path
  <1>6. /\ book' = [p \in Path |-> IF Folder(p) = f THEN NoBook ELSE book[source(p)]]
        /\ len' = [p \in Path |-> IF Folder(p) = f THEN 0 ELSE len[source(p)]]
        /\ folders' \subseteq Folders /\ UNCHANGED <<side, stale, last>>
    BY DEF CardType
  <1> HIDE DEF RenameFolder, source
  <1>1. CardType' /\ LenType'
    BY <1>5, <1>6 DEF CardType, LenType
  <1> USE DEF RenameFolder
  <1>2. UploadType' /\ CountType' /\ JobType'
    BY DEF UploadType, CountType, JobType
  <1>3. FlagType'
    BY DEF FlagType
  <1>4. Flow' /\ Received' /\ Drained' /\ Stored' /\ Cleaning'
    BY DEF Flow, Received, Drained, Stored, Cleaning, CardType, JobType
  <1>. QED
    BY <1>1, <1>2, <1>3, <1>4

LEMMA MakeFolderIInv ==
  ASSUME IInv, NEW f \in Folders, MakeFolder(f)
  PROVE  IInv'
  <1> USE SizesAssumption, NamesAssumption DEF IInv, MakeFolder, Ready, up, job
  <1>1. CardType' /\ LenType'
    BY DEF CardType, LenType, JobType
  <1>2. UploadType' /\ CountType' /\ JobType'
    BY DEF UploadType, CountType, JobType
  <1>3. FlagType'
    BY DEF FlagType
  <1>4. Flow' /\ Received' /\ Drained' /\ Stored' /\ Cleaning'
    BY DEF Flow, Received, Drained, Stored, Cleaning, CardType, JobType
  <1>. QED
    BY <1>1, <1>2, <1>3, <1>4

LEMMA StartSessionIInv ==
  ASSUME IInv, StartSession
  PROVE  IInv'
  <1> USE SizesAssumption, NamesAssumption DEF IInv, StartSession, card, job
  <1>1. CardType' /\ LenType'
    BY DEF CardType, LenType, JobType
  <1>2. UploadType' /\ CountType' /\ JobType'
    BY DEF UploadType, CountType, JobType
  <1>3. FlagType'
    BY DEF FlagType
  <1>4. Flow' /\ Received' /\ Drained' /\ Stored' /\ Cleaning'
    BY DEF Flow, Received, Drained, Stored, Cleaning, CardType, JobType
  <1>. QED
    BY <1>1, <1>2, <1>3, <1>4

LEMMA EndSessionIInv ==
  ASSUME IInv, EndSession
  PROVE  IInv'
  <1> USE SizesAssumption, NamesAssumption DEF IInv, EndSession, Ready, NothingReceived, Idle, card
  <1>1. CardType' /\ LenType'
    BY DEF CardType, LenType, JobType
  <1>2. UploadType' /\ CountType' /\ JobType'
    BY DEF UploadType, CountType, JobType
  <1>3. FlagType'
    BY DEF FlagType
  <1>4. Flow' /\ Received' /\ Drained' /\ Stored' /\ Cleaning'
    BY DEF Flow, Received, Drained, Stored, Cleaning, CardType, JobType
  <1>. QED
    BY <1>1, <1>2, <1>3, <1>4

LEMMA PowerLostIInv ==
  ASSUME IInv, PowerLost
  PROVE  IInv'
  <1> USE SizesAssumption, NamesAssumption DEF IInv, PowerLost, NothingReceived, Idle
  <1>1. CardType' /\ LenType'
    BY DEF CardType, LenType, JobType
  <1>2. UploadType' /\ CountType' /\ JobType'
    BY DEF UploadType, CountType, JobType
  <1>3. FlagType'
    BY DEF FlagType
  <1>4. Flow' /\ Received' /\ Drained' /\ Stored' /\ Cleaning'
    BY DEF Flow, Received, Drained, Stored, Cleaning, CardType, JobType
  <1>. QED
    BY <1>1, <1>2, <1>3, <1>4

LEMMA ReadBookIInv ==
  ASSUME IInv, NEW p \in Path, ReadBook(p)
  PROVE  IInv'
  <1> USE SizesAssumption, NamesAssumption DEF IInv, ReadBook, up, job
  <1>5. side' \in [Path -> Books \union {NoBook}] /\ stale' \subseteq Path
    BY SidecarType DEF CardType
  <1>6. last' \in [path : Path \union {NoPath}, book : Books \union {NoBook}]
    BY DEF CardType, Forgotten
  <1>1. CardType' /\ LenType'
    BY <1>5, <1>6 DEF CardType, LenType
  <1>2. UploadType' /\ CountType' /\ JobType'
    BY DEF UploadType, CountType, JobType
  <1>3. FlagType'
    BY DEF FlagType
  <1>4. Flow' /\ Received' /\ Drained' /\ Stored' /\ Cleaning'
    BY DEF Flow, Received, Drained, Stored, Cleaning, CardType, JobType
  <1>. QED
    BY <1>1, <1>2, <1>3, <1>4
-----------------------------------------------------------------------------
LEMMA StepIInv == IInv /\ [Next]_vars => IInv'
  <1> SUFFICES ASSUME IInv, [Next]_vars PROVE IInv'
    OBVIOUS
  <1>1. ASSUME NEW p \in Path, NEW b \in Books, StartUpload(p, b) PROVE IInv'
    BY <1>1, StartUploadIInv
  <1>2. CASE RejectUpload
    BY <1>2, RejectUploadIInv
  <1>3. ASSUME NEW n \in 1..RecvMax, Receive(n) PROVE IInv'
    BY <1>3, ReceiveIInv
  <1>4. CASE FinishUpload \/ AbortUpload
    BY <1>4, FinishUploadIInv, AbortUploadIInv
  <1>5. CASE DropSidecars \/ ForgetLast \/ Answer
    BY <1>5, DropSidecarsIInv, ForgetLastIInv, AnswerIInv
  <1>6. ASSUME NEW p \in Path, RemoveNext(p) \/ DeleteFile(p) \/ ReadBook(p) PROVE IInv'
    BY <1>6, RemoveNextIInv, DeleteFileIInv, ReadBookIInv
  <1>7. CASE RemoveFails \/ RemoveFolder
    BY <1>7, RemoveFailsIInv, RemoveFolderIInv
  <1>8. ASSUME NEW p \in Path, NEW q \in Path, MoveFile(p, q) PROVE IInv'
    BY <1>8, MoveFileIInv
  <1>9. ASSUME NEW f \in Folders, NEW g \in Folders, RenameFolder(f, g) PROVE IInv'
    BY <1>9, RenameFolderIInv
  <1>10. ASSUME NEW f \in Folders, DeleteFolder(f) \/ MakeFolder(f) PROVE IInv'
    BY <1>10, DeleteFolderIInv, MakeFolderIInv
  <1>11. CASE StartSession \/ EndSession \/ PowerLost
    BY <1>11, StartSessionIInv, EndSessionIInv, PowerLostIInv
  <1>12. CASE UNCHANGED vars
    BY <1>12 DEF vars, card, up, job, IInv, CardType, LenType, UploadType, FlagType, CountType, JobType,
                 Flow, Received, Drained, Stored, Cleaning
  <1>. QED
    BY <1>1, <1>2, <1>3, <1>4, <1>5, <1>6, <1>7, <1>8, <1>9, <1>10, <1>11, <1>12
       DEF Next, Serve, NewRequest

LEMMA AlwaysIInv == Spec => []IInv
  BY InitIInv, StepIInv, PTL DEF Spec

\* Every variable of the file server model keeps its range.
THEOREM TypeCorrect == Spec => []TypeOK
  <1>1. IInv => TypeOK
    BY TypeParts DEF IInv
  <1>. QED
    BY <1>1, AlwaysIInv, PTL

\* Whatever else goes wrong, "File uploaded successfully" means that the whole
\* book is on the card, unless its flush or close failed, and that nothing is
\* remembered of the one before it, unless the card refused to remove its sidecar.
THEOREM ReportedUploadIsWhole == Spec => []UploadOkIsWhole
  <1>1. IInv => UploadOkIsWhole
    BY DEF IInv, Stored, UploadOkIsWhole
  <1>. QED
    BY <1>1, AlwaysIInv, PTL
-----------------------------------------------------------------------------
\* An upload is over in one step, with the whole file or with none, on a card
\* that lets go of files, unless the flush or the close failed; whatever the peer
\* and the card's other writes do.
THEOREM CutBooksAreRemoved ==
  ASSUME "stuck" \notin Trouble
  PROVE  Spec => WholeOrGone
  <1> DEFINE Closes == open /\ ~open' /\ mode' = "serving"
             Clean  == len'[dest] \in {0, BookSize} \/ spoilt'
  <1>1. ASSUME IInv, Next, Closes PROVE Clean
    <2>1. pc = "body" /\ dest \in Path /\ mode = "serving"
      BY <1>1 DEF IInv, Flow, JobType
    <2>2. FinishUpload \/ AbortUpload
      BY <1>1, <2>1 DEF Next, Serve, NewRequest, StartUpload, RejectUpload, Receive, DropSidecars,
         ForgetLast, Answer, RemoveNext, RemoveFails, RemoveFolder, DeleteFile, MoveFile, RenameFolder,
         DeleteFolder, MakeFolder, Begin, Ready, StartSession, EndSession, PowerLost, NothingReceived,
         ReadBook, up, card
    <2>3. Remove(dest) => len'[dest] = 0
      BY <1>1, <2>1 DEF Remove, IInv, LenType
    <2>4. CASE AbortUpload
      BY <1>1, <2>3, <2>4 DEF AbortUpload, DropPartial
    <2>5. CASE FinishUpload /\ ~success
      BY <1>1, <2>1, <2>3, <2>5, NamesAssumption DEF FinishUpload
    <2>6. CASE FinishUpload /\ success
      <3>1. got = BookSize /\ len[dest] + filled = got
        BY <1>1, <2>1, <2>6 DEF FinishUpload, IInv, Received
      <3>2. Remove(dest) \/ Close(len[dest] + filled)
        BY <1>1, <2>6 DEF FinishUpload
      <3>4. len \in [Path -> 0..BookSize]
        BY <1>1 DEF IInv, LenType
      <3>3. Close(BookSize) => Clean
        BY <2>1, <3>4 DEF Close
      <3>. QED
        BY <1>1, <2>1, <2>3, <3>1, <3>2, <3>3
    <2>. QED
      BY <2>2, <2>4, <2>5, <2>6
  <1>2. IInv /\ [Next]_vars => [Closes => Clean]_vars
    BY <1>1
  <1>. QED
    BY <1>2, AlwaysIInv, PTL DEF Spec, WholeOrGone

\* removeFor() is only called for a book that is gone, or that an upload has
\* just replaced as a whole.
DropIsDue == pc = "drop" => book[cur] = NoBook \/ (request = "upload" /\ cur = dest /\ success)

LEMMA DropStaysDue == IInv /\ DropIsDue /\ [Next]_vars => DropIsDue'
  <1> SUFFICES ASSUME IInv, DropIsDue, [Next]_vars, pc' = "drop"
               PROVE  book'[cur'] = NoBook \/ (request' = "upload" /\ cur' = dest' /\ success')
    BY DEF DropIsDue
  <1>1. CASE FinishUpload
    <2>1. pc = "body" /\ request' = "upload"
      BY <1>1 DEF FinishUpload, IInv, Flow
    <2>2. cur' = dest /\ dest' = dest /\ success'
      BY <1>1 DEF FinishUpload
    <2>. QED
      BY <2>1, <2>2
  <1>2. ASSUME NEW p \in Path, DeleteFile(p) \/ RemoveNext(p)
        PROVE  book'[cur'] = NoBook
    BY <1>2 DEF DeleteFile, RemoveNext, IInv, CardType
  <1>3. ASSUME NEW p \in Path, NEW q \in Path, MoveFile(p, q)
        PROVE  book'[cur'] = NoBook
    BY <1>3 DEF MoveFile, IInv, CardType
  <1>4. CASE UNCHANGED vars
    BY <1>4 DEF vars, card, up, job, DropIsDue
  <1>5. CASE \/ \E p \in Path, b \in Books : StartUpload(p, b)
             \/ RejectUpload \/ AbortUpload \/ EndSession \/ PowerLost
             \/ \E n \in 1..RecvMax : Receive(n)
    BY <1>5 DEF StartUpload, RejectUpload, AbortUpload, EndSession, PowerLost, Idle, Receive, job
  <1>6. CASE \/ DropSidecars \/ ForgetLast \/ Answer \/ RemoveFails \/ RemoveFolder
             \/ \E f, g \in Folders : RenameFolder(f, g)
             \/ \E f \in Folders : DeleteFolder(f) \/ MakeFolder(f)
    BY <1>6 DEF DropSidecars, ForgetLast, Answer, RemoveFails, RemoveFolder, RenameFolder,
                DeleteFolder, MakeFolder, Ready, job
  <1>7. CASE StartSession \/ \E p \in Path : ReadBook(p)
    BY <1>7 DEF StartSession, ReadBook, job, IInv, Flow
  <1>. QED
    BY <1>1, <1>2, <1>3, <1>4, <1>5, <1>6, <1>7 DEF Next, Serve, NewRequest

\* The server deletes a reading position only when its book is gone or replaced, also
\* when the card refuses a removal: for every trouble.
THEOREM PositionsOutliveRefusals == Spec => ProgressKept
  <1> DEFINE Loses(p) == mode = "serving" /\ side[p] # NoBook /\ side'[p] = NoBook
             Owes(p)  == book[p] = NoBook \/ (request = "upload" /\ p = dest /\ success)
  <1>1. Init => DropIsDue
    BY DEF Init, DropIsDue
  <1>2. ASSUME IInv, DropIsDue, Next, NEW p \in Path, Loses(p) PROVE Owes(p)
    <2>1. DropSidecars
      BY <1>2 DEF Next, Serve, NewRequest, StartUpload, RejectUpload, Receive, FinishUpload, AbortUpload,
         ForgetLast, Answer, RemoveNext, RemoveFails, RemoveFolder, DeleteFile, MoveFile, RenameFolder,
         DeleteFolder, MakeFolder, StartSession, EndSession, PowerLost, ReadBook, card, Exists,
         IInv, CardType
    <2>2. pc = "drop" /\ p = cur
      BY <1>2, <2>1 DEF DropSidecars, Sidecar, IInv, CardType
    <2>. QED
      BY <1>2, <2>2 DEF DropIsDue
  <1>3. IInv /\ DropIsDue /\ [Next]_vars => [\A p \in Path : Loses(p) => Owes(p)]_vars
    BY <1>2
  <1>. QED
    BY <1>1, <1>3, DropStaysDue, AlwaysIInv, PTL DEF Spec, ProgressKept
-----------------------------------------------------------------------------
\* How far a request is from its end: the bytes the peer still owes, the files
\* still to delete with the three steps each takes, and the steps of the answer.
Weight == [idle |-> 0, answer |-> 1, delete |-> 2, forget |-> 3, drop |-> 4, body |-> 5]
Rank   == 3 * Cardinality(todo) + Weight[pc] + (IF pc = "body" THEN BookSize - got ELSE 0)

LEMMA RankType ==
  ASSUME IInv, IsFiniteSet(Path)
  PROVE  /\ Cardinality(todo) \in Nat /\ IsFiniteSet(todo)
         /\ Rank \in Nat /\ (pc # "idle" => Rank > 0)
  <1>1. Cardinality(todo) \in Nat /\ IsFiniteSet(todo)
    BY FS_Subset, FS_CardinalityType DEF IInv, JobType
  <1>2. /\ Weight[pc] \in Nat /\ (pc # "idle" => Weight[pc] > 0)
        /\ (IF pc = "body" THEN BookSize - got ELSE 0) \in Nat
    BY SizesAssumption DEF IInv, JobType, CountType, Weight
  <1>. QED
    BY <1>1, <1>2 DEF Rank

\* A step that keeps the list of files lowers the rank by its weight.
LEMMA LighterStep ==
  ASSUME IInv, IInv', IsFiniteSet(Path), todo' = todo,
         pc' # "body", Weight[pc'] < Weight[pc]
  PROVE  Rank' < Rank
  <1>1. Cardinality(todo') = Cardinality(todo) /\ Cardinality(todo) \in Nat
    BY RankType
  <1>2. (IF pc = "body" THEN BookSize - got ELSE 0) \in Nat /\ Weight[pc] \in Nat /\ Weight[pc'] \in Nat
    BY SizesAssumption DEF IInv, JobType, CountType, Weight
  <1>. QED
    BY <1>1, <1>2 DEF Rank

LEMMA StepShrinks ==
  ASSUME IInv, IInv', IsFiniteSet(Path), [Next]_vars, pc # "idle", ~UNCHANGED vars
  PROVE  Rank' < Rank
  <1>0. ASSUME todo' = todo, pc' # "body", Weight[pc'] < Weight[pc] PROVE Rank' < Rank
    BY <1>0, LighterStep
  <1>1. ASSUME NEW n \in 1..RecvMax, Receive(n) PROVE Rank' < Rank
    <2>1. pc = "body" /\ pc' = "body" /\ todo' = todo /\ got' = got + n
      BY <1>1 DEF Receive, job
    <2>2. Cardinality(todo) \in Nat /\ got \in Nat /\ n > 0
      BY RankType, SizesAssumption, <1>1 DEF IInv, CountType
    <2>. QED
      BY <2>1, <2>2, SizesAssumption DEF Rank, Weight
  <1>2. CASE FinishUpload
    <2>1. pc = "body" /\ pc' \in {"drop", "answer"} /\ todo' = todo
      BY <1>2 DEF FinishUpload
    <2>. QED
      BY <1>0, <2>1 DEF Weight
  <1>3. CASE AbortUpload
    BY <1>0, <1>3 DEF AbortUpload, Weight
  <1>4. CASE DropSidecars
    BY <1>0, <1>4 DEF DropSidecars, Weight
  <1>5. CASE ForgetLast
    BY <1>0, <1>5 DEF ForgetLast, Weight
  <1>6. CASE Answer
    BY <1>0, <1>6 DEF Answer, Weight
  <1>7. CASE RemoveFolder
    BY <1>0, <1>7 DEF RemoveFolder, Weight
  <1>8. ASSUME NEW p \in Path, RemoveNext(p) PROVE Rank' < Rank
    <2>1. pc = "delete" /\ pc' = "drop" /\ p \in todo /\ todo' = todo \ {p}
      BY <1>8 DEF RemoveNext
    <2>2. Cardinality(todo') = Cardinality(todo) - 1 /\ Cardinality(todo) \in Nat
      BY <2>1, RankType, FS_RemoveElement
    <2>. QED
      BY <2>1, <2>2 DEF Rank, Weight
  <1>9. CASE todo' = {} /\ pc' \in {"idle", "answer"} /\ Weight[pc'] < Weight[pc]
    <2>1. Cardinality(todo') = 0 /\ Cardinality(todo) \in Nat
      BY <1>9, RankType, FS_EmptySet
    <2>2. (IF pc = "body" THEN BookSize - got ELSE 0) \in Nat /\ Weight[pc] \in Nat /\ Weight[pc'] \in Nat
      BY SizesAssumption DEF IInv, JobType, CountType, Weight
    <2>. QED
      BY <1>9, <2>1, <2>2 DEF Rank
  <1>10. CASE RemoveFails
    BY <1>9, <1>10 DEF RemoveFails, Weight
  <1>11. CASE PowerLost
    BY <1>9, <1>11 DEF PowerLost, Idle, Weight, IInv, JobType
  <1>12. /\ ~NewRequest /\ ~StartSession /\ ~EndSession /\ \A p \in Path : ~ReadBook(p)
    BY DEF NewRequest, StartUpload, RejectUpload, DeleteFile, MoveFile, RenameFolder, DeleteFolder,
           MakeFolder, Begin, Ready, StartSession, EndSession, ReadBook, IInv, Flow
  <1>. QED
    BY <1>1, <1>2, <1>3, <1>4, <1>5, <1>6, <1>7, <1>8, <1>10, <1>11, <1>12 DEF Next, Serve

\* Whatever fails, no request goes on for ever: on a card with finitely many paths
\* every step taken in one, be it the server's, the peer's or a power cut, lowers a
\* natural number.
THEOREM RequestsShrink ==
  ASSUME IsFiniteSet(Path)
  PROVE  Spec => [](Rank \in Nat) /\ [][pc # "idle" => Rank' < Rank]_vars
  <1>1. IInv => Rank \in Nat
    BY RankType
  <1>2. IInv /\ IInv' /\ [Next]_vars => [pc # "idle" => Rank' < Rank]_vars
    BY StepShrinks
  <1>3. IInv /\ [Next]_vars => IInv'
    BY StepIInv
  <1>. QED
    BY <1>1, <1>2, <1>3, InitIInv, PTL DEF Spec
-----------------------------------------------------------------------------
\* The card may refuse to delete; nothing else goes wrong.
Calm == Trouble \subseteq {"stuck"}

\* A sidecar has its book, and was saved in it, unless it is about to go or the
\* card refused to remove it.
SideHasBook == \A p \in Path : side[p] # NoBook => Exists(p) \/ Sweeping(p) \/ p \in stale
SideMatches ==
  \A p \in Path : side[p] # NoBook /\ Exists(p)
    => side[p] = book[p] \/ (p = dest /\ open) \/ Sweeping(p) \/ p \in stale
DestClean == dest # NoPath => side[dest] = NoBook \/ open \/ Sweeping(dest) \/ dest \in stale
SideInv == SideHasBook /\ SideMatches /\ DestClean

\* The same of the last book.
LastHasBook == last.path # NoPath => Exists(last.path) \/ Forgetting(last.path)
LastMatches ==
  last.path # NoPath /\ Exists(last.path)
    => book[last.path] = last.book \/ (last.path = dest /\ open) \/ Forgetting(last.path)
DestNotLast == dest # NoPath /\ dest = last.path => open \/ Forgetting(dest)
LastInv == LastHasBook /\ LastMatches /\ DestNotLast

\* Files are in folders that exist, and a folder under deletion keeps a list of
\* those still in it.
InFolders == \A p \in Path : Exists(p) => Folder(p) \in folders
TodoLeft  == folder # NoFolder => \A p \in In(folder) : Exists(p) => p \in todo
OpenIsGood == open => success
TreeInv == InFolders /\ TodoLeft /\ OpenIsGood

CInv == IInv /\ SideInv /\ LastInv /\ TreeInv

LEMMA InitCInv == Init => CInv
  <1> SUFFICES ASSUME Init PROVE CInv
    OBVIOUS
  <1>1. IInv
    BY InitIInv
  <1>2. SideInv /\ LastInv
    BY DEF Init, SideInv, SideHasBook, SideMatches, DestClean, LastInv, LastHasBook, LastMatches,
           DestNotLast, Forgotten
  <1>3. TreeInv
    BY DEF Init, TreeInv, InFolders, TodoLeft, OpenIsGood, Exists
  <1>. QED
    BY <1>1, <1>2, <1>3 DEF CInv

LEMMA StartUploadCInv ==
  ASSUME Calm, CInv, NEW p \in Path, NEW b \in Books, StartUpload(p, b)
  PROVE  SideInv' /\ LastInv' /\ TreeInv'
  <1> USE NamesAssumption DEF Calm, CInv, IInv, CardType, Flow, Exists, StartUpload, Begin, Ready
  <1>1. SideInv'
    BY DEF SideInv, SideHasBook, SideMatches, DestClean, Sweeping, InFolders, TreeInv
  <1>2. LastInv'
    BY DEF LastInv, LastHasBook, LastMatches, DestNotLast, Forgetting, InFolders, TreeInv
  <1>3. TreeInv'
    BY DEF TreeInv, InFolders, TodoLeft, OpenIsGood, In
  <1>. QED
    BY <1>1, <1>2, <1>3

LEMMA RejectUploadCInv ==
  ASSUME Calm, CInv, RejectUpload
  PROVE  SideInv' /\ LastInv' /\ TreeInv'
  <1> USE NamesAssumption DEF Calm, CInv, IInv, CardType, Flow, Exists, RejectUpload, Begin, Ready, card
  <1>1. SideInv'
    BY DEF SideInv, SideHasBook, SideMatches, DestClean, Sweeping, InFolders, TreeInv
  <1>2. LastInv'
    BY DEF LastInv, LastHasBook, LastMatches, DestNotLast, Forgetting, InFolders, TreeInv
  <1>3. TreeInv'
    BY DEF TreeInv, InFolders, TodoLeft, OpenIsGood, In
  <1>. QED
    BY <1>1, <1>2, <1>3

LEMMA ReceiveCInv ==
  ASSUME Calm, CInv, NEW n \in 1..RecvMax, Receive(n)
  PROVE  SideInv' /\ LastInv' /\ TreeInv'
  <1> USE NamesAssumption DEF Calm, CInv, IInv, CardType, Flow, Exists, Receive, job, Written, OpenIsGood
  <1>1. SideInv'
    BY DEF SideInv, SideHasBook, SideMatches, DestClean, Sweeping, InFolders, TreeInv
  <1>2. LastInv'
    BY DEF LastInv, LastHasBook, LastMatches, DestNotLast, Forgetting, InFolders, TreeInv
  <1>3. TreeInv'
    BY DEF TreeInv, InFolders, TodoLeft, OpenIsGood, In
  <1>. QED
    BY <1>1, <1>2, <1>3

LEMMA FinishUploadCInv ==
  ASSUME Calm, CInv, FinishUpload
  PROVE  SideInv' /\ LastInv' /\ TreeInv'
  <1> USE NamesAssumption DEF CInv, IInv, CardType, Flow, Exists
  <1>1. TreeInv'
    BY DEF Calm, FinishUpload, Remove, TreeInv, InFolders, TodoLeft, OpenIsGood, In
  <1>2. /\ pc = "body" /\ dest' = dest /\ open' = FALSE
        /\ UNCHANGED <<side, stale, last, sent>>
    BY DEF FinishUpload
  <1>3. CASE success /\ open
    <2>1. Written(filled) = {filled} /\ ~(filled < filled)
      BY DEF Calm, Written, CountType
    <2>2. book' = book /\ pc' = "drop" /\ cur' = dest
      BY <1>3, <2>1 DEF FinishUpload
    <2>. QED
      BY <1>1, <1>2, <2>2
         DEF SideInv, SideHasBook, SideMatches, DestClean, Sweeping,
             LastInv, LastHasBook, LastMatches, DestNotLast, Forgetting
  <1>4. CASE ~(success /\ open)
    <2>1. ~open /\ pc' = "answer" /\ cur' = cur
      BY <1>4 DEF FinishUpload, TreeInv, OpenIsGood
    <2>2. dest # NoPath => (side[dest] = NoBook \/ dest \in stale) /\ dest # last.path
      BY <1>2, <2>1 DEF SideInv, DestClean, Sweeping, LastInv, DestNotLast, Forgetting
    <2>3. \A p \in Path : book'[p] = book[p] \/ (p = dest /\ book'[p] = NoBook)
      BY <1>4, <2>1 DEF FinishUpload, Remove, UploadType
    <2>. QED
      BY <1>1, <1>2, <2>1, <2>2, <2>3
         DEF SideInv, SideHasBook, SideMatches, DestClean, Sweeping,
             LastInv, LastHasBook, LastMatches, DestNotLast, Forgetting
  <1>. QED
    BY <1>3, <1>4

LEMMA DropSidecarsCInv ==
  ASSUME Calm, CInv, DropSidecars
  PROVE  SideInv' /\ LastInv' /\ TreeInv'
  <1> USE NamesAssumption DEF Calm, CInv, IInv, CardType, Flow, Exists, DropSidecars, up
  <1>4. \A p \in Path : (side'[p] = side[p] /\ (p \in stale => p \in stale') /\ p # cur)
                       \/ (p = cur /\ (side'[p] = NoBook \/ p \in stale'))
    BY DEF Sidecar
  <1>1. SideInv'
    BY <1>4 DEF UploadType, SideInv, SideHasBook, SideMatches, DestClean, Sweeping, InFolders, TreeInv
  <1>2. LastInv'
    BY DEF LastInv, LastHasBook, LastMatches, DestNotLast, Forgetting, InFolders, TreeInv
  <1>3. TreeInv'
    BY DEF TreeInv, InFolders, TodoLeft, OpenIsGood, In
  <1>. QED
    BY <1>1, <1>2, <1>3

LEMMA ForgetLastCInv ==
  ASSUME Calm, CInv, ForgetLast
  PROVE  SideInv' /\ LastInv' /\ TreeInv'
  <1> USE NamesAssumption DEF Calm, CInv, IInv, CardType, Flow, Exists, ForgetLast, up, LastAfter, Forgotten
  <1>1. SideInv'
    BY DEF SideInv, SideHasBook, SideMatches, DestClean, Sweeping, InFolders, TreeInv
  <1>2. LastInv'
    BY DEF LastInv, LastHasBook, LastMatches, DestNotLast, Forgetting, InFolders, TreeInv
  <1>3. TreeInv'
    BY DEF TreeInv, InFolders, TodoLeft, OpenIsGood, In
  <1>. QED
    BY <1>1, <1>2, <1>3

LEMMA AnswerCInv ==
  ASSUME Calm, CInv, Answer
  PROVE  SideInv' /\ LastInv' /\ TreeInv'
  <1> USE NamesAssumption DEF Calm, CInv, IInv, CardType, Flow, Exists, Answer, card, up
  <1>1. SideInv'
    BY DEF SideInv, SideHasBook, SideMatches, DestClean, Sweeping, InFolders, TreeInv
  <1>2. LastInv'
    BY DEF LastInv, LastHasBook, LastMatches, DestNotLast, Forgetting, InFolders, TreeInv
  <1>3. TreeInv'
    BY DEF TreeInv, InFolders, TodoLeft, OpenIsGood, In
  <1>. QED
    BY <1>1, <1>2, <1>3

LEMMA DeleteFileCInv ==
  ASSUME Calm, CInv, NEW p \in Path, DeleteFile(p)
  PROVE  SideInv' /\ LastInv' /\ TreeInv'
  <1> USE NamesAssumption DEF Calm, CInv, IInv, CardType, Flow, Exists, DeleteFile, Begin, Ready, up
  <1>1. SideInv'
    BY DEF SideInv, SideHasBook, SideMatches, DestClean, Sweeping, InFolders, TreeInv
  <1>2. LastInv'
    BY DEF LastInv, LastHasBook, LastMatches, DestNotLast, Forgetting, InFolders, TreeInv
  <1>3. TreeInv'
    BY DEF TreeInv, InFolders, TodoLeft, OpenIsGood, In
  <1>. QED
    BY <1>1, <1>2, <1>3

LEMMA DeleteFolderCInv ==
  ASSUME Calm, CInv, NEW f \in Folders, DeleteFolder(f)
  PROVE  SideInv' /\ LastInv' /\ TreeInv'
  <1> USE NamesAssumption DEF Calm, CInv, IInv, CardType, Flow, Exists, DeleteFolder, Begin, Ready, card, up, In
  <1>1. SideInv'
    BY DEF SideInv, SideHasBook, SideMatches, DestClean, Sweeping, InFolders, TreeInv
  <1>2. LastInv'
    BY DEF LastInv, LastHasBook, LastMatches, DestNotLast, Forgetting, InFolders, TreeInv
  <1>3. TreeInv'
    BY DEF TreeInv, InFolders, TodoLeft, OpenIsGood, In
  <1>. QED
    BY <1>1, <1>2, <1>3

LEMMA RemoveNextCInv ==
  ASSUME Calm, CInv, NEW p \in Path, RemoveNext(p)
  PROVE  SideInv' /\ LastInv' /\ TreeInv'
  <1> USE NamesAssumption DEF Calm, CInv, IInv, CardType, Flow, Exists, RemoveNext, up
  <1>1. SideInv'
    BY DEF SideInv, SideHasBook, SideMatches, DestClean, Sweeping, InFolders, TreeInv
  <1>2. LastInv'
    BY DEF LastInv, LastHasBook, LastMatches, DestNotLast, Forgetting, InFolders, TreeInv
  <1>3. TreeInv'
    BY DEF TreeInv, InFolders, TodoLeft, OpenIsGood, In
  <1>. QED
    BY <1>1, <1>2, <1>3

LEMMA RemoveFailsCInv ==
  ASSUME Calm, CInv, RemoveFails
  PROVE  SideInv' /\ LastInv' /\ TreeInv'
  <1> USE NamesAssumption DEF Calm, CInv, IInv, CardType, Flow, Exists, RemoveFails, card, up
  <1>1. SideInv'
    BY DEF SideInv, SideHasBook, SideMatches, DestClean, Sweeping, InFolders, TreeInv
  <1>2. LastInv'
    BY DEF LastInv, LastHasBook, LastMatches, DestNotLast, Forgetting, InFolders, TreeInv
  <1>3. TreeInv'
    BY DEF TreeInv, InFolders, TodoLeft, OpenIsGood, In
  <1>. QED
    BY <1>1, <1>2, <1>3

LEMMA RemoveFolderCInv ==
  ASSUME Calm, CInv, RemoveFolder
  PROVE  SideInv' /\ LastInv' /\ TreeInv'
  <1> USE NamesAssumption DEF Calm, CInv, IInv, CardType, Flow, Exists, RemoveFolder, up
  <1>1. SideInv'
    BY DEF SideInv, SideHasBook, SideMatches, DestClean, Sweeping, InFolders, TreeInv
  <1>2. LastInv'
    BY DEF LastInv, LastHasBook, LastMatches, DestNotLast, Forgetting, InFolders, TreeInv
  <1>3. TreeInv'
    BY DEF TreeInv, InFolders, TodoLeft, OpenIsGood, In
  <1>. QED
    BY <1>1, <1>2, <1>3

LEMMA MoveFileCInv ==
  ASSUME Calm, CInv, NEW p \in Path, NEW q \in Path, MoveFile(p, q)
  PROVE  SideInv' /\ LastInv' /\ TreeInv'
  <1> USE NamesAssumption DEF Calm, CInv, IInv, CardType, Flow, Exists, MoveFile, Begin, Ready, up
  <1>1. SideInv'
    BY DEF SideInv, SideHasBook, SideMatches, DestClean, Sweeping, InFolders, TreeInv
  <1>2. LastInv'
    BY DEF LastInv, LastHasBook, LastMatches, DestNotLast, Forgetting, InFolders, TreeInv
  <1>3. TreeInv'
    BY DEF TreeInv, InFolders, TodoLeft, OpenIsGood, In
  <1>. QED
    BY <1>1, <1>2, <1>3

LEMMA MakeFolderCInv ==
  ASSUME Calm, CInv, NEW f \in Folders, MakeFolder(f)
  PROVE  SideInv' /\ LastInv' /\ TreeInv'
  <1> USE NamesAssumption DEF Calm, CInv, IInv, CardType, Flow, Exists, MakeFolder, Ready, up, job
  <1>1. SideInv'
    BY DEF SideInv, SideHasBook, SideMatches, DestClean, Sweeping, InFolders, TreeInv
  <1>2. LastInv'
    BY DEF LastInv, LastHasBook, LastMatches, DestNotLast, Forgetting, InFolders, TreeInv
  <1>3. TreeInv'
    BY DEF TreeInv, InFolders, TodoLeft, OpenIsGood, In
  <1>. QED
    BY <1>1, <1>2, <1>3

LEMMA StartSessionCInv ==
  ASSUME Calm, CInv, StartSession
  PROVE  SideInv' /\ LastInv' /\ TreeInv'
  <1> USE NamesAssumption DEF Calm, CInv, IInv, CardType, Flow, Exists, StartSession, card, job
  <1>1. SideInv'
    BY DEF SideInv, SideHasBook, SideMatches, DestClean, Sweeping, InFolders, TreeInv
  <1>2. LastInv'
    BY DEF LastInv, LastHasBook, LastMatches, DestNotLast, Forgetting, InFolders, TreeInv
  <1>3. TreeInv'
    BY DEF TreeInv, InFolders, TodoLeft, OpenIsGood, In
  <1>. QED
    BY <1>1, <1>2, <1>3

LEMMA EndSessionCInv ==
  ASSUME Calm, CInv, EndSession
  PROVE  SideInv' /\ LastInv' /\ TreeInv'
  <1> USE NamesAssumption DEF Calm, CInv, IInv, CardType, Flow, Exists, EndSession, Ready, NothingReceived, Idle, card
  <1>1. SideInv'
    BY DEF SideInv, SideHasBook, SideMatches, DestClean, Sweeping, InFolders, TreeInv
  <1>2. LastInv'
    BY DEF LastInv, LastHasBook, LastMatches, DestNotLast, Forgetting, InFolders, TreeInv
  <1>3. TreeInv'
    BY DEF TreeInv, InFolders, TodoLeft, OpenIsGood, In
  <1>. QED
    BY <1>1, <1>2, <1>3

LEMMA ReadBookCInv ==
  ASSUME Calm, CInv, NEW p \in Path, ReadBook(p)
  PROVE  SideInv' /\ LastInv' /\ TreeInv'
  <1> USE NamesAssumption DEF Calm, CInv, IInv, CardType, Flow, Exists, ReadBook, up, job
  <1>4. side' = [side EXCEPT ![p] = book[p]] /\ stale' = stale \ {p}
    BY DEF Sidecar
  <1>1. SideInv'
    BY <1>4 DEF SideInv, SideHasBook, SideMatches, DestClean, Sweeping, InFolders, TreeInv
  <1>2. LastInv'
    BY DEF LastInv, LastHasBook, LastMatches, DestNotLast, Forgetting, InFolders, TreeInv
  <1>3. TreeInv'
    BY DEF TreeInv, InFolders, TodoLeft, OpenIsGood, In
  <1>. QED
    BY <1>1, <1>2, <1>3

LEMMA StepCInv ==
  ASSUME Calm, CInv, [Next]_vars
  PROVE  CInv'
  <1>0. IInv'
    BY StepIInv DEF CInv
  <1> DEFINE Kept == SideInv' /\ LastInv' /\ TreeInv'
  <1>. SUFFICES Kept
    BY <1>0 DEF CInv
  <1>1. ASSUME NEW p \in Path, NEW b \in Books, StartUpload(p, b) PROVE Kept
    BY <1>1, StartUploadCInv
  <1>2. CASE RejectUpload
    BY <1>2, RejectUploadCInv
  <1>3. ASSUME NEW n \in 1..RecvMax, Receive(n) PROVE Kept
    BY <1>3, ReceiveCInv
  <1>4. CASE FinishUpload
    BY <1>4, FinishUploadCInv
  <1>5. CASE DropSidecars \/ ForgetLast \/ Answer
    BY <1>5, DropSidecarsCInv, ForgetLastCInv, AnswerCInv
  <1>6. ASSUME NEW p \in Path, RemoveNext(p) \/ DeleteFile(p) \/ ReadBook(p) PROVE Kept
    BY <1>6, RemoveNextCInv, DeleteFileCInv, ReadBookCInv
  <1>7. CASE RemoveFails \/ RemoveFolder
    BY <1>7, RemoveFailsCInv, RemoveFolderCInv
  <1>8. ASSUME NEW p \in Path, NEW q \in Path, MoveFile(p, q) PROVE Kept
    BY <1>8, MoveFileCInv
  <1>9. ASSUME NEW f \in Folders, DeleteFolder(f) \/ MakeFolder(f) PROVE Kept
    BY <1>9, DeleteFolderCInv, MakeFolderCInv
  <1>10. CASE StartSession \/ EndSession
    BY <1>10, StartSessionCInv, EndSessionCInv
  <1>11. /\ ~AbortUpload /\ ~PowerLost
         /\ \A f \in Folders, g \in Folders : ~RenameFolder(f, g)
    BY DEF Calm, AbortUpload, PowerLost, RenameFolder
  <1>12. CASE UNCHANGED vars
    BY <1>12 DEF vars, card, up, job, CInv, SideInv, SideHasBook, SideMatches, DestClean, Sweeping,
                 LastInv, LastHasBook, LastMatches, DestNotLast, Forgetting,
                 TreeInv, InFolders, TodoLeft, OpenIsGood, Exists
  <1>. QED
    BY <1>1, <1>2, <1>3, <1>4, <1>5, <1>6, <1>7, <1>8, <1>9, <1>10, <1>11, <1>12
       DEF Next, Serve, NewRequest

LEMMA AlwaysCInv ==
  ASSUME Calm
  PROVE  Spec => []CInv
  <1>1. Init => CInv
    BY InitCInv
  <1>2. CInv /\ [Next]_vars => CInv'
    BY StepCInv
  <1>. QED
    BY <1>1, <1>2, PTL DEF Spec

\* While uploads arrive whole and folders keep their names, a reading position
\* is only ever found by the book it was saved in, or where the card refused to
\* remove it.
THEOREM ProgressStaysWithBook ==
  ASSUME Calm
  PROVE  Spec => []ProgressBelongs
  <1>1. CInv => ProgressBelongs
    BY DEF CInv, IInv, Flow, SideInv, SideMatches, Sweeping, ProgressBelongs
  <1>. QED
    BY <1>1, AlwaysCInv, PTL

\* Under the same conditions no sidecar outlives its book, but one that the card
\* refused to remove.
THEOREM SidecarsFollowBooks ==
  ASSUME Calm
  PROVE  Spec => []SidecarsGoWithBook
  <1>1. CInv => SidecarsGoWithBook
    BY DEF CInv, SideInv, SideHasBook, Sweeping, SidecarsGoWithBook
  <1>. QED
    BY <1>1, AlwaysCInv, PTL

\* Under the same conditions continuing opens the book that was read last.
THEOREM ContinueStaysWithBook ==
  ASSUME Calm
  PROVE  Spec => []ContinueBelongs
  <1>1. CInv => ContinueBelongs
    BY DEF CInv, IInv, Flow, LastInv, LastMatches, Forgetting, ContinueBelongs, Exists
  <1>. QED
    BY <1>1, AlwaysCInv, PTL
-----------------------------------------------------------------------------
\* What a step does to the shelf: nothing, or one thing to one unit of it.
Same == Shelf' = Shelf /\ Continued' = Continued
Maps == Abstract!Next \/ Same

LEMMA OneUnit ==
  ASSUME NEW p \in Path, \A q \in Path \ {p} : Unit(q)' = Unit(q)
  PROVE  Shelf' = [Shelf EXCEPT ![p] = Unit(p)']
  <1>1. Shelf' = [q \in Path |-> Unit(q)']
    BY DEF Shelf
  <1>2. [Shelf EXCEPT ![p] = Unit(p)'] = [q \in Path |-> IF q = p THEN Unit(p)' ELSE Unit(q)]
    BY DEF Shelf
  <1>. QED
    BY <1>1, <1>2

LEMMA SameUnits ==
  ASSUME \A q \in Path : Unit(q)' = Unit(q)
  PROVE  Shelf' = Shelf
  BY DEF Shelf

LEMMA ShelfAt ==
  ASSUME NEW p \in Path
  PROVE  Shelf[p] = Unit(p)
  BY DEF Shelf

\* A book is lost.
LEMMA Loses ==
  ASSUME NEW p \in Path, \A q \in Path \ {p} : Unit(q)' = Unit(q),
         Unit(p)' = Abstract!Empty,
         Continued' = IF Continued = p THEN NoPath ELSE Continued
  PROVE  Maps
  <1>1. Abstract!Lose(p)
    BY OneUnit DEF Abstract!Lose, Abstract!Without
  <1>. QED
    BY <1>1 DEF Maps, Abstract!Next

LEMMA StartUploadMaps ==
  ASSUME CInv, NEW p \in Path, NEW b \in Books, StartUpload(p, b)
  PROVE  Maps
  <1>1. pc = "idle" /\ ~open /\ dest' = p /\ pc' = "body" /\ side' = side /\ stale' = stale /\ last' = last
    BY DEF StartUpload, Begin, Ready, CInv, IInv, Flow
  <1>2. CASE open' /\ book' = [book EXCEPT ![p] = b]
    <2>1. \A q \in Path \ {p} : Unit(q)' = Unit(q)
      BY <1>1, <1>2 DEF Unit, Incoming, Sweeping, CInv, IInv, CardType
    <2>2. Unit(p)' = Abstract!Empty
      BY <1>1, <1>2 DEF Unit, Incoming, Abstract!Empty
    <2>3. Continued' = IF Continued = p THEN NoPath ELSE Continued
      BY <1>1, <1>2 DEF Continued, Forgetting, Incoming
    <2>. QED
      BY <2>1, <2>2, <2>3, Loses
  <1>3. CASE ~open' /\ book' = book
    <2>1. \A q \in Path : Unit(q)' = Unit(q)
      BY <1>1, <1>3 DEF Unit, Incoming, Sweeping
    <2>2. Continued' = Continued
      BY <1>1, <1>3 DEF Continued, Forgetting, Incoming
    <2>. QED
      BY <2>1, <2>2, SameUnits DEF Maps, Same
  <1>. QED
    BY <1>2, <1>3 DEF StartUpload

LEMMA FinishUploadMaps ==
  ASSUME Calm, CInv, FinishUpload
  PROVE  Maps
  <1>1. /\ pc = "body" /\ dest' = dest /\ ~open' /\ side' = side /\ stale' = stale /\ last' = last
        /\ open => dest \in Path
    BY DEF FinishUpload, CInv, IInv, Flow
  <1>2. CASE open
    <2>1. success
      BY <1>2 DEF CInv, TreeInv, OpenIsGood
    <2>2. Written(filled) = {filled} /\ ~(filled < filled)
      BY DEF Calm, Written, CInv, IInv, CountType
    <2>3. book' = book /\ pc' = "drop" /\ cur' = dest
      BY <1>2, <2>1, <2>2 DEF FinishUpload
    <2>4. book[dest] = sent /\ sent \in Books \union {NoBook}
      BY <1>1, <2>1 DEF CInv, IInv, Received, UploadType
    <2> PICK d \in Path : d = dest
      BY <1>1, <1>2
    <2> PICK b \in Books \union {NoBook} : b = sent
      BY <2>4
    <2>5. \A q \in Path \ {d} : Unit(q)' = Unit(q)
      BY <1>1, <1>2, <2>3 DEF Unit, Incoming, Sweeping
    <2>6. Unit(d) = Abstract!Empty /\ Unit(d)' = Abstract!Unread(b)
      BY <1>1, <1>2, <2>3, <2>4 DEF Unit, Incoming, Sweeping, Abstract!Empty, Abstract!Unread
    <2>7. Continued' = Continued
      BY <1>1, <1>2, <2>3 DEF Continued, Forgetting, Incoming
    <2>8. Shelf' = [Shelf EXCEPT ![d] = Abstract!Unread(b)] /\ Shelf[d] = Abstract!Empty
      BY <2>5, <2>6, OneUnit, ShelfAt
    <2>9. CASE b \in Books
      BY <2>7, <2>8, <2>9 DEF Maps, Abstract!Next, Abstract!Put
    <2>10. CASE b = NoBook
      <3>1. \A q \in Path : Unit(q)' = Unit(q)
        BY <2>5, <2>6, <2>10 DEF Abstract!Empty, Abstract!Unread
      <3>. QED
        BY <3>1, <2>7, SameUnits DEF Maps, Same
    <2>. QED
      BY <2>9, <2>10
  <1>3. CASE ~open
    <2>1. pc' = "answer" /\ (UNCHANGED <<book, len>> \/ (dest # NoPath /\ Remove(dest)))
      BY <1>3 DEF FinishUpload
    <2>2. Continued' = Continued
      BY <1>1, <1>3, <2>1 DEF Continued, Forgetting, Incoming
    <2>3. CASE book' = book
      <3>1. \A q \in Path : Unit(q)' = Unit(q)
        BY <1>1, <1>3, <2>1, <2>3 DEF Unit, Incoming, Sweeping
      <3>. QED
        BY <3>1, <2>2, SameUnits DEF Maps, Same
    <2>4. CASE dest # NoPath /\ book' = [book EXCEPT ![dest] = NoBook]
      <3> PICK d \in Path \union {NoPath} : d = dest
        BY DEF CInv, IInv, UploadType
      <3>1. d \in Path /\ (side[d] = NoBook \/ d \in stale) /\ d # last.path
        BY <1>1, <1>3, <2>4 DEF CInv, SideInv, DestClean, Sweeping, LastInv, DestNotLast,
                                Forgetting, IInv, UploadType
      <3>2. \A q \in Path \ {d} : Unit(q)' = Unit(q)
        BY <1>1, <1>3, <2>1, <2>4, <3>1 DEF Unit, Incoming, Sweeping, CInv, IInv, CardType
      <3>3. Unit(d)' = Abstract!Empty
        BY <1>1, <1>3, <2>1, <2>4, <3>1
           DEF Unit, Incoming, Sweeping, Abstract!Empty, CInv, IInv, CardType
      <3>4. Continued # d
        BY <2>4, <3>1 DEF Continued
      <3>. QED
        BY <2>2, <3>1, <3>2, <3>3, <3>4, Loses
    <2>. QED
      BY <2>1, <2>3, <2>4 DEF Remove
  <1>. QED
    BY <1>2, <1>3

LEMMA DropSidecarsMaps ==
  ASSUME CInv, DropSidecars
  PROVE  Maps
  <1>1. pc = "drop" /\ ~open /\ pc' = "forget" /\ ~open' /\ cur' = cur
        /\ book' = book /\ last' = last
    BY DEF DropSidecars, up, CInv, IInv, Flow
  <1>4. \A q \in Path : (q # cur /\ side'[q] = side[q] /\ (q \in stale' <=> q \in stale))
                       \/ (q = cur /\ (side'[q] = NoBook \/ q \in stale'))
    BY DEF DropSidecars, Sidecar, CInv, IInv, CardType
  <1>2. \A q \in Path : Unit(q)' = Unit(q)
    BY <1>1, <1>4 DEF Unit, Incoming, Sweeping
  <1>3. Continued' = Continued
    BY <1>1 DEF Continued, Forgetting, Incoming
  <1>. QED
    BY <1>2, <1>3, SameUnits DEF Maps, Same

LEMMA ForgetLastMaps ==
  ASSUME Calm, CInv, ForgetLast
  PROVE  Maps
  <1>1. /\ pc = "forget" /\ ~open /\ ~open' /\ pc' \in {"answer", "delete"}
        /\ book' = book /\ side' = side /\ stale' = stale /\ last' = LastAfter
    BY DEF Calm, ForgetLast, up, CInv, IInv, Flow
  <1>2. \A q \in Path : Unit(q)' = Unit(q)
    BY <1>1 DEF Unit, Incoming, Sweeping
  <1>3. Continued' = Continued
    BY <1>1 DEF Continued, Forgetting, Incoming, LastAfter, Forgotten
  <1>. QED
    BY <1>2, <1>3, SameUnits DEF Maps, Same

\* A file goes, and its removeFor() begins.
LEMMA RemovalMaps ==
  ASSUME CInv, NEW p \in Path, DeleteFile(p) \/ RemoveNext(p)
  PROVE  Maps
  <1>1. /\ pc \in {"idle", "delete"} /\ ~open /\ ~open' /\ pc' = "drop" /\ cur' = p
        /\ book' = [book EXCEPT ![p] = NoBook] /\ side' = side /\ stale' = stale /\ last' = last
    BY DEF DeleteFile, RemoveNext, Begin, Ready, up, CInv, IInv, Flow
  <1>2. \A q \in Path \ {p} : Unit(q)' = Unit(q)
    BY <1>1 DEF Unit, Incoming, Sweeping, CInv, IInv, CardType
  <1>3. Unit(p)' = Abstract!Empty
    BY <1>1 DEF Unit, Incoming, Sweeping, Abstract!Empty, CInv, IInv, CardType
  <1>4. Continued' = IF Continued = p THEN NoPath ELSE Continued
    BY <1>1, NamesAssumption DEF Continued, Forgetting, Incoming
  <1>. QED
    BY <1>2, <1>3, <1>4, Loses

LEMMA MoveFileMaps ==
  ASSUME CInv, NEW p \in Path, NEW q \in Path, MoveFile(p, q)
  PROVE  Maps
  <1>1. /\ pc = "idle" /\ ~open /\ ~open' /\ pc' = "drop" /\ cur' = p
        /\ book' = [book EXCEPT ![q] = book[p], ![p] = NoBook] /\ side' = side /\ stale' = stale /\ last' = last
        /\ book[p] # NoBook /\ book[q] = NoBook /\ p # q
    BY DEF MoveFile, Begin, Ready, Exists, up, CInv, IInv, Flow
  <1>2. side[q] = NoBook \/ q \in stale
    BY <1>1 DEF CInv, SideInv, SideHasBook, Sweeping, Exists
  <1>3. Unit(p).book = book[p] /\ Unit(q) = Abstract!Empty
    BY <1>1, <1>2 DEF Unit, Incoming, Sweeping, Abstract!Empty
  <1>4. \A r \in Path \ {p, q} : Unit(r)' = Unit(r)
    BY <1>1 DEF Unit, Incoming, Sweeping, CInv, IInv, CardType
  <1>5. Unit(p)' = Abstract!Empty /\ Unit(q)' = Abstract!Unread(book[p])
    BY <1>1, <1>2 DEF Unit, Incoming, Sweeping, Abstract!Empty, Abstract!Unread, CInv, IInv, CardType
  <1>6. Continued' = IF Continued = p THEN NoPath ELSE Continued
    BY <1>1, NamesAssumption DEF Continued, Forgetting, Incoming
  <1>7. Shelf' = [Shelf EXCEPT ![q] = Abstract!Unread(book[p]), ![p] = Abstract!Empty]
    <2>1. Shelf' = [r \in Path |-> Unit(r)']
      BY DEF Shelf
    <2>2. [Shelf EXCEPT ![q] = Abstract!Unread(book[p]), ![p] = Abstract!Empty]
            = [r \in Path |-> IF r = p THEN Abstract!Empty
                              ELSE IF r = q THEN Abstract!Unread(book[p]) ELSE Unit(r)]
      BY <1>1 DEF Shelf
    <2>. QED
      BY <1>4, <1>5, <2>1, <2>2
  <1>8. Shelf[p].book = book[p] /\ Shelf[p] # Abstract!Empty /\ Shelf[q] = Abstract!Empty
    BY <1>1, <1>3, ShelfAt DEF Abstract!Empty
  <1>9. Abstract!Move(p, q)
    BY <1>6, <1>7, <1>8 DEF Abstract!Move, Abstract!Without
  <1>. QED
    BY <1>9 DEF Maps, Abstract!Next

LEMMA ReadBookMaps ==
  ASSUME Calm, CInv, NEW p \in Path, ReadBook(p)
  PROVE  Maps
  <1>1. /\ pc = "idle" /\ ~open /\ ~open' /\ pc' = "idle" /\ book' = book
        /\ side' = [side EXCEPT ![p] = book[p]] /\ stale' = stale \ {p}
        /\ last'.path = p /\ book[p] # NoBook
    BY DEF Calm, ReadBook, Sidecar, Exists, up, job, CInv, IInv, Flow, JobType
  <1>2. \A q \in Path \ {p} : Unit(q)' = Unit(q)
    BY <1>1 DEF Unit, Incoming, Sweeping, CInv, IInv, CardType
  <1>3. Unit(p).book = book[p] /\ Unit(p)' = [Unit(p) EXCEPT !.position = book[p]]
    BY <1>1 DEF Unit, Incoming, Sweeping, CInv, IInv, CardType
  <1>4. Continued' = p
    BY <1>1 DEF Continued, Forgetting, Incoming
  <1>5. Shelf' = [Shelf EXCEPT ![p].position = Shelf[p].book]
    BY <1>2, <1>3, OneUnit, ShelfAt
  <1>6. Abstract!Read(p)
    BY <1>1, <1>3, <1>4, <1>5, ShelfAt DEF Abstract!Read, Abstract!Empty
  <1>. QED
    BY <1>6 DEF Maps, Abstract!Next

\* The steps that touch no book and nothing remembered of one.
LEMMA QuietMaps ==
  ASSUME UNCHANGED <<book, side, stale, last>>,
         pc \notin {"drop", "forget"}, pc' \notin {"drop", "forget"},
         UNCHANGED <<open, dest>> \/ (~open /\ ~open')
  PROVE  Maps
  <1>1. \A q \in Path : Unit(q)' = Unit(q)
    BY DEF Unit, Sweeping, Incoming
  <1>2. Continued' = Continued
    BY DEF Continued, Forgetting, Incoming
  <1>. QED
    BY <1>1, <1>2, SameUnits DEF Maps, Same

LEMMA StepMaps ==
  ASSUME Calm, CInv, [Next]_vars
  PROVE  Maps
  <1> USE DEF CInv, IInv, Flow
  <1>1. ASSUME NEW p \in Path, NEW b \in Books, StartUpload(p, b) PROVE Maps
    BY <1>1, StartUploadMaps
  <1>2. CASE RejectUpload
    BY <1>2, QuietMaps DEF RejectUpload, Begin, Ready, card
  <1>3. ASSUME NEW n \in 1..RecvMax, Receive(n) PROVE Maps
    BY <1>3, QuietMaps DEF Receive, job
  <1>4. CASE FinishUpload
    BY <1>4, FinishUploadMaps
  <1>5. CASE DropSidecars
    BY <1>5, DropSidecarsMaps
  <1>6. CASE ForgetLast
    BY <1>6, ForgetLastMaps
  <1>7. CASE Answer
    BY <1>7, QuietMaps DEF Answer, card, up
  <1>8. ASSUME NEW p \in Path, RemoveNext(p) \/ DeleteFile(p) PROVE Maps
    BY <1>8, RemovalMaps
  <1>9. ASSUME NEW p \in Path, ReadBook(p) PROVE Maps
    BY <1>9, ReadBookMaps
  <1>10. CASE RemoveFails \/ RemoveFolder
    BY <1>10, QuietMaps DEF RemoveFails, RemoveFolder, card, up
  <1>11. ASSUME NEW p \in Path, NEW q \in Path, MoveFile(p, q) PROVE Maps
    BY <1>11, MoveFileMaps
  <1>12. ASSUME NEW f \in Folders, DeleteFolder(f) PROVE Maps
    BY <1>12, QuietMaps DEF DeleteFolder, Begin, Ready, card, up
  <1>13. ASSUME NEW f \in Folders, MakeFolder(f) PROVE Maps
    BY <1>13, QuietMaps DEF MakeFolder, Ready, up, job
  <1>14. CASE StartSession
    BY <1>14, QuietMaps DEF StartSession, card, job
  <1>15. CASE EndSession
    BY <1>15, QuietMaps DEF EndSession, Ready, NothingReceived, Idle, card
  <1>16. /\ ~AbortUpload /\ ~PowerLost
         /\ \A f \in Folders, g \in Folders : ~RenameFolder(f, g)
    BY DEF Calm, AbortUpload, PowerLost, RenameFolder
  <1>17. CASE UNCHANGED vars
    <2>1. \A q \in Path : Unit(q)' = Unit(q)
      BY <1>17 DEF vars, card, up, job, Unit, Sweeping, Incoming
    <2>2. Continued' = Continued
      BY <1>17 DEF vars, card, up, job, Continued, Forgetting, Incoming
    <2>. QED
      BY <2>1, <2>2, SameUnits DEF Maps, Same
  <1>. QED
    BY <1>1, <1>2, <1>3, <1>4, <1>5, <1>6, <1>7, <1>8, <1>9, <1>10, <1>11, <1>12, <1>13, <1>14,
       <1>15, <1>16, <1>17 DEF Next, Serve, NewRequest

LEMMA InitShelf == Init => Abstract!Init
  <1> SUFFICES ASSUME Init PROVE Abstract!Init
    OBVIOUS
  <1>1. \A p \in Path : Unit(p) = Abstract!Empty
    BY DEF Init, Unit, Incoming, Sweeping, Abstract!Empty
  <1>2. Continued = NoPath
    BY DEF Init, Continued, Forgotten
  <1>. QED
    BY <1>1, <1>2 DEF Shelf, Abstract!Init

\* Under the same conditions the server and the reader implement the shelf: for
\* every set of paths and books and every size, a book and what is remembered of
\* it come and go in a single step, a sidecar the card refused to remove aside.
THEOREM ShelfIsKept ==
  ASSUME Calm
  PROVE  Spec => BooksAreUnits
  <1>1. CInv /\ [Next]_vars => Maps
    BY StepMaps
  <1>2. Maps => [Abstract!Next]_<<Shelf, Continued>>
    BY DEF Maps, Same
  <1>. QED
    BY <1>1, <1>2, InitShelf, AlwaysCInv, PTL DEF Spec, BooksAreUnits, Abstract!Spec
=============================================================================
